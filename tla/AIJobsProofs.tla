---------------------------- MODULE AIJobsProofs ----------------------------
(***************************************************************************)
(* Machine-checked proofs about AIJobs, for every value of its constants.  *)
(***************************************************************************)
EXTENDS AIJobs, FiniteSetTheorems, TLAPS

(* A worker or a request that is at work has a job.                         *)
HasJob == /\ worker.pc # "idle" => worker.job \in Jobs
          /\ \A r \in Requests : req[r].pc # "idle" => req[r].job \in Jobs

TypeInv == TypeOK /\ HasJob

USE JobsAssumption, TxnsAssumption, NoneAssumption, BoundsAssumption

(* The initial row is a row.                                                *)
LEMMA NoRowType == NoRow \in Row
BY DEF NoRow, Row, Statuses

(* What the ORM sends leaves a row a row.                                   *)
LEMMA MergeType ==
  ASSUME NEW db \in Row, NEW old \in Row, NEW new \in Row
  PROVE  Merge(db, old, new) \in Row
BY DEF Merge, Changed, Row

(* A commit or a rollback leaves the transactions table well typed.         *)
LEMMA SettleType ==
  ASSUME txn \in [Txns -> TxnRow], NEW t, NEW outcome \in {"live", "void"}
  PROVE  Settle(t, outcome) \in [Txns -> TxnRow]
BY DEF Settle, TxnRow

(* What one upload stores is well typed.                                    *)
LEMMA StoredType ==
  ASSUME NEW j \in Jobs, NEW w, w.new \in Row
  PROVE  Stored(j, w) \subseteq Jobs \X Txns
BY DEF Stored, Row

(* Rows created so far are counted by a natural number.                     *)
LEMMA BornType ==
  Cardinality({k \in Jobs : job[k].status # "absent"}) \in Nat
BY FS_Subset, FS_CardinalityType

LEMMA TypeInit == Init => TypeInv
BY NoRowType DEF Init, TypeInv, TypeOK, HasJob, TxnRow, Worker, Request,
   IdleWorker, IdleRequest, NoRow, Row

LEMMA TypeWorker == TypeInv /\ WorkerNext => TypeInv'
<1> SUFFICES ASSUME TypeInv, WorkerNext PROVE TypeInv'
  OBVIOUS
<1> USE NoRowType DEF TypeInv, TypeOK, HasJob
<1>1. ASSUME NEW j \in Jobs, Claim(j) PROVE TypeInv'
  BY <1>1 DEF Claim, IdleWorker, Worker, Row, Statuses
<1>2. CASE Load
  BY <1>2 DEF Load, IdleWorker, Worker
<1>3. CASE ReadFails
  BY <1>3 DEF ReadFails, Worker
<1>4. CASE Place
  <2> DEFINE j == worker.job
  <2>0. worker \in Worker /\ worker.pc = "reading" /\ j \in Jobs /\ Started \in Row
    BY <1>4 DEF Place, Started, Live, Worker, Row
  <2>1. ASSUME NEW t \in Txns, PlaceOn(j, t)
        PROVE  /\ worker' \in Worker
               /\ worker'.job = j
               /\ files' \subseteq Jobs \X Txns
               /\ staged' \subseteq Receipts
    <3>1. Placed(Started, j, t) \in Row
      BY <2>0 DEF Placed, Row, Statuses
    <3>2. worker' \in Worker /\ worker'.job = j
      BY <2>0, <2>1, <3>1 DEF PlaceOn, Worker
    <3>3. Stored(j, worker') \subseteq Jobs \X Txns
      BY <2>0, <3>2, StoredType DEF Worker
    <3> QED
      BY <2>0, <2>1, <3>2, <3>3 DEF PlaceOn
  <2>2. ASSUME NEW t \in Txns, CreateIn(j, t) PROVE txn' \in [Txns -> TxnRow]
    BY <2>0, <2>2 DEF CreateIn, TxnRow
  <2>3. ASSUME worker' = [worker EXCEPT !.pc = "placed",
                  !.new = [Started EXCEPT !.status = "unplaced", !.err = FALSE]]
        PROVE  worker' \in Worker /\ worker'.job = j
    <3>1. [Started EXCEPT !.status = "unplaced", !.err = FALSE] \in Row
      BY <2>0 DEF Row, Statuses
    <3> QED
      BY <2>0, <2>3, <3>1 DEF Worker
  <2>4. /\ worker' \in Worker /\ worker'.job = j
        /\ files' \subseteq Jobs \X Txns
        /\ staged' \subseteq Receipts
        /\ txn' \in [Txns -> TxnRow]
    BY <1>4, <2>0, <2>1, <2>2, <2>3 DEF Place, Row
  <2> QED
    BY <1>4, <2>0, <2>4 DEF Place
<1>5. CASE PlaceLost
  BY <1>5 DEF PlaceLost, Worker
<1>6. CASE WorkerCommit
  <2>1. worker.job \in Jobs /\ worker.snap \in Row /\ worker.new \in Row
    BY <1>6 DEF WorkerCommit, Worker
  <2>2. job' \in [Jobs -> Row]
    BY <1>6, <2>1, MergeType DEF WorkerCommit
  <2>3. txn' \in [Txns -> TxnRow]
    BY <1>6, SettleType DEF WorkerCommit
  <2>4. att' \subseteq Jobs \X Txns
    BY <1>6, <2>1, StoredType DEF WorkerCommit
  <2> QED
    BY <1>6, <2>1, <2>2, <2>3, <2>4 DEF WorkerCommit, IdleWorker, Worker
<1>7. CASE CommitFails
  BY <1>7, SettleType DEF CommitFails, Worker
<1>8. CASE RecordFailure
  <2> DEFINE j == worker.job
             Ends(new) == worker' = [worker EXCEPT !.pc = "recorded",
                            !.snap = job[j], !.new = [new EXCEPT !.err = TRUE]]
  <2>0. worker \in Worker /\ j \in Jobs /\ job[j] \in Row
    BY <1>8 DEF RecordFailure, Worker
  <2>1. ASSUME NEW new \in Row, Ends(new)
        PROVE  worker' \in Worker /\ worker'.job = j /\ worker'.new \in Row
    <3>1. [new EXCEPT !.err = TRUE] \in Row
      BY <2>1 DEF Row
    <3> QED
      BY <2>0, <2>1, <3>1 DEF Worker
  <2>2. /\ [job[j] EXCEPT !.status = "queued", !.due = FALSE] \in Row
        /\ [job[j] EXCEPT !.status = "error"] \in Row
        /\ [job[j] EXCEPT !.status = "unplaced"] \in Row
        /\ \A t \in Txns :
             [job[j] EXCEPT !.status = "error", !.txn = t,
                !.att = IF job[j].att = None /\ StubPhoto(j) THEN t ELSE @] \in Row
        /\ \A t \in Txns : [job[j] EXCEPT !.status = "error", !.txn = t] \in Row
    BY <2>0 DEF Row, Statuses
  <2>3. ASSUME NEW t \in Txns, CreateIn(j, t) PROVE txn' \in [Txns -> TxnRow]
    BY <2>0, <2>3 DEF CreateIn, TxnRow
  <2>4. ASSUME worker' \in Worker PROVE Stored(j, worker') \subseteq Jobs \X Txns
    BY <2>0, <2>4, StoredType DEF Worker
  <2>5. /\ worker' \in Worker /\ worker'.job = j
        /\ files' \subseteq Jobs \X Txns
        /\ staged' \subseteq Receipts
        /\ txn' \in [Txns -> TxnRow]
    <3>1. CASE Ends([job[j] EXCEPT !.status = "queued", !.due = FALSE])
               /\ UNCHANGED <<txn, files, staged>>
      BY <2>1, <2>2, <3>1
    <3>2. CASE Ends([job[j] EXCEPT !.status = "error"]) /\ UNCHANGED <<txn, files, staged>>
      BY <2>1, <2>2, <3>2
    <3>3. CASE Ends([job[j] EXCEPT !.status = "unplaced"])
               /\ UNCHANGED <<txn, files, staged>>
      BY <2>1, <2>2, <3>3
    <3>4. ASSUME NEW t \in Txns, CreateIn(j, t),
                 Ends([job[j] EXCEPT !.status = "error", !.txn = t,
                  !.att = IF job[j].att = None /\ StubPhoto(j) THEN t ELSE @]),
                 files' = files \cup Stored(j, worker'),
                 staged' = IF job[j].legible THEN staged \ {j} ELSE staged
          PROVE  /\ worker' \in Worker /\ worker'.job = j
                 /\ files' \subseteq Jobs \X Txns
                 /\ staged' \subseteq Receipts
                 /\ txn' \in [Txns -> TxnRow]
      <4>1. worker' \in Worker /\ worker'.job = j
        BY <2>1, <2>2, <3>4
      <4> QED
        BY <2>3, <2>4, <3>4, <4>1
    <3>5. ASSUME NEW t \in Txns, CreateIn(j, t),
                 Ends([job[j] EXCEPT !.status = "error", !.txn = t]),
                 UNCHANGED <<files, staged>>
          PROVE  /\ worker' \in Worker /\ worker'.job = j
                 /\ files' \subseteq Jobs \X Txns
                 /\ staged' \subseteq Receipts
                 /\ txn' \in [Txns -> TxnRow]
      <4>1. worker' \in Worker /\ worker'.job = j
        BY <2>1, <2>2, <3>5
      <4> QED
        BY <2>3, <3>5, <4>1
    <3> QED
      BY <1>8, <3>1, <3>2, <3>3, <3>4, <3>5 DEF RecordFailure
  <2> QED
    BY <1>8, <2>0, <2>5 DEF RecordFailure
<1>9. CASE RecordNothing
  BY <1>9 DEF RecordNothing, IdleWorker, Worker
<1>10. CASE RecordLost
  BY <1>10, SettleType DEF RecordLost, IdleWorker, Worker
<1> QED
  BY <1>1, <1>2, <1>3, <1>4, <1>5, <1>6, <1>7, <1>8, <1>9, <1>10 DEF WorkerNext

LEMMA TypePeople == TypeInv /\ PeopleNext => TypeInv'
<1> SUFFICES ASSUME TypeInv, PeopleNext PROVE TypeInv'
  OBVIOUS
<1> USE NoRowType DEF TypeInv, TypeOK, HasJob
<1>0. ASSUME NEW r \in Requests, NEW j \in Jobs, NEW new \in Row,
             NEW op \in {"submit", "retry", "reprocess", "place", "delete"},
             Begin(r, op, j, new)
      PROVE  /\ req' \in [Requests -> Request] /\ steps' \in Nat
             /\ \A q \in Requests : req'[q].pc # "idle" => req'[q].job \in Jobs
  BY <1>0 DEF Begin, UserStep, Request
<1>1. ASSUME NEW r \in Requests, NEW j \in Jobs, Submit(r, j) PROVE TypeInv'
  <2>1. PICK acct \in BOOLEAN, legible \in BOOLEAN :
          Begin(r, "submit", j, [NoRow EXCEPT !.status = "queued", !.due = TRUE,
                                   !.acct = acct, !.legible = legible])
    BY <1>1 DEF Submit
  <2>2. [NoRow EXCEPT !.status = "queued", !.due = TRUE,
           !.acct = acct, !.legible = legible] \in Row
    BY DEF Row, Statuses
  <2> QED
    BY <1>0, <1>1, <2>1, <2>2 DEF Submit
<1>2. ASSUME NEW r \in Requests, NEW j \in Jobs,
             Retry(r, j) \/ Reprocess(r, j) PROVE TypeInv'
  <2>1. Requeued(job[j]) \in Row
    <3>1. job[j] \in Row
      BY DEF TypeInv, TypeOK
    <3> QED
      BY <3>1 DEF Requeued, Row, Statuses
  <2> QED
    BY <1>0, <1>2, <2>1 DEF Retry, Reprocess
<1>3. ASSUME NEW r \in Requests, NEW j \in Jobs, PlaceRequest(r, j) PROVE TypeInv'
  <2>1. [job[j] EXCEPT !.status = IF job[j].err THEN "error" ELSE "done"] \in Row
    BY DEF Row, Statuses
  <2> QED
    BY <1>0, <1>3, <2>1 DEF PlaceRequest
<1>4. ASSUME NEW r \in Requests, NEW j \in Jobs, Delete(r, j) PROVE TypeInv'
  BY <1>0, <1>4 DEF Delete
<1>5. ASSUME NEW t \in Txns, Approve(t) \/ DeleteTxn(t) \/ RestoreTxn(t)
      PROVE  TypeInv'
  <2>1. txn' \in [Txns -> TxnRow]
    <3>1. CASE Approve(t)
      BY <3>1 DEF Approve, TxnRow
    <3>2. CASE DeleteTxn(t)
      BY <3>2 DEF DeleteTxn, TxnRow
    <3>3. CASE RestoreTxn(t)
      BY <3>3 DEF RestoreTxn, TxnRow
    <3> QED
      BY <1>5, <3>1, <3>2, <3>3
  <2>2. steps' \in Nat /\ UNCHANGED <<job, att, files, staged, worker, req, aging, crashes>>
    BY <1>5 DEF Approve, DeleteTxn, RestoreTxn, UserStep
  <2> QED
    BY <2>1, <2>2
<1> QED
  BY <1>1, <1>2, <1>3, <1>4, <1>5 DEF PeopleNext

LEMMA TypeRequest ==
  ASSUME NEW r \in Requests PROVE TypeInv /\ RequestNext(r) => TypeInv'
<1> SUFFICES ASSUME TypeInv, RequestNext(r) PROVE TypeInv'
  OBVIOUS
<1> USE NoRowType DEF TypeInv, TypeOK, HasJob
<1>0. req[r] \in Request /\ IdleRequest \in Request
  BY DEF Request, IdleRequest
<1>1. CASE SubmitCommit(r)
  <2>1. [req[r].new EXCEPT !.born =
           Cardinality({k \in Jobs : job[k].status # "absent"})] \in Row
    BY <1>0, BornType DEF Row, Request
  <2> QED
    BY <1>0, <1>1, <2>1 DEF SubmitCommit, IdleRequest
<1>2. CASE Requeue(r)
  <2>1. req[r].job \in Jobs /\ req[r].snap \in Row /\ req[r].new \in Row
    BY <1>0, <1>2 DEF Requeue, At, Request
  <2> QED
    BY <1>0, <1>2, <2>1, MergeType DEF Requeue, IdleRequest
<1>3. CASE PlaceFinish(r)
  <2> DEFINE j == req[r].job
             On(t) == req' = [req EXCEPT ![r] = Filed(@, t)]
  <2>1. j \in Jobs /\ req[r].new \in Row
    BY <1>0, <1>3 DEF PlaceFinish, At, Request
  <2>2. ASSUME NEW t \in Txns, On(t)
        PROVE  /\ req' \in [Requests -> Request]
               /\ \A q \in Requests : req'[q].pc # "idle" => req'[q].job \in Jobs
               /\ req'[r].new \in Row
    <3> DEFINE new == [req[r].new EXCEPT !.txn = t,
                         !.att = IF req[r].snap.att = None /\ req[r].job \in Receipts
                                   THEN t ELSE @]
    <3>1. new \in Row
      BY <2>1 DEF Row
    <3>2. Filed(req[r], t) = [req[r] EXCEPT !.pc = "flushed", !.new = new]
      BY DEF Filed
    <3> HIDE DEF new
    <3>3. /\ Filed(req[r], t) \in Request
          /\ Filed(req[r], t).job = j
          /\ Filed(req[r], t).new \in Row
      BY <1>0, <3>1, <3>2 DEF Request
    <3> QED
      BY <2>1, <2>2, <3>3
  <2>3. ASSUME NEW t \in Txns, CreateIn(j, t) PROVE txn' \in [Txns -> TxnRow]
    BY <2>1, <2>3 DEF CreateIn, TxnRow
  <2>4. /\ req' \in [Requests -> Request]
        /\ \A q \in Requests : req'[q].pc # "idle" => req'[q].job \in Jobs
        /\ req'[r].new \in Row
        /\ txn' \in [Txns -> TxnRow]
    BY <1>3, <2>2, <2>3 DEF PlaceFinish
  <2>5. files' \subseteq Jobs \X Txns
    BY <1>3, <2>1, <2>4, StoredType DEF PlaceFinish
  <2> QED
    BY <1>3, <2>4, <2>5 DEF PlaceFinish
<1>4. CASE PlaceCommit(r)
  <2>1. req[r].job \in Jobs /\ req[r].snap \in Row /\ req[r].new \in Row
    BY <1>0, <1>4 DEF PlaceCommit, At, Request
  <2>2. job' \in [Jobs -> Row]
    BY <1>4, <2>1, MergeType DEF PlaceCommit
  <2>3. att' \subseteq Jobs \X Txns
    BY <1>4, <2>1, StoredType DEF PlaceCommit
  <2>4. txn' \in [Txns -> TxnRow]
    BY <1>4, SettleType DEF PlaceCommit
  <2> QED
    BY <1>0, <1>4, <2>1, <2>2, <2>3, <2>4 DEF PlaceCommit, IdleRequest
<1>5. CASE DeleteFlush(r)
  BY <1>0, <1>5 DEF DeleteFlush, At, Request
<1>6. CASE DeleteCommit(r)
  BY <1>0, <1>6 DEF DeleteCommit, At, IdleRequest, Row
<1>7. CASE Abort(r)
  <2>1. txn' \in [Txns -> TxnRow]
    BY <1>7, SettleType DEF Abort
  <2> QED
    BY <1>0, <1>7, <2>1 DEF Abort, IdleRequest
<1> QED
  BY <1>1, <1>2, <1>3, <1>4, <1>5, <1>6, <1>7 DEF RequestNext

LEMMA TypeRest ==
  /\ TypeInv /\ NightlyNext => TypeInv'
  /\ \A j \in Jobs : TypeInv /\ BackoffEnds(j) => TypeInv'
  /\ TypeInv /\ CrashRestart => TypeInv'
<1> USE NoRowType DEF TypeInv, TypeOK, HasJob
<1>0. ASSUME TypeInv, NEW old \in SUBSET Jobs, Expire(old)
      PROVE  job' \in [Jobs -> Row] /\ staged' \subseteq Receipts
  BY <1>0 DEF Expire, Row
<1>1. ASSUME TypeInv, RetentionPass PROVE TypeInv'
  BY <1>0, <1>1 DEF RetentionPass, Expire
<1>2. ASSUME TypeInv, RetentionSelect PROVE TypeInv'
  BY <1>2 DEF RetentionSelect
<1>3. ASSUME TypeInv, RetentionDelete PROVE TypeInv'
  BY <1>0, <1>3 DEF RetentionDelete, Expire
<1>4. ASSUME TypeInv, StagingSweep \/ FileSweep PROVE TypeInv'
  BY <1>4 DEF StagingSweep, FileSweep
<1>5. ASSUME TypeInv, NEW j \in Jobs, BackoffEnds(j) PROVE TypeInv'
  BY <1>5 DEF BackoffEnds, Row
<1>6. ASSUME TypeInv, CrashRestart PROVE TypeInv'
  <2>1. job' \in [Jobs -> Row]
    BY <1>6 DEF CrashRestart, Recovered, Row, Statuses
  <2>2. txn' \in [Txns -> TxnRow]
    BY <1>6 DEF CrashRestart, TxnRow
  <2> QED
    BY <1>6, <2>1, <2>2 DEF CrashRestart, IdleWorker, IdleRequest, Worker, Request
<1> QED
  BY <1>1, <1>2, <1>3, <1>4, <1>5, <1>6 DEF NightlyNext

(* Every variable keeps its type, and whoever is at work has a job.         *)
LEMMA TypeInvariant == Spec => []TypeInv
<1>1. TypeInv /\ [Next]_vars => TypeInv'
  <2>1. CASE UNCHANGED vars
    BY <2>1 DEF vars, TypeInv, TypeOK, HasJob
  <2> QED
    BY <2>1, TypeWorker, TypePeople, TypeRequest, TypeRest DEF Next
<1> QED
  BY <1>1, TypeInit, PTL DEF Spec

----------------------------------------------------------------------------
(* Type correctness: whatever the worker, the requests, the nightly passes  *)
(* and crashes do, in any order, every variable keeps its type.             *)
THEOREM TypeCorrect == Spec => []TypeOK
<1>1. TypeInv => TypeOK
  BY DEF TypeInv
<1> QED
  BY <1>1, TypeInvariant, PTL

(***************************************************************************)
(* With one request at a time, what a session loaded is what it overwrites.*)
(* The checked invariants rest on that: the worker's row is 'processing'   *)
(* (or gone) while it works, so no request may touch it, and a request's   *)
(* row is settled, so the worker does not claim it under the request.      *)
(***************************************************************************)

(* The worker's job stays 'processing' unless it is deleted under it.       *)
Held == worker.pc # "idle" => job[worker.job].status \in {"processing", "deleted"}

(* The worker's copy is the row itself, as long as there is one.            *)
WorkerFresh ==
  worker.pc \in {"reading", "placed", "recorded"} =>
    /\ worker.snap.status = "processing"
    /\ Exists(worker.job) => worker.snap = job[worker.job]

(* What the worker is about to commit is in order.                          *)
Verdict ==
  worker.pc \in {"placed", "recorded"} =>
    /\ job[worker.job].status = "processing"
    /\ worker.new.status \in {"queued", "done", "error", "unplaced"}
    /\ worker.new.status \in {"done", "error"} =>
         worker.new.txn # None \/ "stub" \in Windows
    /\ worker.new.status = "unplaced" => worker.new.txn = None
    /\ worker.new.attempts = worker.snap.attempts
    /\ worker.new.status = "queued" => worker.new.attempts < MaxAttempts

(* What a request is about to commit is in order, and its copy is the row.  *)
FreshRequest(r) ==
  /\ req[r].op # "none" => req[r].job \in Jobs
  /\ req[r].op = "submit" =>
       /\ job[req[r].job].status = "absent"
       /\ req[r].new.status = "queued"
       /\ req[r].new.attempts = 0
  /\ req[r].op \in {"retry", "reprocess"} =>
       /\ req[r].snap.status \in {"done", "error", "unplaced"}
       /\ req[r].new = Requeued(req[r].snap)
       /\ Exists(req[r].job) => req[r].snap = job[req[r].job]
  /\ req[r].op = "place" =>
       /\ req[r].snap.status = "unplaced"
       /\ req[r].new.status \in {"done", "error"}
       /\ req[r].new.attempts = req[r].snap.attempts
       /\ req[r].pc = "flushed" => req[r].new.txn # None
       /\ Exists(req[r].job) => req[r].snap = job[req[r].job]

RequestFresh == \A r \in Requests : FreshRequest(r)

(* The row lock has one holder, and retention selects only rows.            *)
OneLock == \A j \in Jobs : ~(WorkerLocks(j) /\ RequestLocks(j))
AgingExists == \A j \in aging : job[j].status # "absent"

(* A finished job has its row, unless its stub could not be made.           *)
FinishedNamed ==
  \A j \in Jobs :
    job[j].status \in {"done", "error"} => job[j].txn # None \/ "stub" \in Windows

SerialInv == /\ Held /\ WorkerFresh /\ Verdict
             /\ RequestFresh /\ OneLock /\ AgingExists
             /\ FinishedNamed /\ UnplacedHasNoRow /\ AttemptsBounded

(* Over the row it was loaded from, a session's copy is what commits.       *)
LEMMA MergeFresh ==
  ASSUME NEW old \in Row, NEW new \in Row
  PROVE  /\ Merge(old, old, new).status = new.status
         /\ Merge(old, old, new).txn = new.txn
         /\ Merge(old, old, new).attempts = new.attempts
BY DEF Merge, Changed

(* A step that leaves the jobs, the sessions and retention alone.           *)
LEMMA SerialQuiet ==
  ASSUME SerialInv, UNCHANGED <<job, worker, req, aging, crashes>>
  PROVE  SerialInv'
BY DEF SerialInv, Held, WorkerFresh, Verdict, RequestFresh, FreshRequest,
   OneLock,
   AgingExists,
   FinishedNamed, UnplacedHasNoRow, AttemptsBounded, Exists, WorkerLocks,
   RequestLocks

LEMMA SerialInit == Init => SerialInv
BY DEF Init, SerialInv, Held, WorkerFresh, Verdict, RequestFresh, FreshRequest,
   OneLock,
   AgingExists, FinishedNamed, UnplacedHasNoRow, AttemptsBounded, IdleWorker,
   IdleRequest, NoRow, WorkerLocks, RequestLocks

(* The worker's steps that write no row.                                    *)
LEMMA SerialWorkerReads ==
  ASSUME TypeInv, TypeInv', SerialInv,
         \/ Load \/ ReadFails \/ Place \/ PlaceLost
         \/ CommitFails \/ RecordFailure \/ RecordNothing \/ RecordLost
  PROVE  SerialInv'
<1> DEFINE j == worker.job
<1>0. UNCHANGED <<job, req, aging, crashes>>
  BY DEF Load, ReadFails, Place, PlaceLost, CommitFails, RecordFailure,
         RecordNothing, RecordLost
<1>1. RequestFresh' /\ AgingExists' /\ FinishedNamed' /\ UnplacedHasNoRow'
      /\ AttemptsBounded'
  BY <1>0 DEF SerialInv, RequestFresh, FreshRequest, AgingExists, FinishedNamed,
     UnplacedHasNoRow, AttemptsBounded, Exists
<1> USE DEF TypeInv, TypeOK, HasJob
<1> SUFFICES Held' /\ WorkerFresh' /\ Verdict' /\ OneLock'
  BY <1>1 DEF SerialInv
<1>2. CASE worker' = IdleWorker
  BY <1>0, <1>2 DEF IdleWorker, Held, WorkerFresh, Verdict, OneLock,
     WorkerLocks, RequestLocks
<1>3. CASE Load
  BY <1>0, <1>2, <1>3 DEF Load, SerialInv, Held, WorkerFresh, Verdict, OneLock,
     WorkerLocks, RequestLocks, Exists, Statuses, Worker
<1>4. CASE ReadFails \/ PlaceLost \/ CommitFails
  BY <1>0, <1>4 DEF ReadFails, PlaceLost, CommitFails, SerialInv, Held,
     WorkerFresh, Verdict, OneLock, WorkerLocks, RequestLocks, Worker
<1>5. CASE Place
  <2>0. /\ worker.pc = "reading" /\ j \in Jobs /\ Exists(j) /\ ~RequestLocks(j)
        /\ worker \in Worker /\ worker.snap = job[j] /\ job[j] \in Row
        /\ job[j].status = "processing"
    BY <1>5 DEF Place, SerialInv, WorkerFresh, Worker
  <2>1. Started \in Row /\ Started.attempts = worker.snap.attempts
    BY <2>0 DEF Started, Live, Row
  <2>2. ASSUME NEW t \in Txns, PlaceOn(j, t)
        PROVE  /\ worker' = [worker EXCEPT !.pc = "placed", !.new = worker'.new]
               /\ worker'.new.status = "done" /\ worker'.new.txn = t
               /\ worker'.new.attempts = worker.snap.attempts
    <3>1. /\ Placed(Started, j, t).status = "done"
          /\ Placed(Started, j, t).txn = t
          /\ Placed(Started, j, t).attempts = worker.snap.attempts
      BY <2>1 DEF Placed, Row
    <3> QED
      BY <2>0, <2>2, <3>1 DEF PlaceOn, Worker
  <2>3. ASSUME Started.txn = None,
               worker' = [worker EXCEPT !.pc = "placed",
                  !.new = [Started EXCEPT !.status = "unplaced", !.err = FALSE]]
        PROVE  /\ worker' = [worker EXCEPT !.pc = "placed", !.new = worker'.new]
               /\ worker'.new.status = "unplaced" /\ worker'.new.txn = None
               /\ worker'.new.attempts = worker.snap.attempts
    <3> DEFINE waiting == [Started EXCEPT !.status = "unplaced", !.err = FALSE]
    <3>1. /\ waiting.status = "unplaced" /\ waiting.txn = None
          /\ waiting.attempts = worker.snap.attempts
      BY <2>1, <2>3 DEF Row
    <3>2. worker' = [worker EXCEPT !.pc = "placed", !.new = waiting]
      BY <2>3
    <3> HIDE DEF waiting
    <3>3. worker'.new = waiting
      BY <2>0, <3>2 DEF Worker
    <3> QED
      BY <3>1, <3>2, <3>3
  <2>4. /\ worker' = [worker EXCEPT !.pc = "placed", !.new = worker'.new]
        /\ \/ worker'.new.status = "done" /\ worker'.new.txn # None
           \/ worker'.new.status = "unplaced" /\ worker'.new.txn = None
        /\ worker'.new.attempts = worker.snap.attempts
    <3>1. CASE Started.txn # None /\ PlaceOn(j, Started.txn)
      BY <2>1, <2>2, <3>1 DEF Row
    <3>2. CASE \E t \in Txns : PlaceOn(j, t)
      BY <2>2, <3>2
    <3>3. CASE Started.txn = None
               /\ worker' = [worker EXCEPT !.pc = "placed",
                    !.new = [Started EXCEPT !.status = "unplaced", !.err = FALSE]]
      BY <2>3, <3>3
    <3> QED
      BY <1>5, <3>1, <3>2, <3>3 DEF Place
  <2>5. /\ worker'.pc = "placed" /\ worker'.job = j /\ worker'.snap = worker.snap
    BY <2>0, <2>4 DEF Worker
  <2> QED
    BY <1>0, <2>0, <2>4, <2>5 DEF Held, WorkerFresh, Verdict, OneLock, WorkerLocks,
       RequestLocks
<1>6. CASE RecordFailure
  <2> DEFINE Ends(new) == worker' = [worker EXCEPT !.pc = "recorded",
                            !.snap = job[j], !.new = [new EXCEPT !.err = TRUE]]
  <2>0. /\ worker.pc = "failed" /\ j \in Jobs /\ Exists(j) /\ ~RequestLocks(j)
        /\ worker \in Worker /\ job[j] \in Row /\ job[j].status = "processing"
    BY <1>6 DEF RecordFailure, SerialInv, Held, Exists, Statuses, Worker
  <2>1. ASSUME NEW new \in Row, Ends(new)
        PROVE  /\ worker'.pc = "recorded" /\ worker'.job = j /\ worker'.snap = job[j]
               /\ worker'.new.status = new.status /\ worker'.new.txn = new.txn
               /\ worker'.new.attempts = new.attempts
    BY <2>0, <2>1 DEF Worker, Row
  <2>2. PICK new \in Row :
          /\ Ends(new)
          /\ \/ new.status = "queued" /\ new.attempts < MaxAttempts
             \/ new.status = "error" /\ (new.txn # None \/ "stub" \in Windows)
             \/ new.status = "unplaced" /\ new.txn = None
          /\ new.attempts = job[j].attempts
    <3>1. CASE /\ MayRetry(worker.again, job[j])
               /\ Ends([job[j] EXCEPT !.status = "queued", !.due = FALSE])
      <4>1. [job[j] EXCEPT !.status = "queued", !.due = FALSE] \in Row
        BY <2>0 DEF Row, Statuses
      <4>2. /\ [job[j] EXCEPT !.status = "queued", !.due = FALSE].status = "queued"
            /\ [job[j] EXCEPT !.status = "queued", !.due = FALSE].attempts
                 = job[j].attempts
        BY <2>0 DEF Row
      <4>3. job[j].attempts < MaxAttempts
        BY <3>1 DEF MayRetry
      <4> QED
        BY <3>1, <4>1, <4>2, <4>3
    <3>2. CASE /\ ~StubNeeded(job[j]) \/ "stub" \in Windows
               /\ Ends([job[j] EXCEPT !.status = "error"])
      <4>1. /\ [job[j] EXCEPT !.status = "error"] \in Row
            /\ [job[j] EXCEPT !.status = "error"].status = "error"
            /\ [job[j] EXCEPT !.status = "error"].txn = job[j].txn
            /\ [job[j] EXCEPT !.status = "error"].attempts = job[j].attempts
        BY <2>0 DEF Row, Statuses
      <4> QED
        BY <3>2, <4>1 DEF StubNeeded
    <3>3. CASE StubNeeded(job[j]) /\ Ends([job[j] EXCEPT !.status = "unplaced"])
      <4>1. /\ [job[j] EXCEPT !.status = "unplaced"] \in Row
            /\ [job[j] EXCEPT !.status = "unplaced"].status = "unplaced"
            /\ [job[j] EXCEPT !.status = "unplaced"].txn = job[j].txn
            /\ [job[j] EXCEPT !.status = "unplaced"].attempts = job[j].attempts
        BY <2>0 DEF Row, Statuses
      <4> QED
        BY <3>3, <4>1 DEF StubNeeded
    <3>4. ASSUME NEW t \in Txns,
                 Ends([job[j] EXCEPT !.status = "error", !.txn = t,
                  !.att = IF job[j].att = None /\ StubPhoto(j) THEN t ELSE @])
          PROVE  \E new \in Row : /\ Ends(new)
                                  /\ new.status = "error" /\ new.txn # None
                                  /\ new.attempts = job[j].attempts
      <4> DEFINE new == [job[j] EXCEPT !.status = "error", !.txn = t,
                  !.att = IF job[j].att = None /\ StubPhoto(j) THEN t ELSE @]
      <4>1. /\ new \in Row /\ new.status = "error" /\ new.txn = t
            /\ new.attempts = job[j].attempts
        BY <2>0 DEF Row, Statuses
      <4> QED
        BY <3>4, <4>1
    <3>5. ASSUME NEW t \in Txns, Ends([job[j] EXCEPT !.status = "error", !.txn = t])
          PROVE  \E new \in Row : /\ Ends(new)
                                  /\ new.status = "error" /\ new.txn # None
                                  /\ new.attempts = job[j].attempts
      <4> DEFINE new == [job[j] EXCEPT !.status = "error", !.txn = t]
      <4>1. /\ new \in Row /\ new.status = "error" /\ new.txn = t
            /\ new.attempts = job[j].attempts
        BY <2>0 DEF Row, Statuses
      <4> QED
        BY <3>5, <4>1
    <3> QED
      BY <1>6, <3>1, <3>2, <3>3, <3>4, <3>5 DEF RecordFailure
  <2> QED
    BY <1>0, <2>0, <2>1, <2>2 DEF Held, WorkerFresh, Verdict, OneLock, WorkerLocks,
       RequestLocks
<1> QED
  BY <1>2, <1>3, <1>4, <1>5, <1>6 DEF RecordNothing, RecordLost

(* The worker's two writes: the claim, and the commit of what it made.      *)
LEMMA SerialWorkerWrites ==
  ASSUME TypeInv, TypeInv', SerialInv,
         (\E j \in Jobs : Claim(j)) \/ WorkerCommit
  PROVE  SerialInv'
<1> USE DEF TypeInv, TypeOK, HasJob
<1>1. ASSUME NEW j \in Jobs, Claim(j) PROVE SerialInv'
  <2>0. /\ job[j].status = "queued" /\ job[j] \in Row
        /\ job' = [job EXCEPT ![j].status = "processing", ![j].attempts = @ + 1]
        /\ worker'.pc = "claimed" /\ worker'.job = j
        /\ UNCHANGED <<req, aging, crashes>>
    BY <1>1 DEF Claim, Claimable, IdleWorker
  <2>1. /\ job'[j].status = "processing" /\ job'[j].attempts = job[j].attempts + 1
        /\ \A k \in Jobs : k # j => job'[k] = job[k]
    BY <2>0 DEF Row
  <2>2. Held' /\ WorkerFresh' /\ Verdict' /\ OneLock'
    BY <2>0, <2>1 DEF Held, WorkerFresh, Verdict, OneLock, WorkerLocks
  <2>3. ASSUME NEW r \in Requests, req[r].op \in {"submit", "retry", "reprocess", "place"}
        PROVE  req[r].job # j
    BY <2>0, <2>3 DEF SerialInv, RequestFresh, FreshRequest, Exists, Statuses
  <2>4. RequestFresh'
    <3>1. ASSUME NEW r \in Requests, req[r].op # "none"
          PROVE  /\ req[r].op = "delete" \/ job'[req[r].job] = job[req[r].job]
                 /\ req[r].job \in Jobs
      <4>1. req[r].op \in {"submit", "retry", "reprocess", "place", "delete"}
        BY <3>1 DEF Request
      <4> QED
        BY <2>1, <2>3, <3>1, <4>1 DEF SerialInv, RequestFresh, FreshRequest
    <3>2. \A r \in Requests :
            req[r].op \notin {"none", "delete"} =>
              job'[req[r].job] = job[req[r].job]
      BY <3>1
    <3>3. ASSUME NEW r \in Requests PROVE FreshRequest(r)'
      <4>1. FreshRequest(r) /\ req'[r] = req[r]
        BY <2>0 DEF SerialInv, RequestFresh
      <4>2. CASE req[r].op \in {"none", "delete"}
        BY <3>1, <4>1, <4>2 DEF FreshRequest
      <4>3. CASE req[r].op \notin {"none", "delete"}
        <5>1. job'[req[r].job] = job[req[r].job]
          BY <3>2, <4>3
        <5> QED
          BY <4>1, <5>1 DEF FreshRequest, Exists
      <4> QED
        BY <4>2, <4>3
    <3> QED
      BY <3>3 DEF RequestFresh
  <2>5. AgingExists' /\ FinishedNamed' /\ UnplacedHasNoRow'
    BY <2>0, <2>1 DEF SerialInv, AgingExists, FinishedNamed, UnplacedHasNoRow, Row
  <2>6. AttemptsBounded'
    BY <2>0, <2>1 DEF SerialInv, AttemptsBounded, Row
  <2> QED
    BY <2>2, <2>4, <2>5, <2>6 DEF SerialInv
<1>2. CASE WorkerCommit
  <2> DEFINE j == worker.job
  <2>0. /\ j \in Jobs /\ worker.snap = job[j] /\ job[j] \in Row
        /\ worker.new \in Row /\ WorkerLocks(j)
        /\ job[j].status = "processing"
        /\ UNCHANGED <<req, aging, crashes>>
        /\ worker'.pc = "idle"
    BY <1>2 DEF WorkerCommit, SerialInv, WorkerFresh, Verdict, Exists, Statuses,
       WorkerLocks, IdleWorker, Worker
  <2>1. /\ job'[j].status = worker.new.status
        /\ job'[j].txn = worker.new.txn
        /\ job'[j].attempts = job[j].attempts
        /\ \A k \in Jobs : k # j => job'[k] = job[k]
    BY <1>2, <2>0, MergeFresh DEF WorkerCommit, SerialInv, Verdict
  <2>2. Held' /\ WorkerFresh' /\ Verdict' /\ OneLock'
    BY <2>0 DEF Held, WorkerFresh, Verdict, OneLock, WorkerLocks
  <2>3. ASSUME NEW r \in Requests, req[r].op \in {"submit", "retry", "reprocess", "place"}
        PROVE  req[r].job # j
    BY <2>0, <2>3 DEF SerialInv, RequestFresh, FreshRequest, Exists, Statuses
  <2>4. \A k : k # j => job'[k] = job[k]
    BY <1>2 DEF WorkerCommit
  <2>5. RequestFresh'
    BY <2>0, <2>3, <2>4 DEF SerialInv, RequestFresh, FreshRequest, Exists
  <2>6. AgingExists'
    BY <2>0, <2>1, <1>2 DEF SerialInv, AgingExists, Verdict, WorkerCommit
  <2>7. FinishedNamed' /\ UnplacedHasNoRow'
    BY <1>2, <2>0, <2>1 DEF SerialInv, FinishedNamed, UnplacedHasNoRow, Verdict,
       WorkerCommit
  <2>8. AttemptsBounded'
    <3>1. job[j].attempts \in Nat /\ crashes \in Nat
      BY <2>0 DEF Row
    <3>2. job'[j].status = "queued" => job'[j].attempts < MaxAttempts
      BY <1>2, <2>0, <2>1 DEF SerialInv, Verdict, WorkerCommit
    <3> QED
      BY <2>0, <2>1, <3>1, <3>2 DEF SerialInv, AttemptsBounded
  <2> QED
    BY <2>2, <2>5, <2>6, <2>7, <2>8 DEF SerialInv
<1> QED
  BY <1>1, <1>2

(* A request that begins has just read the row it will write.               *)
LEMMA SerialPeople ==
  ASSUME TypeInv, SerialRequests, SerialInv, PeopleNext
  PROVE  SerialInv'
<1> USE DEF TypeInv, TypeOK, HasJob
<1>1. ASSUME NEW t \in Txns, Approve(t) \/ DeleteTxn(t) \/ RestoreTxn(t)
      PROVE  SerialInv'
  BY <1>1, SerialQuiet DEF Approve, DeleteTxn, RestoreTxn
<1>2. ASSUME NEW r \in Requests, NEW j \in Jobs, NEW op, NEW new \in Row,
             Begin(r, op, j, new),
             op \in {"submit", "retry", "reprocess", "place", "delete"},
             op = "submit" => /\ job[j].status = "absent"
                              /\ new.status = "queued" /\ new.attempts = 0,
             op \in {"retry", "reprocess"} =>
               /\ job[j].status \in {"done", "error", "unplaced"}
               /\ new = Requeued(job[j]),
             op = "place" => /\ job[j].status = "unplaced"
                             /\ new.status \in {"done", "error"}
                             /\ new.attempts = job[j].attempts,
             UNCHANGED <<job, worker, aging, crashes>>
      PROVE  SerialInv'
  <2>1. /\ req'[r].op = op /\ req'[r].pc = "begun" /\ req'[r].job = j
        /\ req'[r].snap = job[j] /\ req'[r].new = new
    BY <1>2 DEF Begin
  <2>2. \A q \in Requests : q = r
    BY DEF SerialRequests
  <2>3. RequestFresh'
    BY <1>2, <2>1, <2>2 DEF RequestFresh, FreshRequest
  <2>4. OneLock'
    BY <1>2, <2>1, <2>2 DEF OneLock, RequestLocks
  <2> QED
    BY <1>2, <2>3, <2>4 DEF SerialInv, Held, WorkerFresh, Verdict, AgingExists,
       FinishedNamed, UnplacedHasNoRow, AttemptsBounded, Exists
<1>3. ASSUME NEW r \in Requests, NEW j \in Jobs, Submit(r, j) PROVE SerialInv'
  <2>1. PICK acct \in BOOLEAN, legible \in BOOLEAN :
          Begin(r, "submit", j, [NoRow EXCEPT !.status = "queued", !.due = TRUE,
                                   !.acct = acct, !.legible = legible])
    BY <1>3 DEF Submit
  <2> DEFINE new == [NoRow EXCEPT !.status = "queued", !.due = TRUE,
                       !.acct = acct, !.legible = legible]
  <2>2. new \in Row /\ new.status = "queued" /\ new.attempts = 0
    BY NoRowType DEF NoRow, Row, Statuses
  <2> HIDE DEF new
  <2>3. Begin(r, "submit", j, new)
    BY <2>1 DEF new
  <2> QED
    BY <1>2, <1>3, <2>2, <2>3 DEF Submit
<1>4. ASSUME NEW r \in Requests, NEW j \in Jobs, Retry(r, j) \/ Reprocess(r, j)
      PROVE  SerialInv'
  <2>1. Requeued(job[j]) \in Row
    <3>1. job[j] \in Row
      BY DEF TypeInv, TypeOK
    <3> QED
      BY <3>1 DEF Requeued, Row, Statuses
  <2>2. CASE Retry(r, j)
    <3>1. /\ Begin(r, "retry", j, Requeued(job[j])) /\ job[j].status = "error"
          /\ UNCHANGED <<job, worker, aging, crashes>>
      BY <2>2 DEF Retry
    <3> QED
      BY <1>2, <2>1, <3>1
  <2>3. CASE Reprocess(r, j)
    <3>1. /\ Begin(r, "reprocess", j, Requeued(job[j]))
          /\ job[j].status \in {"done", "error", "unplaced"}
          /\ UNCHANGED <<job, worker, aging, crashes>>
      BY <2>3 DEF Reprocess
    <3> QED
      BY <1>2, <2>1, <3>1
  <2> QED
    BY <1>4, <2>2, <2>3
<1>5. ASSUME NEW r \in Requests, NEW j \in Jobs, PlaceRequest(r, j) PROVE SerialInv'
  <2> DEFINE new == [job[j] EXCEPT !.status = IF job[j].err THEN "error" ELSE "done"]
  <2>1. /\ new \in Row /\ new.status \in {"done", "error"}
        /\ new.attempts = job[j].attempts
    BY DEF Row, Statuses
  <2> HIDE DEF new
  <2>2. Begin(r, "place", j, new)
    BY <1>5 DEF PlaceRequest, new
  <2> QED
    BY <1>2, <1>5, <2>1, <2>2 DEF PlaceRequest
<1>6. ASSUME NEW r \in Requests, NEW j \in Jobs, Delete(r, j) PROVE SerialInv'
  BY <1>2, <1>6 DEF Delete
<1> QED
  BY <1>1, <1>3, <1>4, <1>5, <1>6 DEF PeopleNext

(* A request's write: it changes one row, which no other session holds.     *)
LEMMA SerialRowWrite ==
  ASSUME TypeInv, SerialRequests, SerialInv,
         NEW r \in Requests, req[r].job \in Jobs, NEW new \in Row,
         worker.job = req[r].job => worker.pc \notin {"placed", "recorded"},
         worker.job = req[r].job /\ worker.pc # "idle" => new.status = "deleted",
         job' = [job EXCEPT ![req[r].job] = new],
         req' = [req EXCEPT ![r] = IdleRequest],
         UNCHANGED <<worker, crashes>>, aging' \subseteq aging,
         new.status # "absent",
         new.status \in {"done", "error"} => new.txn # None,
         new.status = "unplaced" => new.txn = None,
         new.attempts <= MaxAttempts + crashes,
         new.status = "queued" => new.attempts < MaxAttempts + crashes
  PROVE  SerialInv'
<1> USE DEF TypeInv, TypeOK, HasJob
<1> DEFINE j == req[r].job
<1>1. /\ job'[j] = new
      /\ \A k : k # j => job'[k] = job[k]
  OBVIOUS
<1>2. \A q \in Requests : req'[q] = IdleRequest
  BY DEF SerialRequests
<1>3. RequestFresh' /\ OneLock'
  BY <1>2 DEF RequestFresh, FreshRequest, OneLock, RequestLocks, IdleRequest
<1>4. Held'
  BY <1>1 DEF SerialInv, Held
<1>5. WorkerFresh'
  BY <1>1 DEF SerialInv, WorkerFresh, Exists, Statuses
<1>6. Verdict'
  BY <1>1 DEF SerialInv, Verdict
<1>7. AgingExists' /\ FinishedNamed' /\ UnplacedHasNoRow' /\ AttemptsBounded'
  BY <1>1 DEF SerialInv, AgingExists, FinishedNamed, UnplacedHasNoRow,
     AttemptsBounded
<1> QED
  BY <1>3, <1>4, <1>5, <1>6, <1>7 DEF SerialInv

(* A request's steps to its commit or its rollback.                         *)
LEMMA SerialRequest ==
  ASSUME TypeInv, SerialRequests, SerialInv, NEW r \in Requests, RequestNext(r)
  PROVE  SerialInv'
<1> USE DEF TypeInv, TypeOK, HasJob
<1> DEFINE j == req[r].job
<1>0. req[r] \in Request /\ worker \in Worker
  OBVIOUS
<1>1. CASE SubmitCommit(r)
  <2> DEFINE new == [req[r].new EXCEPT !.born =
                       Cardinality({k \in Jobs : job[k].status # "absent"})]
  <2>1. /\ req[r].op = "submit" /\ req[r].pc = "begun" /\ j \in Jobs
        /\ req[r].new \in Row /\ job[j].status = "absent"
        /\ req[r].new.status = "queued" /\ req[r].new.attempts = 0
    BY <1>0, <1>1 DEF SubmitCommit, At, SerialInv, RequestFresh, FreshRequest, Request
  <2>2. new \in Row /\ new.status = "queued" /\ new.attempts = 0
    BY <2>1, BornType DEF Row
  <2>3. worker.job = j => worker.pc = "idle"
    BY <2>1 DEF SerialInv, Held
  <2> HIDE DEF new
  <2>4. job' = [job EXCEPT ![j] = new] /\ req' = [req EXCEPT ![r] = IdleRequest]
        /\ UNCHANGED <<worker, crashes, aging>>
    BY <1>1 DEF SubmitCommit, new
  <2>5. new.attempts <= MaxAttempts + crashes /\ new.attempts < MaxAttempts + crashes
    BY <2>2
  <2> QED
    BY <2>1, <2>2, <2>3, <2>4, <2>5, SerialRowWrite
<1>2. CASE Requeue(r)
  <2> DEFINE new == Merge(job[j], req[r].snap, req[r].new)
  <2>1. /\ j \in Jobs /\ job[j] \in Row /\ req[r].new \in Row
        /\ req[r].snap = job[j] /\ req[r].new = Requeued(job[j])
        /\ job[j].status \in {"done", "error", "unplaced"}
    BY <1>0, <1>2 DEF Requeue, At, SerialInv, RequestFresh, FreshRequest, Request
  <2>2. new \in Row /\ new.status = "queued" /\ new.attempts = 0
    <3>1. new = Merge(job[j], job[j], req[r].new)
      BY <2>1
    <3>2. /\ new \in Row /\ new.status = req[r].new.status
          /\ new.attempts = req[r].new.attempts
      <4>1. new \in Row
        BY <2>1, <3>1, MergeType
      <4> QED
        BY <2>1, <3>1, <4>1, MergeFresh
    <3> QED
      BY <2>1, <3>2 DEF Requeued, Row
  <2>3. worker.job = j => worker.pc = "idle"
    BY <2>1 DEF SerialInv, Held
  <2> HIDE DEF new
  <2>4. job' = [job EXCEPT ![j] = new] /\ req' = [req EXCEPT ![r] = IdleRequest]
        /\ UNCHANGED <<worker, crashes, aging>>
    BY <1>2 DEF Requeue, new
  <2>5. new.attempts <= MaxAttempts + crashes /\ new.attempts < MaxAttempts + crashes
    BY <2>2
  <2> QED
    BY <2>1, <2>2, <2>3, <2>4, <2>5, SerialRowWrite
<1>3. CASE PlaceFinish(r)
  <2>1. PICK t \in Txns : req' = [req EXCEPT ![r] = Filed(@, t)]
    BY <1>3 DEF PlaceFinish
  <2>2. /\ UNCHANGED <<job, worker, aging, crashes>>
        /\ req[r].op = "place"
    BY <1>3 DEF PlaceFinish, At
  <2>3. /\ req'[r].op = "place" /\ req'[r].job = j
        /\ req'[r].snap = req[r].snap
        /\ req'[r].new.txn = t
        /\ req'[r].new.status = req[r].new.status
        /\ req'[r].new.attempts = req[r].new.attempts
    BY <1>0, <2>1, <2>2 DEF Filed, Request, Row
  <2>4. \A q \in Requests : q = r
    BY DEF SerialRequests
  <2>5. RequestFresh'
    BY <2>2, <2>3, <2>4 DEF SerialInv, RequestFresh, FreshRequest, Exists
  <2>6. OneLock'
    BY <2>2, <2>3, <2>4 DEF OneLock, RequestLocks
  <2> QED
    BY <2>2, <2>5, <2>6 DEF SerialInv, Held, WorkerFresh, Verdict, AgingExists,
       FinishedNamed, UnplacedHasNoRow, AttemptsBounded, Exists
<1>4. CASE PlaceCommit(r)
  <2> DEFINE new == Merge(job[j], req[r].snap, req[r].new)
  <2>1. /\ j \in Jobs /\ job[j] \in Row /\ req[r].new \in Row
        /\ req[r].snap = job[j]
        /\ job[j].status = "unplaced"
        /\ req[r].new.status \in {"done", "error"}
        /\ req[r].new.attempts = job[j].attempts
        /\ req[r].new.txn # None
    BY <1>0, <1>4 DEF PlaceCommit, At, SerialInv, RequestFresh, FreshRequest, Request
  <2>2. /\ new \in Row /\ new.status \in {"done", "error"} /\ new.txn # None
        /\ new.attempts = job[j].attempts
    <3>1. new = Merge(job[j], job[j], req[r].new)
      BY <2>1
    <3>2. new \in Row
      BY <2>1, <3>1, MergeType
    <3> QED
      BY <2>1, <3>1, <3>2, MergeFresh
  <2>3. worker.job = j => worker.pc = "idle"
    BY <2>1 DEF SerialInv, Held
  <2>4. new.attempts <= MaxAttempts + crashes
    BY <2>1, <2>2 DEF SerialInv, AttemptsBounded
  <2> HIDE DEF new
  <2>5. job' = [job EXCEPT ![j] = new] /\ req' = [req EXCEPT ![r] = IdleRequest]
        /\ UNCHANGED <<worker, crashes, aging>>
    BY <1>4 DEF PlaceCommit, new
  <2> QED
    BY <2>1, <2>2, <2>3, <2>4, <2>5, SerialRowWrite
<1>5. CASE DeleteFlush(r)
  <2>1. /\ UNCHANGED <<job, worker, aging, crashes>>
        /\ req[r].op = "delete" /\ ~WorkerLocks(j)
        /\ req' = [req EXCEPT ![r].pc = "flushed"]
    BY <1>5 DEF DeleteFlush, At
  <2>2. req'[r].op = "delete" /\ req'[r].job = j
    BY <1>0, <2>1 DEF Request
  <2>3. \A q \in Requests : q = r
    BY DEF SerialRequests
  <2>4. RequestFresh'
    BY <2>1, <2>2, <2>3 DEF SerialInv, RequestFresh, FreshRequest
  <2>5. OneLock'
    BY <2>1, <2>2, <2>3 DEF OneLock, RequestLocks, WorkerLocks
  <2> QED
    BY <2>1, <2>4, <2>5 DEF SerialInv, Held, WorkerFresh, Verdict, AgingExists,
       FinishedNamed, UnplacedHasNoRow, AttemptsBounded, Exists
<1>6. CASE DeleteCommit(r)
  <2> DEFINE new == [job[j] EXCEPT !.status = "deleted"]
  <2>1. /\ j \in Jobs /\ job[j] \in Row
        /\ req[r].op = "delete" /\ req[r].pc = "flushed"
    BY <1>0, <1>6 DEF DeleteCommit, At, SerialInv, RequestFresh, FreshRequest
  <2>2. /\ new \in Row /\ new.status = "deleted"
        /\ new.attempts = job[j].attempts
    BY <2>1 DEF Row
  <2>3. worker.job = j => worker.pc \notin {"placed", "recorded"}
    BY <2>1 DEF SerialInv, OneLock, RequestLocks, WorkerLocks
  <2>4. new.attempts <= MaxAttempts + crashes
    BY <2>1, <2>2 DEF SerialInv, AttemptsBounded
  <2> HIDE DEF new
  <2>5. job' = [job EXCEPT ![j] = new] /\ req' = [req EXCEPT ![r] = IdleRequest]
        /\ UNCHANGED <<worker, crashes, aging>>
    BY <1>6 DEF DeleteCommit, new
  <2> QED
    BY <2>1, <2>2, <2>3, <2>4, <2>5, SerialRowWrite
<1>7. CASE Abort(r)
  <2>1. /\ UNCHANGED <<job, worker, aging, crashes>>
        /\ req' = [req EXCEPT ![r] = IdleRequest]
    BY <1>7 DEF Abort
  <2>2. \A q \in Requests : req'[q] = IdleRequest
    BY <2>1 DEF SerialRequests
  <2>3. RequestFresh' /\ OneLock'
    BY <2>2 DEF RequestFresh, FreshRequest, OneLock, RequestLocks, IdleRequest
  <2> QED
    BY <2>1, <2>3 DEF SerialInv, Held, WorkerFresh, Verdict, AgingExists,
       FinishedNamed, UnplacedHasNoRow, AttemptsBounded, Exists
<1> QED
  BY <1>1, <1>2, <1>3, <1>4, <1>5, <1>6, <1>7 DEF RequestNext

(* Time, the nightly passes and a crash.                                    *)
LEMMA SerialRest ==
  ASSUME TypeInv, SerialRequests, SerialInv,
         (\E j \in Jobs : BackoffEnds(j)) \/ NightlyNext \/ CrashRestart
  PROVE  SerialInv'
<1> USE DEF TypeInv, TypeOK, HasJob
<1>1. ASSUME NEW j \in Jobs, BackoffEnds(j) PROVE SerialInv'
  <2>1. /\ job[j].status = "queued" /\ job[j] \in Row
        /\ UNCHANGED <<worker, req, aging, crashes>>
        /\ job'[j] = [job[j] EXCEPT !.due = TRUE]
        /\ \A k \in Jobs : k # j => job'[k] = job[k]
    BY <1>1 DEF BackoffEnds
  <2>2. \A k \in Jobs : /\ job'[k].status = job[k].status
                        /\ job'[k].txn = job[k].txn
                        /\ job'[k].attempts = job[k].attempts
    BY <2>1 DEF Row
  <2>3. Held' /\ WorkerFresh' /\ Verdict'
    BY <2>1, <2>2 DEF SerialInv, Held, WorkerFresh, Verdict, Exists
  <2>4. RequestFresh'
    BY <2>1, <2>2 DEF SerialInv, RequestFresh, FreshRequest, Exists
  <2>5. OneLock' /\ AgingExists' /\ FinishedNamed' /\ UnplacedHasNoRow'
        /\ AttemptsBounded'
    BY <2>1, <2>2 DEF SerialInv, OneLock, AgingExists, FinishedNamed,
       UnplacedHasNoRow, AttemptsBounded, WorkerLocks, RequestLocks
  <2> QED
    BY <2>3, <2>4, <2>5 DEF SerialInv
<1>2. ASSUME NEW old \in SUBSET Jobs, Expire(old), aging' \subseteq aging,
             \A j \in old : job[j].status # "absent"
      PROVE  SerialInv'
  <2>1. /\ UNCHANGED <<worker, req, crashes>>
        /\ \A j \in old : ~WorkerLocks(j)
        /\ \A j \in Jobs \ old : job'[j] = job[j]
        /\ \A j \in old : /\ job'[j].status = "deleted"
                           /\ job'[j].attempts = job[j].attempts
    BY <1>2 DEF Expire, Row
  <2>2. Held' /\ WorkerFresh' /\ Verdict'
    BY <2>1 DEF SerialInv, Held, WorkerFresh, Verdict, Exists, Statuses, WorkerLocks
  <2>3. RequestFresh'
    BY <1>2, <2>1 DEF SerialInv, RequestFresh, FreshRequest, Exists, Statuses
  <2>4. OneLock'
    BY <2>1 DEF SerialInv, OneLock, WorkerLocks, RequestLocks
  <2>5. AgingExists' /\ FinishedNamed' /\ UnplacedHasNoRow' /\ AttemptsBounded'
    BY <1>2, <2>1 DEF SerialInv, AgingExists, FinishedNamed, UnplacedHasNoRow,
       AttemptsBounded
  <2> QED
    BY <2>2, <2>3, <2>4, <2>5 DEF SerialInv
<1>3. CASE RetentionPass
  <2>1. PICK old \in SUBSET {j \in Jobs : Expirable(j)} : Expire(old)
    BY <1>3 DEF RetentionPass
  <2>2. aging' = aging
    BY <1>3 DEF RetentionPass
  <2>3. old \in SUBSET Jobs /\ \A j \in old : job[j].status # "absent"
    BY DEF Expirable
  <2> QED
    BY <1>2, <2>1, <2>2, <2>3
<1>4. CASE RetentionSelect
  <2>1. /\ UNCHANGED <<job, worker, req, crashes>>
        /\ \A j \in aging' : job[j].status # "absent"
    BY <1>4 DEF RetentionSelect, Expirable
  <2>2. AgingExists'
    BY <2>1 DEF AgingExists
  <2> QED
    BY <2>1, <2>2 DEF SerialInv, Held, WorkerFresh, Verdict, RequestFresh, FreshRequest,
   OneLock,
       FinishedNamed, UnplacedHasNoRow, AttemptsBounded, Exists, WorkerLocks,
       RequestLocks
<1>5. CASE RetentionDelete
  <2>1. aging \in SUBSET Jobs /\ Expire(aging) /\ aging' \subseteq aging
    BY <1>5 DEF RetentionDelete
  <2>2. \A j \in aging : job[j].status # "absent"
    BY DEF SerialInv, AgingExists
  <2> QED
    BY <1>2, <2>1, <2>2
<1>6. CASE StagingSweep \/ FileSweep
  BY <1>6, SerialQuiet DEF StagingSweep, FileSweep
<1>7. CASE CrashRestart
  <2>1. /\ crashes' = crashes + 1 /\ crashes \in Nat
        /\ worker' = IdleWorker /\ aging' = {}
        /\ req' = [q \in Requests |-> IdleRequest]
    BY <1>7 DEF CrashRestart
  <2>2. \A j \in Jobs : /\ job[j].status = "processing" => job'[j].status = "queued"
                        /\ job[j].status # "processing" => job'[j].status = job[j].status
                        /\ job'[j].txn = job[j].txn
                        /\ job'[j].attempts = job[j].attempts
    BY <1>7 DEF CrashRestart, Recovered, Row
  <2>3. Held' /\ WorkerFresh' /\ Verdict' /\ RequestFresh' /\ OneLock' /\ AgingExists'
    BY <2>1 DEF Held, WorkerFresh, Verdict, RequestFresh, FreshRequest,
   OneLock,
   AgingExists,
       IdleWorker, IdleRequest, WorkerLocks, RequestLocks
  <2>4. FinishedNamed' /\ UnplacedHasNoRow'
    BY <2>2 DEF SerialInv, FinishedNamed, UnplacedHasNoRow
  <2>5. AttemptsBounded'
    <3>1. \A j \in Jobs : job[j].attempts \in Nat
      BY DEF Row
    <3> QED
      BY <2>1, <2>2, <3>1 DEF SerialInv, AttemptsBounded
  <2> QED
    BY <2>3, <2>4, <2>5 DEF SerialInv
<1> QED
  BY <1>1, <1>3, <1>4, <1>5, <1>6, <1>7 DEF NightlyNext

(* Every step preserves the invariant.                                      *)
LEMMA SerialStep ==
  ASSUME SerialRequests, TypeInv, TypeInv', SerialInv, [Next]_vars
  PROVE  SerialInv'
<1>1. CASE WorkerNext
  BY <1>1, SerialWorkerReads, SerialWorkerWrites DEF WorkerNext
<1>2. CASE \E r \in Requests : RequestNext(r)
  BY <1>2, SerialRequest
<1>3. CASE PeopleNext
  BY <1>3, SerialPeople
<1>4. CASE (\E j \in Jobs : BackoffEnds(j)) \/ NightlyNext \/ CrashRestart
  BY <1>4, SerialRest
<1>5. CASE UNCHANGED vars
  BY <1>5, SerialQuiet DEF vars
<1> QED
  BY <1>1, <1>2, <1>3, <1>4, <1>5 DEF Next

(* With one request at a time, whatever the worker, the sweeps, the crashes *)
(* and the failed commits do, the invariant holds throughout.               *)
LEMMA SerialCorrect ==
  ASSUME SerialRequests PROVE Spec => []SerialInv
<1>1. Init => SerialInv
  BY SerialInit
<1>2. TypeInv /\ TypeInv' /\ SerialInv /\ [Next]_vars => SerialInv'
  BY SerialStep
<1> QED
  BY <1>1, <1>2, TypeInvariant, PTL DEF Spec

(* A job that says it is finished has its transaction, whichever of _place, *)
(* record_job_failure, the stub and place_receipt finished it, through      *)
(* crashes, failed commits, retries and deletions. The stub of a failed     *)
(* read must be made for it: its failure is swallowed.                      *)
THEOREM FinishedCorrect ==
  ASSUME SerialRequests, "stub" \notin Windows PROVE Spec => []FinishedHasRow
<1>1. SerialInv => FinishedHasRow
  BY DEF SerialInv, FinishedNamed, FinishedHasRow
<1> QED
  BY <1>1, SerialCorrect, PTL

(* An entry that waits for an account has no transaction: place_receipt     *)
(* never files a second one over the first.                                 *)
THEOREM UnplacedCorrect ==
  ASSUME SerialRequests PROVE Spec => []UnplacedHasNoRow
<1>1. SerialInv => UnplacedHasNoRow
  BY DEF SerialInv
<1> QED
  BY <1>1, SerialCorrect, PTL

(* Between two requeues by a person a job is claimed at most max_attempts   *)
(* times, plus once for each crash that interrupted a read, though          *)
(* claim_next itself checks nothing.                                        *)
THEOREM AttemptsCorrect ==
  ASSUME SerialRequests PROVE Spec => []AttemptsBounded
<1>1. SerialInv => AttemptsBounded
  BY DEF SerialInv
<1> QED
  BY <1>1, SerialCorrect, PTL

(***************************************************************************)
(* Attachment rows and their files, with any number of requests in flight. *)
(* A file is written before its row commits, so the invariant must cover   *)
(* the uploads between the two, which the file sweep spares only because   *)
(* they are younger than ORPHAN_MIN_AGE.                                   *)
(***************************************************************************)

(* What a session is about to commit is already on disk.                    *)
UploadsOnDisk ==
  /\ worker.pc \in {"placed", "recorded"} => Stored(worker.job, worker) \subseteq files
  /\ \A r \in Requests :
       At(r, "place", "flushed") => Stored(req[r].job, req[r]) \subseteq files

FileInv == AttachmentHasFile /\ UploadsOnDisk

(* A pending upload is one the file sweep sees in flight.                   *)
LEMMA StoredInFlight ==
  ASSUME NEW j, NEW w, NEW f \in Stored(j, w), w.job = j
  PROVE  f = <<j, w.new.att>> /\ Uploading(j, w)
BY DEF Stored, Uploading

(* A step that only adds files, rows no attachment, and leaves the sessions.*)
LEMMA FileQuiet ==
  ASSUME FileInv, UNCHANGED <<att, worker, req>>, files \subseteq files'
  PROVE  FileInv'
BY DEF FileInv, AttachmentHasFile, UploadsOnDisk, At, Stored

LEMMA FileWorker ==
  ASSUME TypeInv, FileInv, WorkerNext
  PROVE  FileInv'
<1> USE DEF TypeInv, TypeOK, HasJob
<1>0. worker \in Worker
  OBVIOUS
<1>1. CASE worker'.pc \notin {"placed", "recorded"} /\ UNCHANGED <<files, req>>
           /\ (att' = att \/ WorkerCommit)
  BY <1>1 DEF FileInv, AttachmentHasFile, UploadsOnDisk, WorkerCommit, At, Stored
<1>2. CASE (\E j \in Jobs : Claim(j)) \/ Load \/ ReadFails \/ PlaceLost
           \/ WorkerCommit \/ CommitFails \/ RecordNothing \/ RecordLost
  <2>1. /\ worker'.pc \notin {"placed", "recorded"}
        /\ UNCHANGED <<files, req>>
        /\ att' = att \/ WorkerCommit
    <3>1. CASE Load
      <4>1. CASE ~Exists(worker.job)
        BY <3>1, <4>1 DEF Load, IdleWorker
      <4>2. CASE Exists(worker.job)
        <5>1. PICK pc \in {"failed", "reading"} :
                worker' = [worker EXCEPT !.pc = pc, !.snap = job[worker.job],
                                         !.new = job[worker.job]]
          BY <3>1, <4>2 DEF Load
        <5> QED
          BY <1>0, <3>1, <5>1 DEF Load, Worker
      <4> QED
        BY <4>1, <4>2
    <3>2. CASE ReadFails
      BY <1>0, <3>2 DEF ReadFails, Worker
    <3>3. CASE PlaceLost
      BY <1>0, <3>3 DEF PlaceLost, Worker
    <3>4. CASE CommitFails
      <4>1. worker'.pc = "failed"
        BY <1>0, <3>4 DEF CommitFails, Worker
      <4> QED
        BY <3>4, <4>1 DEF CommitFails
    <3>5. ASSUME NEW j \in Jobs, Claim(j)
          PROVE  worker'.pc = "claimed" /\ UNCHANGED <<files, req, att>>
      BY <3>5 DEF Claim, IdleWorker
    <3>6. CASE WorkerCommit
      BY <3>6 DEF WorkerCommit, IdleWorker
    <3>7. CASE RecordNothing \/ RecordLost
      BY <3>7 DEF RecordNothing, RecordLost, IdleWorker
    <3> QED
      BY <1>2, <3>1, <3>2, <3>3, <3>4, <3>5, <3>6, <3>7
  <2> QED
    BY <1>1, <2>1
<1>3. ASSUME UNCHANGED <<att, req>>, files \subseteq files',
             Stored(worker'.job, worker') \subseteq files'
      PROVE  FileInv'
  BY <1>3 DEF FileInv, AttachmentHasFile, UploadsOnDisk, At, Stored
<1>4. CASE Place
  <2> DEFINE j == worker.job
             waits == [Started EXCEPT !.status = "unplaced", !.err = FALSE]
  <2>1. j \in Jobs /\ worker.pc = "reading" /\ UNCHANGED <<att, req>>
    BY <1>4 DEF Place
  <2>2. ASSUME NEW t, PlaceOn(j, t) PROVE FileInv'
    <3>1. files' = files \cup Stored(j, worker') /\ worker'.job = j
      BY <1>0, <2>2 DEF PlaceOn, Worker
    <3> QED
      BY <1>3, <2>1, <3>1
  <2>3. ASSUME worker' = [worker EXCEPT !.pc = "placed", !.new = waits],
               Started.txn = None, UNCHANGED files
        PROVE  FileInv'
    <3>1. worker.snap \in Row
      BY <1>0 DEF Worker
    <3>2. Started.att = None
      BY <2>3, <3>1 DEF Started, Live, Row
    <3>3. Started \in Row
      BY <3>1 DEF Started, Row
    <3>4. worker'.new.att = None
      BY <1>0, <2>3, <3>2, <3>3 DEF Worker, Row
    <3> QED
      BY <1>3, <2>1, <2>3, <3>4 DEF Stored
  <2>4. \/ \E t : PlaceOn(j, t)
        \/ /\ worker' = [worker EXCEPT !.pc = "placed", !.new = waits]
           /\ Started.txn = None /\ UNCHANGED files
    BY <1>4 DEF Place
  <2> QED
    BY <2>2, <2>3, <2>4
<1>5. CASE RecordFailure
  <2> DEFINE j == worker.job
             Ends(new) == worker' = [worker EXCEPT !.pc = "recorded",
                            !.snap = job[j], !.new = [new EXCEPT !.err = TRUE]]
  <2>1. j \in Jobs /\ worker.pc = "failed" /\ UNCHANGED <<att, req>> /\ job[j] \in Row
    BY <1>5 DEF RecordFailure
  <2>2. ASSUME NEW new \in Row, Ends(new), new.att = job[j].att, UNCHANGED files
        PROVE  FileInv'
    <3>1. worker'.new.att = worker'.snap.att
      BY <1>0, <2>1, <2>2 DEF Worker, Row
    <3> QED
      BY <1>3, <2>1, <2>2, <3>1 DEF Stored
  <2>3. ASSUME NEW new, Ends(new), files' = files \cup Stored(j, worker')
        PROVE  FileInv'
    <3>1. worker'.job = j
      BY <1>0, <2>3 DEF Worker
    <3> QED
      BY <1>3, <2>1, <2>3, <3>1
  <2>4. \/ \E new \in Row : Ends(new) /\ new.att = job[j].att /\ UNCHANGED files
        \/ \E new : Ends(new) /\ files' = files \cup Stored(j, worker')
    <3>1. /\ [job[j] EXCEPT !.status = "queued", !.due = FALSE] \in Row
          /\ [job[j] EXCEPT !.status = "queued", !.due = FALSE].att = job[j].att
          /\ [job[j] EXCEPT !.status = "error"] \in Row
          /\ [job[j] EXCEPT !.status = "error"].att = job[j].att
          /\ [job[j] EXCEPT !.status = "unplaced"] \in Row
          /\ [job[j] EXCEPT !.status = "unplaced"].att = job[j].att
          /\ \A t \in Txns :
               /\ [job[j] EXCEPT !.status = "error", !.txn = t] \in Row
               /\ [job[j] EXCEPT !.status = "error", !.txn = t].att = job[j].att
      BY <2>1 DEF Row, Statuses
    <3>2. \/ Ends([job[j] EXCEPT !.status = "queued", !.due = FALSE]) /\ UNCHANGED files
          \/ Ends([job[j] EXCEPT !.status = "error"]) /\ UNCHANGED files
          \/ Ends([job[j] EXCEPT !.status = "unplaced"]) /\ UNCHANGED files
          \/ \E t \in Txns : /\ Ends([job[j] EXCEPT !.status = "error", !.txn = t])
                             /\ UNCHANGED files
          \/ \E new : Ends(new) /\ files' = files \cup Stored(j, worker')
      BY <1>5 DEF RecordFailure
    <3> QED
      BY <3>1, <3>2
  <2> QED
    BY <2>2, <2>3, <2>4
<1> QED
  BY <1>2, <1>4, <1>5 DEF WorkerNext

LEMMA FileRequest ==
  ASSUME TypeInv, FileInv, NEW r \in Requests, RequestNext(r)
  PROVE  FileInv'
<1> USE DEF TypeInv, TypeOK, HasJob
<1>0. req[r] \in Request
  OBVIOUS
<1>1. ASSUME UNCHANGED <<files, worker>>, NEW q, req' = [req EXCEPT ![r] = q],
             q.op # "place",
             att' = att \/ (At(r, "place", "flushed")
                              /\ att' = att \cup Stored(req[r].job, req[r]))
      PROVE  FileInv'
  <2>1. \A p \in Requests : p # r => req'[p] = req[p]
    BY <1>1
  <2>2. req'[r].op # "place"
    BY <1>1
  <2> QED
    BY <1>1, <2>1, <2>2 DEF FileInv, AttachmentHasFile, UploadsOnDisk, At, Stored
<1>2. CASE PlaceFinish(r)
  <2>1. PICK t \in Txns : req' = [req EXCEPT ![r] = Filed(@, t)]
    BY <1>2 DEF PlaceFinish
  <2>2. /\ files' = files \cup Stored(req[r].job, req'[r])
        /\ UNCHANGED <<att, worker>>
    BY <1>2 DEF PlaceFinish
  <2>3. req'[r].job = req[r].job /\ \A p \in Requests : p # r => req'[p] = req[p]
    BY <1>0, <2>1 DEF Filed, Request
  <2> QED
    BY <2>2, <2>3 DEF FileInv, AttachmentHasFile, UploadsOnDisk, At, Stored
<1>3. CASE PlaceCommit(r) \/ SubmitCommit(r) \/ Requeue(r) \/ DeleteCommit(r) \/ Abort(r)
  <2>1. /\ UNCHANGED <<files, worker>>
        /\ req' = [req EXCEPT ![r] = IdleRequest]
        /\ \/ att' = att
           \/ At(r, "place", "flushed") /\ att' = att \cup Stored(req[r].job, req[r])
    BY <1>3 DEF PlaceCommit, SubmitCommit, Requeue, DeleteCommit, Abort
  <2>2. IdleRequest.op # "place"
    BY DEF IdleRequest
  <2> QED
    BY <1>1, <2>1, <2>2
<1>4. CASE DeleteFlush(r)
  <2>1. /\ UNCHANGED <<files, worker, att>>
        /\ req' = [req EXCEPT ![r] = [req[r] EXCEPT !.pc = "flushed"]]
        /\ [req[r] EXCEPT !.pc = "flushed"].op # "place"
    BY <1>0, <1>4 DEF DeleteFlush, At, Request
  <2> QED
    BY <1>1, <2>1
<1> QED
  BY <1>2, <1>3, <1>4 DEF RequestNext

LEMMA FileRest ==
  ASSUME TypeInv, FileInv,
         \/ PeopleNext \/ (\E j \in Jobs : BackoffEnds(j)) \/ NightlyNext
         \/ CrashRestart
  PROVE  FileInv'
<1> USE DEF TypeInv, TypeOK, HasJob
<1>1. CASE PeopleNext
  <2>1. /\ UNCHANGED <<files, worker, att>>
        /\ \/ req' = req
           \/ \E r \in Requests : \E op, j, new : Begin(r, op, j, new)
    BY <1>1 DEF PeopleNext, Submit, Retry, Reprocess, PlaceRequest, Delete,
       Approve, DeleteTxn, RestoreTxn
  <2>2. CASE req' = req
    BY <2>1, <2>2, FileQuiet
  <2>3. ASSUME NEW r \in Requests, NEW op, NEW j, NEW new, Begin(r, op, j, new)
        PROVE  FileInv'
    <3>1. req'[r].pc = "begun" /\ \A p \in Requests : p # r => req'[p] = req[p]
      BY <2>3 DEF Begin
    <3> QED
      BY <2>1, <3>1 DEF FileInv, AttachmentHasFile, UploadsOnDisk, At, Stored
  <2> QED
    BY <2>1, <2>2, <2>3
<1>2. CASE (\E j \in Jobs : BackoffEnds(j)) \/ RetentionPass \/ RetentionSelect
           \/ RetentionDelete \/ StagingSweep
  BY <1>2, FileQuiet DEF BackoffEnds, RetentionPass, RetentionSelect,
     RetentionDelete, Expire, StagingSweep
<1>3. CASE FileSweep
  <2>1. /\ UNCHANGED <<att, worker, req>>
        /\ files' = {f \in files : f \in att \/ InFlight(f[1], f[2])}
    BY <1>3 DEF FileSweep
  <2>2. AttachmentHasFile'
    BY <2>1 DEF FileInv, AttachmentHasFile
  <2>3. ASSUME worker.pc \in {"placed", "recorded"}, NEW f \in Stored(worker.job, worker)
        PROVE  f \in files'
    <3>1. f \in files
      BY <2>3 DEF FileInv, UploadsOnDisk
    <3>2. f = <<worker.job, worker.new.att>> /\ Uploading(worker.job, worker)
      BY <2>3, StoredInFlight
    <3>3. InFlight(f[1], f[2])
      BY <3>2 DEF InFlight
    <3> QED
      BY <2>1, <3>1, <3>3
  <2>4. ASSUME NEW r \in Requests, At(r, "place", "flushed"),
               NEW f \in Stored(req[r].job, req[r])
        PROVE  f \in files'
    <3>1. f \in files
      BY <2>4 DEF FileInv, UploadsOnDisk
    <3>2. f = <<req[r].job, req[r].new.att>> /\ Uploading(req[r].job, req[r])
      BY <2>4, StoredInFlight
    <3>3. InFlight(f[1], f[2])
      BY <3>2 DEF InFlight
    <3> QED
      BY <2>1, <3>1, <3>3
  <2>5. UploadsOnDisk'
    <3>1. worker.pc \in {"placed", "recorded"} => Stored(worker.job, worker) \subseteq files'
      BY <2>3
    <3>2. \A r \in Requests :
            At(r, "place", "flushed") => Stored(req[r].job, req[r]) \subseteq files'
      BY <2>4
    <3> QED
      BY <2>1, <3>1, <3>2 DEF UploadsOnDisk, At, Stored
  <2> QED
    BY <2>2, <2>5 DEF FileInv
<1>4. CASE CrashRestart
  <2>1. /\ UNCHANGED <<att, files>> /\ worker'.pc = "idle"
        /\ \A r \in Requests : req'[r].op = "none"
    BY <1>4 DEF CrashRestart, IdleWorker, IdleRequest
  <2> QED
    BY <2>1 DEF FileInv, AttachmentHasFile, UploadsOnDisk, At
<1> QED
  BY <1>1, <1>2, <1>3, <1>4 DEF NightlyNext

(* What is committed and what is about to be committed is on disk.          *)
LEMMA FileCorrect == Spec => []FileInv
<1>1. Init => FileInv
  BY DEF Init, FileInv, AttachmentHasFile, UploadsOnDisk, IdleWorker, IdleRequest, At
<1>2. TypeInv /\ FileInv /\ [Next]_vars => FileInv'
  <2> SUFFICES ASSUME TypeInv, FileInv, [Next]_vars PROVE FileInv'
    OBVIOUS
  <2>1. CASE UNCHANGED vars
    BY <2>1, FileQuiet DEF vars
  <2> QED
    BY <2>1, FileWorker, FileRequest, FileRest DEF Next
<1> QED
  BY <1>1, <1>2, TypeInvariant, PTL DEF Spec

(* Every attachment row has its file, with any number of requests, whatever *)
(* crashes, fails to commit or is swept: upload writes the file before the  *)
(* row, and the sweep's minimum age spares what is not committed yet.       *)
THEOREM AttachmentCorrect == Spec => []AttachmentHasFile
<1>1. FileInv => AttachmentHasFile
  BY DEF FileInv
<1> QED
  BY <1>1, FileCorrect, PTL
=============================================================================
