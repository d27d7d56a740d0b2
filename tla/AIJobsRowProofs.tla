-------------------------- MODULE AIJobsRowProofs ---------------------------
(***************************************************************************)
(* More theorems about AIJobs: a row is 'processing' only while the worker *)
(* holds it; a job's read makes one transaction; a job that is gone makes  *)
(* none; a finished receipt has its photo; and a photo is lost in one way  *)
(* only.                                                                   *)
(***************************************************************************)
EXTENDS AIJobsProofs

USE JobsAssumption, TxnsAssumption, NoneAssumption, BoundsAssumption

(***************************************************************************)
(* ProcessingIsHeld, for any number of requests. Only the claim makes a    *)
(* row 'processing'; what any session is about to write is something else, *)
(* and the worker leaves a row only when it has written it. A failure that *)
(* cannot be recorded (the window "record") is the exception.              *)
(***************************************************************************)

(* A session whose copy was settled cannot find the row unsettled later.    *)
SettledStays ==
  worker.pc \in {"reading", "placed", "recorded"} =>
    (job[worker.job].status = "processing" => worker.snap.status = "processing")

(* Nobody is about to write 'processing'.                                   *)
SettlesRows ==
  /\ worker.pc \in {"placed", "recorded"} => worker.new.status # "processing"
  /\ \A r \in Requests : req[r].op \in {"submit", "retry", "reprocess", "place"}
                           => req[r].new.status # "processing"

HoldInv == ProcessingIsHeld /\ SettledStays /\ SettlesRows

LEMMA HoldInit == Init => HoldInv
BY DEF Init, HoldInv, ProcessingIsHeld, SettledStays, SettlesRows, IdleWorker,
   IdleRequest, NoRow

(* A step that makes no row 'processing' and leaves the worker alone.       *)
LEMMA HoldQuiet ==
  ASSUME TypeInv, HoldInv, worker' = worker,
         \A j \in Jobs : job'[j].status = "processing" => job[j].status = "processing",
         \A r \in Requests : req'[r].op \in {"submit", "retry", "reprocess", "place"}
                               => req'[r].new.status # "processing"
  PROVE  HoldInv'
<1>1. ProcessingIsHeld' /\ SettlesRows'
  BY DEF HoldInv, ProcessingIsHeld, SettlesRows
<1>2. SettledStays'
  BY DEF HoldInv, SettledStays, TypeInv, HasJob
<1> QED
  BY <1>1, <1>2 DEF HoldInv

(* What a session writes is 'processing' only where the table was.          *)
LEMMA MergeSettles ==
  ASSUME NEW db \in Row, NEW old \in Row, NEW new \in Row, new.status # "processing",
         Merge(db, old, new).status = "processing"
  PROVE  db.status = "processing" /\ old.status # "processing"
BY DEF Merge, Changed

LEMMA HoldWorker ==
  ASSUME "record" \notin Windows, TypeInv, HoldInv, WorkerNext PROVE HoldInv'
<1> DEFINE j == worker.job
<1> USE DEF TypeInv, TypeOK, HasJob
<1>0. worker \in Worker
  OBVIOUS
<1>1. ASSUME NEW k \in Jobs, Claim(k) PROVE HoldInv'
  BY <1>1 DEF Claim, IdleWorker, HoldInv, ProcessingIsHeld, SettledStays, SettlesRows, Row
<1>2. CASE Load
  BY <1>0, <1>2 DEF Load, HoldInv, ProcessingIsHeld, SettledStays, SettlesRows,
     IdleWorker, Exists, Statuses, Worker
<1>3. CASE ReadFails \/ PlaceLost \/ CommitFails
  <2>1. /\ worker.pc # "idle" /\ worker'.pc = "failed" /\ worker'.job = j
        /\ UNCHANGED <<job, req>>
    BY <1>0, <1>3 DEF ReadFails, PlaceLost, CommitFails, Worker
  <2> QED
    BY <2>1 DEF HoldInv, ProcessingIsHeld, SettledStays, SettlesRows
<1>4. CASE Place
  <2>1. Started \in Row
    BY <1>0, <1>4 DEF Started, Live, Worker, Row
  <2>2. ASSUME NEW t, PlaceOn(j, t)
        PROVE  worker' = [worker EXCEPT !.pc = "placed", !.new = worker'.new]
               /\ worker'.new.status = "done"
    <3>1. Placed(Started, j, t).status = "done"
      BY <2>1 DEF Placed, Row
    <3> QED
      BY <1>0, <2>2, <3>1 DEF PlaceOn, Worker
  <2>3. ASSUME worker' = [worker EXCEPT !.pc = "placed",
                  !.new = [Started EXCEPT !.status = "unplaced", !.err = FALSE]]
        PROVE  worker' = [worker EXCEPT !.pc = "placed", !.new = worker'.new]
               /\ worker'.new.status = "unplaced"
    BY <1>0, <2>1, <2>3 DEF Worker, Row
  <2>4. worker' = [worker EXCEPT !.pc = "placed", !.new = worker'.new]
        /\ worker'.new.status # "processing"
    BY <1>4, <2>2, <2>3 DEF Place
  <2>5. /\ worker.pc = "reading" /\ worker'.pc = "placed" /\ worker'.job = j
        /\ worker'.snap = worker.snap /\ UNCHANGED <<job, req>>
    BY <1>0, <1>4, <2>4 DEF Place, Worker
  <2> QED
    BY <2>4, <2>5 DEF HoldInv, ProcessingIsHeld, SettledStays, SettlesRows
<1>5. CASE WorkerCommit
  <2>1. /\ j \in Jobs /\ job[j] \in Row /\ worker.snap \in Row /\ worker.new \in Row
        /\ worker.pc \in {"placed", "recorded"} /\ worker'.pc = "idle"
        /\ job'[j] = Merge(job[j], worker.snap, worker.new)
        /\ \A k \in Jobs : k # j => job'[k] = job[k]
        /\ req' = req
    BY <1>0, <1>5 DEF WorkerCommit, Worker, IdleWorker
  <2>2. job'[j].status # "processing"
    <3>1. worker.new.status # "processing"
      BY <2>1 DEF HoldInv, SettlesRows
    <3> QED
      BY <2>1, <3>1, MergeSettles DEF HoldInv, SettledStays
  <2> QED
    BY <2>1, <2>2 DEF HoldInv, ProcessingIsHeld, SettledStays, SettlesRows
<1>6. CASE RecordFailure
  <2> DEFINE Ends(new) == worker' = [worker EXCEPT !.pc = "recorded",
                            !.snap = job[j], !.new = [new EXCEPT !.err = TRUE]]
  <2>1. /\ worker.pc = "failed" /\ j \in Jobs /\ job[j] \in Row /\ UNCHANGED <<job, req>>
    BY <1>0, <1>6 DEF RecordFailure
  <2>2. ASSUME NEW new \in Row, Ends(new), new.status # "processing"
        PROVE  /\ worker'.pc = "recorded" /\ worker'.job = j /\ worker'.snap = job[j]
               /\ worker'.new.status # "processing"
    BY <1>0, <2>2 DEF Worker, Row
  <2>3. \E new \in Row : Ends(new) /\ new.status # "processing"
    <3>1. CASE Ends([job[j] EXCEPT !.status = "queued", !.due = FALSE])
      <4>1. /\ [job[j] EXCEPT !.status = "queued", !.due = FALSE] \in Row
            /\ [job[j] EXCEPT !.status = "queued", !.due = FALSE].status = "queued"
        BY <2>1 DEF Row, Statuses
      <4> QED
        BY <3>1, <4>1
    <3>2. ASSUME NEW s \in {"error", "unplaced"}, Ends([job[j] EXCEPT !.status = s])
          PROVE  \E new \in Row : Ends(new) /\ new.status # "processing"
      <4>1. /\ [job[j] EXCEPT !.status = s] \in Row
            /\ [job[j] EXCEPT !.status = s].status = s
        BY <2>1 DEF Row, Statuses
      <4> QED
        BY <3>2, <4>1
    <3>3. ASSUME NEW t \in Txns,
                 Ends([job[j] EXCEPT !.status = "error", !.txn = t,
                  !.att = IF job[j].att = None /\ StubPhoto(j) THEN t ELSE @])
          PROVE  \E new \in Row : Ends(new) /\ new.status # "processing"
      <4> DEFINE new == [job[j] EXCEPT !.status = "error", !.txn = t,
                  !.att = IF job[j].att = None /\ StubPhoto(j) THEN t ELSE @]
      <4>1. new \in Row /\ new.status = "error"
        BY <2>1 DEF Row, Statuses
      <4> QED
        BY <3>3, <4>1
    <3>4. ASSUME NEW t \in Txns, Ends([job[j] EXCEPT !.status = "error", !.txn = t])
          PROVE  \E new \in Row : Ends(new) /\ new.status # "processing"
      <4>1. /\ [job[j] EXCEPT !.status = "error", !.txn = t] \in Row
            /\ [job[j] EXCEPT !.status = "error", !.txn = t].status = "error"
        BY <2>1 DEF Row, Statuses
      <4> QED
        BY <3>4, <4>1
    <3> QED
      BY <1>6, <3>1, <3>2, <3>3, <3>4 DEF RecordFailure
  <2>4. /\ worker'.pc = "recorded" /\ worker'.job = j /\ worker'.snap = job[j]
        /\ worker'.new.status # "processing"
    BY <2>2, <2>3
  <2> QED
    BY <2>1, <2>4 DEF HoldInv, ProcessingIsHeld, SettledStays, SettlesRows
<1>7. CASE RecordNothing
  BY <1>7 DEF RecordNothing, HoldInv, ProcessingIsHeld, SettledStays, SettlesRows,
     IdleWorker, Exists, Statuses
<1>8. CASE RecordLost
  BY <1>8 DEF RecordLost
<1> QED
  BY <1>1, <1>2, <1>3, <1>4, <1>5, <1>6, <1>7, <1>8 DEF WorkerNext

LEMMA HoldRequest ==
  ASSUME TypeInv, HoldInv, NEW r \in Requests, RequestNext(r) PROVE HoldInv'
<1> DEFINE j == req[r].job
<1> USE DEF TypeInv, TypeOK, HasJob
<1>0. req[r] \in Request
  OBVIOUS
<1>1. ASSUME req' = [req EXCEPT ![r] = IdleRequest]
      PROVE  \A q \in Requests : req'[q].op \in {"submit", "retry", "reprocess", "place"}
                               => req'[q].new.status # "processing"
  BY <1>1 DEF HoldInv, SettlesRows, IdleRequest
<1>2. CASE SubmitCommit(r)
  <2>1. /\ req[r].op = "submit" /\ req[r].new \in Row /\ j \in Jobs
        /\ job'[j].status = req[r].new.status
        /\ \A k \in Jobs : k # j => job'[k] = job[k]
        /\ worker' = worker /\ req' = [req EXCEPT ![r] = IdleRequest]
    BY <1>0, <1>2 DEF SubmitCommit, At, Request, Row
  <2>2. \A k \in Jobs : job'[k].status = "processing" => job[k].status = "processing"
    BY <2>1 DEF HoldInv, SettlesRows
  <2> QED
    BY <1>1, <2>1, <2>2, HoldQuiet
<1>3. CASE Requeue(r) \/ PlaceCommit(r)
  <2>1. /\ req[r].op \in {"retry", "reprocess", "place"} /\ j \in Jobs
        /\ req[r].snap \in Row /\ req[r].new \in Row /\ job[j] \in Row
        /\ job' = [job EXCEPT ![j] = Merge(@, req[r].snap, req[r].new)]
        /\ worker' = worker /\ req' = [req EXCEPT ![r] = IdleRequest]
    BY <1>0, <1>3 DEF Requeue, PlaceCommit, At, Request
  <2>2. \A k \in Jobs : job'[k].status = "processing" => job[k].status = "processing"
    <3>1. req[r].new.status # "processing"
      BY <2>1 DEF HoldInv, SettlesRows
    <3>2. job'[j] = Merge(job[j], req[r].snap, req[r].new)
          /\ \A k \in Jobs : k # j => job'[k] = job[k]
      BY <2>1
    <3> QED
      BY <2>1, <3>1, <3>2, MergeSettles
  <2> QED
    BY <1>1, <2>1, <2>2, HoldQuiet
<1>4. CASE PlaceFinish(r)
  <2>1. PICK t \in Txns : req' = [req EXCEPT ![r] = Filed(@, t)]
    BY <1>4 DEF PlaceFinish
  <2>2. req[r].op = "place" /\ UNCHANGED <<job, worker>>
    BY <1>4 DEF PlaceFinish, At
  <2>3. req'[r].new.status = req[r].new.status
    BY <1>0, <2>1 DEF Filed, Request, Row
  <2>4. \A q \in Requests : req'[q].op \in {"submit", "retry", "reprocess", "place"}
                               => req'[q].new.status # "processing"
    BY <2>1, <2>2, <2>3 DEF HoldInv, SettlesRows
  <2> QED
    BY <2>2, <2>4, HoldQuiet
<1>5. CASE DeleteFlush(r)
  <2>1. /\ UNCHANGED <<job, worker>> /\ req' = [req EXCEPT ![r].pc = "flushed"]
        /\ \A q \in Requests : req'[q].op = req[q].op /\ req'[q].new = req[q].new
    BY <1>0, <1>5 DEF DeleteFlush, Request
  <2> QED
    BY <2>1, HoldQuiet DEF HoldInv, SettlesRows
<1>6. CASE DeleteCommit(r)
  <2>1. /\ \A k \in Jobs : job'[k].status = "processing" => job[k].status = "processing"
        /\ worker' = worker /\ req' = [req EXCEPT ![r] = IdleRequest]
    BY <1>6 DEF DeleteCommit, Row
  <2> QED
    BY <1>1, <2>1, HoldQuiet
<1>7. CASE Abort(r)
  <2>1. UNCHANGED <<job, worker>> /\ req' = [req EXCEPT ![r] = IdleRequest]
    BY <1>7 DEF Abort
  <2> QED
    BY <1>1, <2>1, HoldQuiet
<1> QED
  BY <1>2, <1>3, <1>4, <1>5, <1>6, <1>7 DEF RequestNext

LEMMA HoldPeople ==
  ASSUME TypeInv, HoldInv, PeopleNext PROVE HoldInv'
<1> USE DEF TypeInv, TypeOK, HasJob
<1>1. ASSUME NEW t \in Txns, Approve(t) \/ DeleteTxn(t) \/ RestoreTxn(t) PROVE HoldInv'
  <2>1. UNCHANGED <<job, worker, req>>
    BY <1>1 DEF Approve, DeleteTxn, RestoreTxn
  <2> QED
    BY <2>1, HoldQuiet DEF HoldInv, SettlesRows
<1>2. ASSUME NEW r \in Requests, NEW j \in Jobs, NEW op, NEW new,
             Begin(r, op, j, new), UNCHANGED <<job, worker>>,
             op = "delete" \/ new.status # "processing"
      PROVE  HoldInv'
  <2>1. \A q \in Requests : req'[q].op \in {"submit", "retry", "reprocess", "place"}
                              => req'[q].new.status # "processing"
    BY <1>2 DEF Begin, HoldInv, SettlesRows
  <2> QED
    BY <1>2, <2>1, HoldQuiet
<1>3. ASSUME NEW r \in Requests, NEW j \in Jobs, Submit(r, j) PROVE HoldInv'
  <2>1. \A acct, legible \in BOOLEAN :
          [NoRow EXCEPT !.status = "queued", !.due = TRUE,
             !.acct = acct, !.legible = legible].status = "queued"
    BY DEF NoRow
  <2>2. \E new : Begin(r, "submit", j, new) /\ new.status # "processing"
    BY <1>3, <2>1 DEF Submit
  <2>3. UNCHANGED <<job, worker>>
    BY <1>3 DEF Submit
  <2> QED
    BY <1>2, <2>2, <2>3
<1>4. ASSUME NEW r \in Requests, NEW j \in Jobs, Retry(r, j) \/ Reprocess(r, j)
      PROVE  HoldInv'
  <2>1. Requeued(job[j]).status = "queued"
    BY DEF Requeued, Row
  <2>2. \E op : Begin(r, op, j, Requeued(job[j])) /\ UNCHANGED <<job, worker>>
    BY <1>4 DEF Retry, Reprocess
  <2> QED
    BY <1>2, <2>1, <2>2
<1>5. ASSUME NEW r \in Requests, NEW j \in Jobs, PlaceRequest(r, j) PROVE HoldInv'
  <2> DEFINE new == [job[j] EXCEPT !.status = IF job[j].err THEN "error" ELSE "done"]
  <2>1. new.status # "processing"
    BY DEF Row
  <2>2. Begin(r, "place", j, new) /\ UNCHANGED <<job, worker>>
    BY <1>5 DEF PlaceRequest
  <2> HIDE DEF new
  <2> QED
    BY <1>2, <2>1, <2>2
<1>6. ASSUME NEW r \in Requests, NEW j \in Jobs, Delete(r, j) PROVE HoldInv'
  BY <1>2, <1>6 DEF Delete
<1> QED
  BY <1>1, <1>3, <1>4, <1>5, <1>6 DEF PeopleNext

LEMMA HoldRest ==
  ASSUME TypeInv, HoldInv,
         (\E j \in Jobs : BackoffEnds(j)) \/ NightlyNext \/ CrashRestart
  PROVE  HoldInv'
<1> USE DEF TypeInv, TypeOK, HasJob
<1>1. CASE (\E j \in Jobs : BackoffEnds(j)) \/ NightlyNext
  <2>1. /\ UNCHANGED <<worker, req>>
        /\ \A k \in Jobs : job'[k].status = "processing" => job[k].status = "processing"
    BY <1>1 DEF BackoffEnds, NightlyNext, RetentionPass, RetentionSelect,
       RetentionDelete, StagingSweep, FileSweep, Expire, Row
  <2> QED
    BY <2>1, HoldQuiet DEF HoldInv, SettlesRows
<1>2. CASE CrashRestart
  <2>1. /\ worker' = IdleWorker /\ req' = [q \in Requests |-> IdleRequest]
        /\ \A k \in Jobs : job'[k].status # "processing"
    BY <1>2 DEF CrashRestart, Recovered, Row
  <2> QED
    BY <2>1 DEF HoldInv, ProcessingIsHeld, SettledStays, SettlesRows, IdleWorker,
       IdleRequest
<1> QED
  BY <1>1, <1>2

(* A row is 'processing' only while the worker holds it, with any number of *)
(* requests beside it, through crashes and failed commits: retry,           *)
(* reprocess, place and delete, which refuse such a row, refuse it only for *)
(* as long as somebody works on it. record_job_failure must succeed for it. *)
THEOREM ProcessingCorrect ==
  ASSUME "record" \notin Windows PROVE Spec => []ProcessingIsHeld
<1>1. TypeInv /\ HoldInv /\ [Next]_vars => HoldInv'
  <2>1. CASE UNCHANGED vars
    BY <2>1 DEF vars, HoldInv, ProcessingIsHeld, SettledStays, SettlesRows
  <2> QED
    BY <2>1, HoldWorker, HoldRequest, HoldPeople, HoldRest DEF Next
<1>2. HoldInv => ProcessingIsHeld
  BY DEF HoldInv
<1> QED
  BY <1>1, <1>2, HoldInit, TypeInvariant, PTL DEF Spec

(***************************************************************************)
(* OneRowPerJob, with one request at a time. A job names the row its read  *)
(* made for as long as that row lives, so whoever makes a row for it first *)
(* finds the old one, or finds it deleted. The rows sessions are about to  *)
(* name are followed from their insertion to their commit.                 *)
(***************************************************************************)

(* A live row made for a job is the one the job names.                      *)
RowNamed ==
  \A j \in Jobs, t \in Txns :
    txn[t].state = "live" /\ txn[t].made = j => job[j].txn = t

(* A committed job names no row that is still undecided.                    *)
NamedSettled ==
  \A j \in Jobs :
    /\ job[j].txn # None => txn[job[j].txn].state \notin {"free", "pending"}
    /\ job[j].status = "absent" => job[j].txn = None

(* What a session is about to name exists, and if undecided is its own.     *)
OwnRow(w) ==
  w.new.txn # None => /\ txn[w.new.txn].state # "free"
                      /\ txn[w.new.txn].state = "pending" => txn[w.new.txn].made = w.job

NoLiveRow(j) == \A t \in Txns : txn[t].state = "live" => txn[t].made # j

WorkerRow ==
  worker.pc \in {"placed", "recorded"} =>
    /\ OwnRow(worker)
    /\ worker.new.txn = worker.snap.txn \/ NoLiveRow(worker.job)

RequestRow ==
  \A r \in Requests : /\ At(r, "place", "flushed") => OwnRow(req[r])
                      /\ req[r].op = "submit" => req[r].new.txn = None

RowInv == RowNamed /\ NamedSettled /\ WorkerRow /\ RequestRow

LEMMA RowInit == Init => RowInv
<1> SUFFICES ASSUME Init PROVE RowInv
  OBVIOUS
<1>1. RowNamed
  BY DEF Init, RowNamed
<1>2. NamedSettled
  BY DEF Init, NamedSettled, NoRow
<1>3. WorkerRow /\ RequestRow
  BY DEF Init, WorkerRow, RequestRow, IdleWorker, IdleRequest, At
<1> QED
  BY <1>1, <1>2, <1>3 DEF RowInv

(* Rows of the register that only leave the states that matter here.        *)
RowsFade ==
  \A t \in Txns : /\ txn'[t].made = txn[t].made
                  /\ txn'[t].state = "free" => txn[t].state = "free"
                  /\ txn'[t].state = "pending" => txn[t].state = "pending"
                  /\ txn'[t].state = "live" => txn[t].state = "live"

(* A rolled back or voided insert is such a step.                           *)
LEMMA VoidFades ==
  ASSUME TypeOK, NEW t, txn' = Settle(t, "void") PROVE RowsFade
BY DEF TypeOK, Settle, RowsFade, TxnRow

(* A step that names and makes no row.                                      *)
LEMMA RowQuiet ==
  ASSUME TypeInv, RowInv, RowsFade,
         \A j \in Jobs : /\ job'[j].txn = job[j].txn
                         /\ job'[j].status = "absent" => job[j].status = "absent",
         worker' = worker \/ worker'.pc \notin {"placed", "recorded"},
         \A r \in Requests :
           \/ req'[r] = req[r]
           \/ /\ ~(req'[r].op = "place" /\ req'[r].pc = "flushed")
              /\ req'[r].op = "submit" => req'[r].new.txn = None
  PROVE  RowInv'
<1> USE DEF TypeInv, TypeOK, HasJob
<1>0. \A k \in Jobs : job[k].txn \in Txns \cup {None}
  BY DEF Row
<1>1. RowNamed'
  <2>1. ASSUME NEW k \in Jobs, NEW u \in Txns, txn'[u].state = "live", txn'[u].made = k
        PROVE  job'[k].txn = u
    <3>1. txn[u].state = "live" /\ txn[u].made = k
      BY <2>1 DEF RowsFade
    <3> QED
      BY <3>1 DEF RowInv, RowNamed
  <2> QED
    BY <2>1 DEF RowNamed
<1>2. NamedSettled'
  <2>1. ASSUME NEW k \in Jobs
        PROVE  /\ job'[k].txn # None => txn'[job'[k].txn].state \notin {"free", "pending"}
               /\ job'[k].status = "absent" => job'[k].txn = None
    <3>1. /\ job[k].txn # None => txn[job[k].txn].state \notin {"free", "pending"}
          /\ job[k].status = "absent" => job[k].txn = None
      BY DEF RowInv, NamedSettled
    <3>2. job[k].txn # None => txn'[job[k].txn].state \notin {"free", "pending"}
      BY <1>0, <3>1 DEF RowsFade
    <3> QED
      BY <3>1, <3>2
  <2> QED
    BY <2>1 DEF NamedSettled
<1>3. WorkerRow'
  <2>1. SUFFICES ASSUME worker' = worker, worker.pc \in {"placed", "recorded"}
        PROVE  WorkerRow'
    BY DEF WorkerRow
  <2>2. worker.new.txn \in Txns \cup {None} /\ worker.job \in Jobs
    BY <2>1 DEF Worker, Row
  <2> QED
    BY <2>1, <2>2 DEF RowInv, WorkerRow, OwnRow, NoLiveRow, RowsFade
<1>4. RequestRow'
  <2>1. ASSUME NEW r \in Requests, req'[r] = req[r], At(r, "place", "flushed")
        PROVE  OwnRow(req[r])'
    <3>1. req[r].new.txn \in Txns \cup {None} /\ OwnRow(req[r])
      BY <2>1 DEF RowInv, RequestRow, Request, Row
    <3> QED
      BY <2>1, <3>1 DEF OwnRow, RowsFade
  <2> QED
    BY <2>1 DEF RowInv, RequestRow, At
<1> QED
  BY <1>1, <1>2, <1>3, <1>4 DEF RowInv

(* The worker decides on a row: one of the register, none, or a new one,    *)
(* and a new one only when no earlier read's row is live.                   *)
LEMMA RowWorkerMakes ==
  ASSUME TypeInv, TypeInv', RowInv, UNCHANGED <<job, req>>,
         NEW j \in Jobs, worker'.job = j, worker'.pc \in {"placed", "recorded"},
         worker'.new.txn # worker'.snap.txn => NoLiveRow(j),
         \/ /\ txn' = txn
            /\ worker'.new.txn # None =>
                 txn[worker'.new.txn].state \notin {"free", "pending"}
         \/ CreateIn(j, worker'.new.txn) /\ worker'.new.txn \in Txns
  PROVE  RowInv'
<1> USE DEF TypeInv, TypeOK, HasJob
<1> DEFINE n == worker'.new.txn
<1>1. CASE txn' = txn /\ (n # None => txn[n].state \notin {"free", "pending"})
  BY <1>1 DEF RowInv, RowNamed, NamedSettled, WorkerRow, RequestRow, OwnRow, NoLiveRow, At
<1>2. CASE CreateIn(j, n) /\ n \in Txns
  <2>1. /\ txn[n].state = "free" /\ txn'[n].state = "pending" /\ txn'[n].made = j
        /\ \A t \in Txns : t # n => txn'[t] = txn[t]
    BY <1>2 DEF CreateIn, NextId
  <2>2. RowNamed'
    <3>1. ASSUME NEW k \in Jobs, NEW u \in Txns, txn'[u].state = "live", txn'[u].made = k
          PROVE  job'[k].txn = u
      <4>1. txn'[u] = txn[u]
        BY <2>1, <3>1
      <4> QED
        BY <3>1, <4>1 DEF RowInv, RowNamed
    <3> QED
      BY <3>1 DEF RowNamed
  <2>3. NamedSettled'
    BY <2>1 DEF RowInv, NamedSettled, Row
  <2>4. WorkerRow'
    BY <1>2, <2>1 DEF WorkerRow, OwnRow, NoLiveRow
  <2>5. RequestRow'
    <3>1. ASSUME NEW r \in Requests, At(r, "place", "flushed") PROVE OwnRow(req[r])'
      <4>1. req[r].new.txn \in Txns \cup {None} /\ OwnRow(req[r])
        BY <3>1 DEF RowInv, RequestRow, Request, Row
      <4> QED
        BY <2>1, <4>1 DEF OwnRow
    <3> QED
      BY <3>1 DEF RowInv, RequestRow, At
  <2> QED
    BY <2>2, <2>3, <2>4, <2>5 DEF RowInv
<1> QED
  BY <1>1, <1>2

(* A session commits a job and the row it names.                            *)
LEMMA RowCommit ==
  ASSUME TypeInv, RowInv, NEW j \in Jobs, NEW t \in Txns \cup {None},
         job'[j].txn = t, job'[j].status # "absent",
         \A k \in Jobs : k # j => job'[k] = job[k],
         txn' = Settle(t, "live"),
         t # None => /\ txn[t].state # "free"
                     /\ txn[t].state = "pending" => txn[t].made = j,
         t = job[j].txn \/ NoLiveRow(j),
         \/ worker'.pc = "idle"
         \/ worker' = worker /\ (worker.pc \in {"placed", "recorded"} => worker.job # j),
         \A r \in Requests : req'[r] = req[r] \/ req'[r] = IdleRequest
  PROVE  RowInv'
<1> USE DEF TypeInv, TypeOK, HasJob
<1>1. /\ \A u \in Txns : txn'[u].made = txn[u].made
      /\ \A u \in Txns : u # t => txn'[u] = txn[u]
      /\ t # None => txn'[t].state \notin {"free", "pending"}
      /\ t # None /\ txn[t].state # "pending" => txn'[t] = txn[t]
  BY DEF Settle, TxnRow
<1>2. RowNamed'
  <2>1. ASSUME NEW k \in Jobs, NEW u \in Txns, txn'[u].state = "live", txn'[u].made = k
        PROVE  job'[k].txn = u
    <3>1. CASE u = t /\ txn[t].state = "pending"
      BY <1>1, <2>1, <3>1
    <3>2. CASE txn[u].state = "live" /\ k # j
      BY <1>1, <2>1, <3>2 DEF RowInv, RowNamed
    <3>3. CASE txn[u].state = "live" /\ k = j
      <4>1. job[j].txn = u
        BY <1>1, <2>1, <3>3 DEF RowInv, RowNamed
      <4>2. ~NoLiveRow(j)
        BY <1>1, <2>1, <3>3 DEF NoLiveRow
      <4> QED
        BY <3>3, <4>1, <4>2
    <3> QED
      BY <1>1, <2>1, <3>1, <3>2, <3>3
  <2> QED
    BY <2>1 DEF RowNamed
<1>3. NamedSettled'
  <2>1. ASSUME NEW k \in Jobs
        PROVE  /\ job'[k].txn # None => txn'[job'[k].txn].state \notin {"free", "pending"}
               /\ job'[k].status = "absent" => job'[k].txn = None
    <3>1. CASE k = j
      BY <1>1, <3>1
    <3>2. CASE k # j
      <4>1. job[k].txn \in Txns \cup {None} /\ job'[k] = job[k]
        BY <3>2 DEF Row
      <4>2. /\ job[k].txn # None => txn[job[k].txn].state \notin {"free", "pending"}
            /\ job[k].status = "absent" => job[k].txn = None
        BY DEF RowInv, NamedSettled
      <4>3. CASE job[k].txn = None
        BY <4>1, <4>3
      <4>4. CASE job[k].txn = t /\ t # None
        BY <1>1, <4>1, <4>2, <4>4
      <4>5. CASE job[k].txn # t /\ job[k].txn # None
        <5>1. txn'[job[k].txn] = txn[job[k].txn]
          BY <1>1, <4>1, <4>5
        <5> QED
          BY <4>1, <4>2, <4>5, <5>1
      <4> QED
        BY <4>3, <4>4, <4>5
    <3> QED
      BY <3>1, <3>2
  <2> QED
    BY <2>1 DEF NamedSettled
<1>4. WorkerRow'
  <2>1. SUFFICES ASSUME worker' = worker, worker.pc \in {"placed", "recorded"},
                        worker.job # j
        PROVE  WorkerRow'
    BY DEF WorkerRow
  <2>2. worker.new.txn \in Txns \cup {None} /\ worker.job \in Jobs
    BY <2>1 DEF Worker, Row
  <2>3. OwnRow(worker)'
    BY <1>1, <2>1, <2>2 DEF RowInv, WorkerRow, OwnRow
  <2>4. ASSUME NoLiveRow(worker.job) PROVE NoLiveRow(worker.job)'
    <3>1. ASSUME NEW u \in Txns, txn'[u].state = "live" PROVE txn'[u].made # worker.job
      <4>1. CASE u = t /\ txn[t].state = "pending"
        BY <1>1, <2>1, <3>1, <4>1
      <4>2. CASE txn'[u] = txn[u]
        BY <2>4, <3>1, <4>2 DEF NoLiveRow
      <4> QED
        BY <1>1, <4>1, <4>2
    <3> QED
      BY <2>1, <3>1 DEF NoLiveRow
  <2> QED
    BY <2>1, <2>3, <2>4 DEF RowInv, WorkerRow
<1>5. RequestRow'
  <2>1. ASSUME NEW r \in Requests, req'[r] = req[r], At(r, "place", "flushed")
        PROVE  OwnRow(req[r])'
    <3>1. req[r].new.txn \in Txns \cup {None} /\ OwnRow(req[r])
      BY <2>1 DEF RowInv, RequestRow, Request, Row
    <3> QED
      BY <1>1, <2>1, <3>1 DEF OwnRow
  <2> QED
    BY <2>1 DEF RowInv, RequestRow, At, IdleRequest
<1> QED
  BY <1>2, <1>3, <1>4, <1>5 DEF RowInv

LEMMA RowWorker ==
  ASSUME TypeInv, TypeInv', SerialInv, RowInv, WorkerNext PROVE RowInv'
<1> DEFINE j == worker.job
<1> USE DEF TypeInv, TypeOK, HasJob
<1>0. worker \in Worker /\ (txn' = txn => RowsFade)
  BY DEF RowsFade
<1>1. ASSUME NEW k \in Jobs, Claim(k) PROVE RowInv'
  <2>1. /\ txn' = txn /\ req' = req /\ worker'.pc = "claimed"
        /\ \A i \in Jobs : /\ job'[i].txn = job[i].txn
                           /\ job'[i].status = "absent" => job[i].status = "absent"
    BY <1>1 DEF Claim, IdleWorker, Row
  <2> QED
    BY <1>0, <2>1, RowQuiet
<1>2. CASE Load \/ ReadFails \/ PlaceLost \/ RecordNothing
  <2>1. UNCHANGED <<txn, req, job>>
    BY <1>2 DEF Load, ReadFails, PlaceLost, RecordNothing
  <2>2. worker'.pc \notin {"placed", "recorded"}
    <3>1. CASE Load
      BY <1>0, <3>1 DEF Load, IdleWorker, Worker
    <3>2. CASE ReadFails
      BY <1>0, <3>2 DEF ReadFails, Worker
    <3>3. CASE PlaceLost
      BY <1>0, <3>3 DEF PlaceLost, Worker
    <3>4. CASE RecordNothing
      BY <3>4 DEF RecordNothing, IdleWorker
    <3> QED
      BY <1>2, <3>1, <3>2, <3>3, <3>4
  <2> QED
    BY <1>0, <2>1, <2>2, RowQuiet
<1>3. CASE CommitFails \/ RecordLost
  <2>1. UNCHANGED <<req, job>> /\ worker'.pc \notin {"placed", "recorded"}
    <3>1. CASE CommitFails
      BY <1>0, <3>1 DEF CommitFails, Worker
    <3>2. CASE RecordLost
      BY <3>2 DEF RecordLost, IdleWorker
    <3> QED
      BY <1>3, <3>1, <3>2
  <2>2. RowsFade
    BY <1>3, VoidFades DEF CommitFails, RecordLost
  <2> QED
    BY <2>1, <2>2, RowQuiet
<1>4. CASE Place
  <2>0. /\ worker.pc = "reading" /\ j \in Jobs /\ worker.snap = job[j] /\ job[j] \in Row
        /\ UNCHANGED <<job, req>>
    BY <1>4 DEF Place, SerialInv, WorkerFresh
  <2>1. /\ Started \in Row
        /\ Started.txn # None => Started.txn = job[j].txn /\ Live(Started.txn)
        /\ Started.txn = None => ~Live(job[j].txn)
    <3>1. CASE Live(job[j].txn)
      BY <2>0, <3>1 DEF Started, Live
    <3>2. CASE ~Live(job[j].txn)
      BY <2>0, <3>2 DEF Started, Row
    <3> QED
      BY <3>1, <3>2
  <2>2. Started.txn = None => NoLiveRow(j)
    BY <2>0, <2>1 DEF RowInv, RowNamed, NoLiveRow, Live
  <2>3. ASSUME NEW t \in Txns, PlaceOn(j, t)
        PROVE  /\ worker'.pc = "placed" /\ worker'.job = j
               /\ worker'.snap = job[j] /\ worker'.new.txn = t
    <3>1. Placed(Started, j, t).txn = t
      BY <2>1 DEF Placed, Row
    <3> QED
      BY <1>0, <2>0, <2>3, <3>1 DEF PlaceOn, Worker
  <2>4. CASE Started.txn # None /\ PlaceOn(j, Started.txn) /\ UNCHANGED txn
    <3>1. Started.txn \in Txns /\ txn[Started.txn].state \notin {"free", "pending"}
      BY <2>1, <2>4 DEF Live
    <3> QED
      BY <2>0, <2>1, <2>3, <2>4, <3>1, RowWorkerMakes
  <2>5. ASSUME Started.txn = None, NEW t \in Txns, BankCandidate(t), PlaceOn(j, t),
               UNCHANGED txn
        PROVE  RowInv'
    BY <2>0, <2>2, <2>3, <2>5, RowWorkerMakes DEF BankCandidate, Live
  <2>6. ASSUME Started.txn = None, NEW t \in Txns, CreateIn(j, t), PlaceOn(j, t)
        PROVE  RowInv'
    BY <2>0, <2>2, <2>3, <2>6, RowWorkerMakes
  <2>7. CASE /\ Started.txn = None /\ UNCHANGED txn
             /\ worker' = [worker EXCEPT !.pc = "placed",
                  !.new = [Started EXCEPT !.status = "unplaced", !.err = FALSE]]
    <3> DEFINE new == [Started EXCEPT !.status = "unplaced", !.err = FALSE]
    <3>1. new.txn = None
      BY <2>1, <2>7 DEF Row
    <3> HIDE DEF new
    <3>2. worker' = [worker EXCEPT !.pc = "placed", !.new = new]
      BY <2>7 DEF new
    <3>3. /\ worker'.pc = "placed" /\ worker'.job = j
          /\ worker'.snap = job[j] /\ worker'.new.txn = None
      BY <1>0, <2>0, <3>1, <3>2 DEF Worker
    <3> QED
      BY <2>0, <2>2, <2>7, <3>3, RowWorkerMakes
  <2> QED
    BY <1>4, <2>4, <2>5, <2>6, <2>7 DEF Place
<1>5. CASE WorkerCommit
  <2>1. /\ j \in Jobs /\ worker.snap = job[j] /\ job[j] \in Row
        /\ worker.new \in Row /\ worker.pc \in {"placed", "recorded"}
        /\ worker.new.status \in {"queued", "done", "error", "unplaced"}
        /\ req' = req /\ worker'.pc = "idle" /\ txn' = Settle(worker.new.txn, "live")
    BY <1>0, <1>5 DEF WorkerCommit, SerialInv, WorkerFresh, Verdict, Exists, Statuses,
       IdleWorker, Worker
  <2>2. /\ job'[j].status = worker.new.status /\ job'[j].txn = worker.new.txn
        /\ \A k \in Jobs : k # j => job'[k] = job[k]
    BY <1>5, <2>1, MergeFresh DEF WorkerCommit
  <2>3. worker.new.txn \in Txns \cup {None}
    BY <2>1 DEF Row
  <2>4. OwnRow(worker) /\ (worker.new.txn = job[j].txn \/ NoLiveRow(j))
    BY <2>1 DEF RowInv, WorkerRow
  <2> QED
    BY <2>1, <2>2, <2>3, <2>4, RowCommit DEF OwnRow
<1>6. CASE RecordFailure
  <2> DEFINE Ends(new) == worker' = [worker EXCEPT !.pc = "recorded",
                            !.snap = job[j], !.new = [new EXCEPT !.err = TRUE]]
  <2>0. /\ worker.pc = "failed" /\ j \in Jobs /\ job[j] \in Row /\ UNCHANGED <<job, req>>
    BY <1>0, <1>6 DEF RecordFailure
  <2>1. ASSUME NEW new \in Row, Ends(new)
        PROVE  /\ worker'.pc = "recorded" /\ worker'.job = j
               /\ worker'.snap = job[j] /\ worker'.new.txn = new.txn
    BY <1>0, <2>0, <2>1 DEF Worker, Row
  <2>2. ASSUME UNCHANGED txn, NEW new \in Row, Ends(new), new.txn = job[j].txn
        PROVE  RowInv'
    <3>1. job[j].txn # None => txn[job[j].txn].state \notin {"free", "pending"}
      BY <2>0 DEF RowInv, NamedSettled
    <3> QED
      BY <2>0, <2>1, <2>2, <3>1, RowWorkerMakes
  <2>3. CASE UNCHANGED txn /\ Ends([job[j] EXCEPT !.status = "queued", !.due = FALSE])
    <3>1. /\ [job[j] EXCEPT !.status = "queued", !.due = FALSE] \in Row
          /\ [job[j] EXCEPT !.status = "queued", !.due = FALSE].txn = job[j].txn
      BY <2>0 DEF Row, Statuses
    <3> QED
      BY <2>2, <2>3, <3>1
  <2>4. ASSUME NEW s \in {"error", "unplaced"}, UNCHANGED txn,
               Ends([job[j] EXCEPT !.status = s])
        PROVE  RowInv'
    <3>1. /\ [job[j] EXCEPT !.status = s] \in Row
          /\ [job[j] EXCEPT !.status = s].txn = job[j].txn
      BY <2>0 DEF Row, Statuses
    <3> QED
      BY <2>2, <2>4, <3>1
  <2>5. ASSUME StubNeeded(job[j]), NEW t \in Txns, CreateIn(j, t), NEW new \in Row,
               Ends(new), new.txn = t
        PROVE  RowInv'
    <3>1. NoLiveRow(j)
      BY <2>0, <2>5 DEF StubNeeded, RowInv, RowNamed, NoLiveRow
    <3>2. /\ worker'.pc = "recorded" /\ worker'.job = j
          /\ worker'.snap = job[j] /\ worker'.new.txn = t
      BY <2>1, <2>5
    <3> QED
      BY <2>0, <2>5, <3>1, <3>2, RowWorkerMakes
  <2>6. ASSUME StubNeeded(job[j]), NEW t \in Txns, CreateIn(j, t),
               \/ Ends([job[j] EXCEPT !.status = "error", !.txn = t,
                    !.att = IF job[j].att = None /\ StubPhoto(j) THEN t ELSE @])
               \/ Ends([job[j] EXCEPT !.status = "error", !.txn = t])
        PROVE  RowInv'
    <3> DEFINE photo == [job[j] EXCEPT !.status = "error", !.txn = t,
                           !.att = IF job[j].att = None /\ StubPhoto(j) THEN t ELSE @]
               bare == [job[j] EXCEPT !.status = "error", !.txn = t]
    <3>1. photo \in Row /\ photo.txn = t /\ bare \in Row /\ bare.txn = t
      BY <2>0 DEF Row, Statuses
    <3>2. Ends(photo) \/ Ends(bare)
      BY <2>6
    <3> HIDE DEF photo, bare, Ends
    <3> QED
      BY <2>5, <2>6, <3>1, <3>2
  <2> QED
    BY <1>6, <2>3, <2>4, <2>6 DEF RecordFailure
<1> QED
  BY <1>1, <1>2, <1>3, <1>4, <1>5, <1>6 DEF WorkerNext

LEMMA RowRequest ==
  ASSUME TypeInv, SerialInv, RowInv, NEW r \in Requests, RequestNext(r) PROVE RowInv'
<1> DEFINE j == req[r].job
<1> USE DEF TypeInv, TypeOK, HasJob
<1>0. /\ req[r] \in Request /\ (txn' = txn => RowsFade)
      /\ req' = [req EXCEPT ![r] = IdleRequest] =>
           /\ \A q \in Requests : req'[q] = req[q] \/ req'[q] = IdleRequest
           /\ \A q \in Requests :
                \/ req'[q] = req[q]
                \/ /\ ~(req'[q].op = "place" /\ req'[q].pc = "flushed")
                   /\ req'[q].op = "submit" => req'[q].new.txn = None
  BY DEF RowsFade, IdleRequest
<1>1. CASE SubmitCommit(r)
  <2>1. /\ req[r].op = "submit" /\ req[r].new \in Row /\ j \in Jobs
        /\ job[j].status = "absent" /\ req[r].new.status = "queued"
        /\ UNCHANGED <<txn, worker>> /\ req' = [req EXCEPT ![r] = IdleRequest]
    BY <1>0, <1>1 DEF SubmitCommit, At, SerialInv, RequestFresh, FreshRequest, Request
  <2>2. job'[j].txn = req[r].new.txn /\ job'[j].status = "queued"
        /\ \A k \in Jobs : k # j => job'[k] = job[k]
    BY <1>1, <2>1 DEF SubmitCommit, Row
  <2>3. req[r].new.txn = None /\ job[j].txn = None
    BY <2>1 DEF RowInv, RequestRow, NamedSettled
  <2> QED
    BY <1>0, <2>1, <2>2, <2>3, RowQuiet
<1>2. CASE Requeue(r)
  <2>1. /\ j \in Jobs /\ job[j] \in Row /\ req[r].new \in Row
        /\ req[r].snap = job[j] /\ req[r].new = Requeued(job[j])
        /\ UNCHANGED <<txn, worker>> /\ req' = [req EXCEPT ![r] = IdleRequest]
    BY <1>0, <1>2 DEF Requeue, At, SerialInv, RequestFresh, FreshRequest, Request
  <2>2. /\ job'[j] = Merge(job[j], job[j], req[r].new)
        /\ \A k \in Jobs : k # j => job'[k] = job[k]
    BY <1>2, <2>1 DEF Requeue
  <2>3. req[r].new.txn = job[j].txn /\ req[r].new.status = "queued"
    BY <2>1 DEF Requeued, Row
  <2>4. job'[j].txn = job[j].txn /\ job'[j].status = "queued"
    BY <2>1, <2>2, <2>3, MergeFresh
  <2> QED
    BY <1>0, <2>1, <2>2, <2>4, RowQuiet
<1>3. CASE PlaceFinish(r)
  <2>1. /\ At(r, "place", "begun") /\ j \in Jobs /\ UNCHANGED <<job, worker>>
    BY <1>3 DEF PlaceFinish, At
  <2>2. PICK t \in Txns : /\ req' = [req EXCEPT ![r] = Filed(@, t)]
                          /\ (Live(t) /\ UNCHANGED txn) \/ CreateIn(j, t)
    BY <1>3 DEF PlaceFinish
  <2>3. /\ req'[r].new.txn = t /\ req'[r].job = j /\ req'[r].op = "place"
        /\ \A q \in Requests : q # r => req'[q] = req[q]
    BY <1>0, <2>1, <2>2 DEF Filed, At, Request, Row
  <2>4. /\ txn'[t].state \notin {"free"}
        /\ txn'[t].state = "pending" => txn'[t].made = j
        /\ \A u \in Txns : txn'[u].state = "live" => txn[u].state = "live" /\ txn'[u] = txn[u]
        /\ \A u \in Txns : txn[u].state # "free" => txn'[u] = txn[u]
    BY <2>2 DEF Live, CreateIn, NextId
  <2>5. RowNamed'
    BY <2>1, <2>4 DEF RowInv, RowNamed
  <2>6. NamedSettled'
    <3>1. ASSUME NEW k \in Jobs
          PROVE  /\ job[k].txn # None => txn'[job[k].txn].state \notin {"free", "pending"}
                 /\ job[k].status = "absent" => job[k].txn = None
      <4>1. job[k].txn \in Txns \cup {None}
        BY DEF Row
      <4> QED
        BY <2>4, <4>1 DEF RowInv, NamedSettled
    <3> QED
      BY <2>1, <3>1 DEF NamedSettled
  <2>7. WorkerRow'
    <3>1. SUFFICES ASSUME worker.pc \in {"placed", "recorded"} PROVE WorkerRow'
      BY <2>1 DEF WorkerRow
    <3>2. worker.new.txn \in Txns \cup {None} /\ worker.job \in Jobs
      BY <3>1 DEF Worker, Row
    <3> QED
      BY <2>1, <2>4, <3>1, <3>2 DEF RowInv, WorkerRow, OwnRow, NoLiveRow
  <2>8. RequestRow'
    <3>1. ASSUME NEW q \in Requests, q # r, At(q, "place", "flushed") PROVE OwnRow(req[q])'
      <4>1. req[q].new.txn \in Txns \cup {None} /\ OwnRow(req[q]) /\ req'[q] = req[q]
        BY <2>3, <3>1 DEF RowInv, RequestRow, Request, Row
      <4> QED
        BY <2>4, <4>1 DEF OwnRow
    <3>2. OwnRow(req[r])'
      BY <2>3, <2>4 DEF OwnRow
    <3>3. \A q \in Requests : req'[q].op = "submit" => req'[q].new.txn = None
      BY <2>3 DEF RowInv, RequestRow
    <3> QED
      BY <2>3, <3>1, <3>2, <3>3 DEF RequestRow, At
  <2> QED
    BY <2>5, <2>6, <2>7, <2>8 DEF RowInv
<1>4. CASE PlaceCommit(r)
  <2>1. /\ j \in Jobs /\ job[j] \in Row /\ req[r].new \in Row
        /\ req[r].snap = job[j] /\ job[j].status = "unplaced"
        /\ req[r].new.status \in {"done", "error"}
        /\ worker' = worker /\ req' = [req EXCEPT ![r] = IdleRequest]
        /\ txn' = Settle(req[r].new.txn, "live")
    BY <1>0, <1>4 DEF PlaceCommit, At, SerialInv, RequestFresh, FreshRequest, Request
  <2>2. /\ job'[j].txn = req[r].new.txn /\ job'[j].status = req[r].new.status
        /\ \A k \in Jobs : k # j => job'[k] = job[k]
    <3>1. /\ job'[j] = Merge(job[j], job[j], req[r].new)
          /\ \A k \in Jobs : k # j => job'[k] = job[k]
      BY <1>4, <2>1 DEF PlaceCommit
    <3> QED
      BY <2>1, <3>1, MergeFresh
  <2>3. NoLiveRow(j)
    BY <2>1 DEF SerialInv, UnplacedHasNoRow, RowInv, RowNamed, NoLiveRow
  <2>4. OwnRow(req[r])
    BY <1>4 DEF PlaceCommit, RowInv, RequestRow
  <2>5. worker.pc \in {"placed", "recorded"} => worker.job # j
    BY <2>1 DEF SerialInv, Verdict
  <2>6. req[r].new.txn \in Txns \cup {None}
    BY <2>1 DEF Row
  <2> QED
    BY <1>0, <2>1, <2>2, <2>3, <2>4, <2>5, <2>6, RowCommit DEF OwnRow
<1>5. CASE DeleteFlush(r)
  <2>1. /\ UNCHANGED <<job, txn, worker>> /\ req[r].op = "delete"
        /\ req' = [req EXCEPT ![r].pc = "flushed"]
    BY <1>5 DEF DeleteFlush, At
  <2>2. \A q \in Requests : req'[q] = req[q] \/ req'[q].op = "delete"
    BY <1>0, <2>1 DEF Request
  <2> QED
    BY <1>0, <2>1, <2>2, RowQuiet
<1>6. CASE DeleteCommit(r)
  <2>1. /\ UNCHANGED <<txn, worker>> /\ req' = [req EXCEPT ![r] = IdleRequest]
        /\ \A k \in Jobs : /\ job'[k].txn = job[k].txn
                           /\ job'[k].status = "absent" => job[k].status = "absent"
    BY <1>6 DEF DeleteCommit, Row
  <2> QED
    BY <1>0, <2>1, RowQuiet
<1>7. CASE Abort(r)
  <2>1. UNCHANGED <<job, worker>> /\ req' = [req EXCEPT ![r] = IdleRequest]
    BY <1>7 DEF Abort
  <2>2. RowsFade
    BY <1>7, VoidFades DEF Abort
  <2> QED
    BY <1>0, <2>1, <2>2, RowQuiet
<1> QED
  BY <1>1, <1>2, <1>3, <1>4, <1>5, <1>6, <1>7 DEF RequestNext

LEMMA RowPeople ==
  ASSUME TypeInv, RowInv, PeopleNext PROVE RowInv'
<1> USE DEF TypeInv, TypeOK, HasJob
<1>1. ASSUME NEW t \in Txns, Approve(t) \/ DeleteTxn(t) \/ RestoreTxn(t) PROVE RowInv'
  <2>1. UNCHANGED <<job, worker, req>>
    BY <1>1 DEF Approve, DeleteTxn, RestoreTxn
  <2>2. RowsFade
    BY <1>1 DEF Approve, DeleteTxn, RestoreTxn, RowsFade, TxnRow
  <2> QED
    BY <2>1, <2>2, RowQuiet
<1>2. ASSUME NEW r \in Requests, NEW j \in Jobs, NEW op, NEW new,
             Begin(r, op, j, new), UNCHANGED <<job, txn, worker>>,
             op = "submit" => new.txn = None
      PROVE  RowInv'
  <2>1. /\ RowsFade
        /\ \A q \in Requests :
             \/ req'[q] = req[q]
             \/ req'[q].pc = "begun" /\ (req'[q].op = "submit" => req'[q].new.txn = None)
    BY <1>2 DEF Begin, RowsFade
  <2> QED
    BY <1>2, <2>1, RowQuiet
<1>3. ASSUME NEW r \in Requests, NEW j \in Jobs, Submit(r, j) PROVE RowInv'
  <2>1. \A acct, legible \in BOOLEAN :
          [NoRow EXCEPT !.status = "queued", !.due = TRUE,
             !.acct = acct, !.legible = legible].txn = None
    BY DEF NoRow
  <2>2. \E new : Begin(r, "submit", j, new) /\ new.txn = None
    BY <1>3, <2>1 DEF Submit
  <2>3. UNCHANGED <<job, txn, worker>>
    BY <1>3 DEF Submit
  <2> QED
    BY <1>2, <2>2, <2>3
<1>4. ASSUME NEW r \in Requests, NEW j \in Jobs,
             Retry(r, j) \/ Reprocess(r, j) \/ PlaceRequest(r, j) \/ Delete(r, j)
      PROVE  RowInv'
  <2>1. \E op, new : Begin(r, op, j, new) /\ op # "submit" /\ UNCHANGED <<job, txn, worker>>
    BY <1>4 DEF Retry, Reprocess, PlaceRequest, Delete
  <2> QED
    BY <1>2, <2>1
<1> QED
  BY <1>1, <1>3, <1>4 DEF PeopleNext

LEMMA RowRest ==
  ASSUME TypeInv, RowInv,
         (\E j \in Jobs : BackoffEnds(j)) \/ NightlyNext \/ CrashRestart
  PROVE  RowInv'
<1> USE DEF TypeInv, TypeOK, HasJob
<1>1. CASE (\E j \in Jobs : BackoffEnds(j)) \/ NightlyNext
  <2>1. /\ UNCHANGED <<worker, req, txn>>
        /\ \A k \in Jobs : /\ job'[k].txn = job[k].txn
                           /\ job'[k].status = "absent" => job[k].status = "absent"
    BY <1>1 DEF BackoffEnds, NightlyNext, RetentionPass, RetentionSelect,
       RetentionDelete, StagingSweep, FileSweep, Expire, Row
  <2> QED
    BY <2>1, RowQuiet DEF RowsFade
<1>2. CASE CrashRestart
  <2>1. /\ worker' = IdleWorker /\ req' = [q \in Requests |-> IdleRequest]
        /\ \A k \in Jobs : /\ job'[k].txn = job[k].txn
                           /\ job'[k].status = "absent" => job[k].status = "absent"
    BY <1>2 DEF CrashRestart, Recovered, Row
  <2>2. RowsFade
    BY <1>2 DEF CrashRestart, RowsFade, TxnRow
  <2> QED
    BY <2>1, <2>2, RowQuiet DEF IdleWorker, IdleRequest
<1> QED
  BY <1>1, <1>2

(* "the same row, never a second one": with one request at a time, however  *)
(* often a job is read again - after a retry, a reprocess, a crash between  *)
(* the insert and the commit, a failed commit, or a stub - at most one      *)
(* transaction it made is live, unless a person took one back from the bin. *)
THEOREM OneRowCorrect ==
  ASSUME SerialRequests PROVE Spec => []OneRowPerJob
<1>1. TypeInv /\ TypeInv' /\ SerialInv /\ RowInv /\ [Next]_vars => RowInv'
  <2>1. CASE UNCHANGED vars
    BY <2>1 DEF vars, RowInv, RowNamed, NamedSettled, WorkerRow, RequestRow, OwnRow,
       NoLiveRow, At
  <2> QED
    BY <2>1, RowWorker, RowRequest, RowPeople, RowRest DEF Next
<1>2. TypeInv /\ RowInv => OneRowPerJob
  BY DEF RowInv, RowNamed, OneRowPerJob, TypeInv, TypeOK, TxnRow
<1> QED
  BY <1>1, <1>2, RowInit, TypeInvariant, SerialCorrect, PTL DEF Spec

-----------------------------------------------------------------------------
(***************************************************************************)
(* What the row locks guarantee whatever else runs, with any number of     *)
(* requests and every window open (AIJobs!GoneJobsMakeNothing).            *)
(***************************************************************************)
(* A row a session is about to name exists, and if undecided is its own.    *)
OwnDraft(w) ==
  w.new.txn # None => /\ txn[w.new.txn].state # "free"
                      /\ txn[w.new.txn].state = "pending" => txn[w.new.txn].made = w.job

(* What a session is about to commit; the worker's job is there, since its  *)
(* row lock keeps deletions out.                                            *)
WorkerFate ==
  worker.pc \in {"placed", "recorded"} =>
    Exists(worker.job) /\ worker.new.status \in Statuses /\ OwnDraft(worker)
RequestFate(r) ==
  /\ req[r].op = "submit" => req[r].new.status = "queued" /\ req[r].new.txn = None
  /\ req[r].op \in {"retry", "reprocess"} =>
       req[r].new.status = "queued" /\ req[r].new.txn = req[r].snap.txn
  /\ req[r].op = "place" => req[r].new.status \in Statuses
  /\ At(r, "place", "flushed") => OwnDraft(req[r])

(* A committed job names no undecided row.                                  *)
NamesDecided ==
  \A j \in Jobs : job[j].txn # None => txn[job[j].txn].state \notin {"free", "pending"}

FateInv == /\ OneLock /\ WorkerFate /\ (\A r \in Requests : RequestFate(r))
           /\ NamesDecided

LEMMA FateInit == Init => FateInv
BY DEF Init, FateInv, OneLock, WorkerLocks, WorkerFate, RequestFate, At, NamesDecided,
   IdleWorker, IdleRequest, NoRow

(* An id once handed out is not handed out again, and a decided row stays   *)
(* decided.                                                                 *)
IdsAdvance ==
  \A t \in Txns : txn[t].state # "free" =>
    /\ txn'[t].made = txn[t].made /\ txn'[t].state # "free"
    /\ txn'[t].state = "pending" => txn[t].state = "pending"

(* What a step may do: name a decided row, end the worker's session or have *)
(* it take a free lock, and move a request likewise.                        *)
LEMMA FateMove ==
  ASSUME TypeInv, FateInv, IdsAdvance,
         \A j \in Jobs : job'[j].txn # None =>
           job'[j].txn = job[j].txn \/ txn'[job'[j].txn].state \notin {"free", "pending"},
         \/ worker'.pc \notin {"placed", "recorded"}
         \/ worker' = worker /\ (WorkerLocks(worker.job) => job'[worker.job].status \in Statuses)
         \/ WorkerFate' /\ ~RequestLocks(worker'.job) /\ req' = req,
         \A r \in Requests :
           \/ req'[r] = req[r]
           \/ /\ RequestFate(r)'
              /\ req'[r].op = "delete" /\ req'[r].pc = "flushed"
                   => worker' = worker /\ ~WorkerLocks(req'[r].job)
  PROVE  FateInv'
<1> USE DEF TypeInv, TypeOK, HasJob
<1>1. \A r \in Requests : RequestFate(r)'
  <2>1. ASSUME NEW r \in Requests, req'[r] = req[r] PROVE RequestFate(r)'
    <3>1. RequestFate(r) /\ req[r].new.txn \in Txns \cup {None}
      BY DEF FateInv, Request, Row
    <3>2. At(r, "place", "flushed") => OwnDraft(req[r])'
      BY <2>1, <3>1 DEF RequestFate, OwnDraft, IdsAdvance
    <3> QED
      BY <2>1, <3>1, <3>2 DEF RequestFate, At
  <2> QED
    BY <2>1
<1>2. WorkerFate'
  <2>1. CASE worker' = worker /\ (WorkerLocks(worker.job) => job'[worker.job].status \in Statuses)
    <3>1. WorkerFate /\ worker.new.txn \in Txns \cup {None}
      BY DEF FateInv, Worker, Row
    <3>2. worker.pc \in {"placed", "recorded"} => OwnDraft(worker)'
      BY <2>1, <3>1 DEF WorkerFate, OwnDraft, IdsAdvance
    <3> QED
      BY <2>1, <3>1, <3>2 DEF WorkerFate, WorkerLocks, Exists
  <2> QED
    BY <2>1 DEF WorkerFate
<1>3. NamesDecided'
  <2>1. ASSUME NEW j \in Jobs, job'[j].txn # None, job'[j].txn = job[j].txn
        PROVE  txn'[job'[j].txn].state \notin {"free", "pending"}
    <3>1. job[j].txn \in Txns /\ txn[job[j].txn].state \notin {"free", "pending"}
      BY <2>1 DEF FateInv, NamesDecided, Row
    <3> QED
      BY <2>1, <3>1 DEF IdsAdvance
  <2> QED
    BY <2>1 DEF NamesDecided
<1>4. OneLock'
  <2>1. ASSUME NEW j \in Jobs, WorkerLocks(j)', RequestLocks(j)' PROVE FALSE
    <3>1. PICK r \in Requests : req'[r].op = "delete" /\ req'[r].pc = "flushed"
                                  /\ req'[r].job = j
      BY <2>1 DEF RequestLocks
    <3>2. worker'.job = j /\ worker'.pc \in {"placed", "recorded"}
      BY <2>1 DEF WorkerLocks
    <3>3. CASE req'[r] = req[r]
      <4>1. RequestLocks(j)
        BY <3>1, <3>3 DEF RequestLocks
      <4>2. ~WorkerLocks(j)
        BY <4>1 DEF FateInv, OneLock
      <4> QED
        BY <3>2, <4>1, <4>2 DEF WorkerLocks
    <3>4. CASE req'[r] # req[r]
      <4>1. worker' = worker /\ ~WorkerLocks(j)
        BY <3>1, <3>4
      <4> QED
        BY <3>2, <4>1 DEF WorkerLocks
    <3> QED
      BY <3>3, <3>4
  <2> QED
    BY <2>1 DEF OneLock
<1> QED
  BY <1>1, <1>2, <1>3, <1>4 DEF FateInv

LEMMA SettleAdvances ==
  ASSUME TypeInv, NEW t, NEW outcome \in {"live", "void"}, txn' = Settle(t, outcome)
  PROVE  IdsAdvance /\ (t \in Txns /\ txn[t].state # "free"
                          => txn'[t].state \notin {"free", "pending"})
BY DEF TypeInv, TypeOK, TxnRow, IdsAdvance, Settle

LEMMA CreateAdvances ==
  ASSUME TypeInv, NEW j \in Jobs, NEW t \in Txns, CreateIn(j, t)
  PROVE  IdsAdvance /\ txn'[t].state = "pending" /\ txn'[t].made = j
BY DEF TypeInv, TypeOK, TxnRow, IdsAdvance, CreateIn, NextId

(* A commit over a row names what the row named or what the session does.   *)
LEMMA MergeNames ==
  ASSUME NEW db, NEW old, NEW new
  PROVE  /\ Merge(db, old, new).txn \in {db.txn, new.txn}
         /\ new.txn = old.txn => Merge(db, old, new).txn = db.txn
         /\ Merge(db, old, new).status \in {db.status, new.status}
BY DEF Merge, Changed

LEMMA FateWorker ==
  ASSUME TypeInv, FateInv, WorkerNext PROVE FateInv'
<1> PICK j : j = worker.job
  OBVIOUS
<1> USE DEF TypeInv, TypeOK, HasJob
<1>0. worker \in Worker /\ \A k \in Jobs : job[k] \in Row
  OBVIOUS
<1>1. ASSUME NEW k \in Jobs, Claim(k) PROVE FateInv'
  <2>1. /\ UNCHANGED <<txn, req, aging>> /\ worker'.pc = "claimed"
        /\ \A i \in Jobs : job'[i].txn = job[i].txn
    BY <1>0, <1>1 DEF Claim, Row, IdleWorker
  <2>2. IdsAdvance
    BY <2>1 DEF IdsAdvance, FateInv
  <2> QED
    BY <2>1, <2>2, FateMove
<1>2. CASE Load \/ ReadFails \/ PlaceLost \/ RecordNothing
  <2>1. UNCHANGED <<txn, req, job, aging>> /\ worker'.pc \notin {"placed", "recorded"}
    <3>1. CASE Load
      BY <1>0, <3>1 DEF Load, IdleWorker, Worker
    <3>2. CASE ReadFails
      BY <1>0, <3>2 DEF ReadFails, Worker
    <3>3. CASE PlaceLost \/ RecordNothing
      BY <1>0, <3>3 DEF PlaceLost, RecordNothing, IdleWorker, Worker
    <3> QED
      BY <1>2, <3>1, <3>2, <3>3
  <2>2. IdsAdvance
    BY <2>1 DEF IdsAdvance, FateInv
  <2> QED
    BY <2>1, <2>2, FateMove
<1>3. CASE CommitFails \/ RecordLost
  <2>1. /\ txn' = Settle(worker.new.txn, "void") /\ worker'.pc \notin {"placed", "recorded"}
        /\ UNCHANGED <<job, req, aging>>
    <3>1. CASE CommitFails
      BY <1>0, <3>1 DEF CommitFails, Worker
    <3>2. CASE RecordLost
      BY <3>2 DEF RecordLost, IdleWorker
    <3> QED
      BY <1>3, <3>1, <3>2
  <2>2. IdsAdvance
    BY <2>1, SettleAdvances DEF FateInv
  <2> QED
    BY <2>1, <2>2, FateMove
(* A session that has flushed and holds the lock of j.                      *)
<1>4. ASSUME j \in Jobs, Exists(j), ~RequestLocks(j), UNCHANGED <<job, req, aging>>,
             IdsAdvance, worker'.job = j, worker'.new.status \in Statuses, OwnDraft(worker)'
      PROVE  FateInv'
  <2>1. WorkerFate' /\ ~RequestLocks(worker'.job)
    BY <1>4 DEF WorkerFate, Exists
  <2> QED
    BY <1>4, <2>1, FateMove
<1>5. ASSUME NEW t \in Txns, PlaceOn(j, t), worker.pc = "reading"
      PROVE  worker'.job = j /\ worker'.new.txn = t /\ worker'.new.status = "done"
  <2>1. worker.snap \in Row /\ Started \in Row
    BY <1>0 DEF Worker, Started, Row
  <2>2. Placed(Started, j, t).txn = t /\ Placed(Started, j, t).status = "done"
    BY <2>1 DEF Placed, Row
  <2> QED
    BY <1>0, <1>5, <2>2 DEF PlaceOn, Worker
<1>6. CASE Place
  <2>0. /\ worker.pc = "reading" /\ j \in Jobs /\ Exists(j) /\ ~RequestLocks(j)
        /\ UNCHANGED <<job, req, aging>>
    BY <1>6 DEF Place
  <2>1. UNCHANGED txn => IdsAdvance
    BY DEF IdsAdvance
  <2>2. ASSUME NEW t \in Txns, Live(t), PlaceOn(j, t), UNCHANGED txn PROVE FateInv'
    <3>1. OwnDraft(worker)'
      BY <1>5, <2>0, <2>2 DEF OwnDraft, Live
    <3> QED
      BY <1>4, <1>5, <2>0, <2>1, <2>2, <3>1 DEF Statuses
  <2>3. ASSUME NEW t \in Txns, CreateIn(j, t), PlaceOn(j, t) PROVE FateInv'
    <3>1. IdsAdvance /\ txn'[t].state = "pending" /\ txn'[t].made = j
      BY <2>0, <2>3, CreateAdvances
    <3>2. worker'.job = j /\ worker'.new.txn = t /\ worker'.new.status = "done"
      BY <1>5, <2>0, <2>3
    <3>3. OwnDraft(worker)'
      BY <3>1, <3>2 DEF OwnDraft
    <3> QED
      BY <1>4, <2>0, <3>1, <3>2, <3>3 DEF Statuses
  <2>4. ASSUME Started.txn = None, UNCHANGED txn,
               worker' = [worker EXCEPT !.pc = "placed",
                            !.new = [Started EXCEPT !.status = "unplaced", !.err = FALSE]]
        PROVE  FateInv'
    <3>1. worker.snap \in Row /\ Started \in Row
      BY <1>0 DEF Worker, Started, Row
    <3>2. worker'.job = j /\ worker'.new.status = "unplaced" /\ worker'.new.txn = None
      BY <1>0, <2>4, <3>1 DEF Worker, Row
    <3>3. OwnDraft(worker)'
      BY <3>2 DEF OwnDraft
    <3> QED
      BY <1>4, <2>0, <2>1, <2>4, <3>2, <3>3 DEF Statuses
  <2>5. Started.txn # None => Live(Started.txn) /\ Started.txn \in Txns
    BY <1>0 DEF Started, Worker, Row, Live
  <2> QED
    BY <1>6, <2>2, <2>3, <2>4, <2>5 DEF Place, BankCandidate
<1>7. CASE RecordFailure
  <2> DEFINE Ends(new) == worker' = [worker EXCEPT !.pc = "recorded",
                            !.snap = job[j], !.new = [new EXCEPT !.err = TRUE]]
  <2>0. /\ worker.pc = "failed" /\ j \in Jobs /\ Exists(j) /\ ~RequestLocks(j)
        /\ job[j] \in Row /\ UNCHANGED <<job, req, aging>>
    BY <1>0, <1>7 DEF RecordFailure
  <2>1. ASSUME NEW new \in Row, Ends(new), new.status \in Statuses, UNCHANGED txn,
               new.txn = job[j].txn
        PROVE  FateInv'
    <3>1. worker'.job = j /\ worker'.new.status \in Statuses /\ worker'.new.txn = job[j].txn
      BY <1>0, <2>0, <2>1 DEF Worker, Row
    <3>2. IdsAdvance /\ OwnDraft(worker)'
      BY <2>0, <2>1, <3>1 DEF IdsAdvance, OwnDraft, FateInv, NamesDecided
    <3> QED
      BY <1>4, <2>0, <3>1, <3>2
  <2>2. ASSUME NEW t \in Txns, NEW new \in Row, Ends(new), new.status \in Statuses,
               CreateIn(j, t), new.txn = t
        PROVE  FateInv'
    <3>1. worker'.job = j /\ worker'.new.status \in Statuses /\ worker'.new.txn = t
      BY <1>0, <2>2 DEF Worker, Row
    <3>2. IdsAdvance /\ OwnDraft(worker)'
      BY <2>0, <2>2, <3>1, CreateAdvances DEF OwnDraft
    <3> QED
      BY <1>4, <2>0, <3>1, <3>2
  <2>3. CASE Ends([job[j] EXCEPT !.status = "queued", !.due = FALSE]) /\ UNCHANGED txn
    <3>1. [job[j] EXCEPT !.status = "queued", !.due = FALSE] \in Row
      BY <2>0 DEF Row, Statuses
    <3> QED
      BY <2>0, <2>1, <2>3, <3>1 DEF Row, Statuses
  <2>4. ASSUME NEW s \in {"error", "unplaced"}, Ends([job[j] EXCEPT !.status = s]),
               UNCHANGED txn
        PROVE  FateInv'
    <3>1. [job[j] EXCEPT !.status = s] \in Row
      BY <2>0 DEF Row, Statuses
    <3> QED
      BY <2>0, <2>1, <2>4, <3>1 DEF Row, Statuses
  <2>5. ASSUME NEW t \in Txns, CreateIn(j, t),
               Ends([job[j] EXCEPT !.status = "error", !.txn = t,
                       !.att = IF job[j].att = None /\ StubPhoto(j) THEN t ELSE @])
        PROVE  FateInv'
    <3>1. /\ [job[j] EXCEPT !.status = "error", !.txn = t,
                !.att = IF job[j].att = None /\ StubPhoto(j) THEN t ELSE @] \in Row
      BY <2>0 DEF Row, Statuses
    <3> QED
      BY <2>0, <2>2, <2>5, <3>1 DEF Row, Statuses
  <2>6. ASSUME NEW t \in Txns, CreateIn(j, t),
               Ends([job[j] EXCEPT !.status = "error", !.txn = t])
        PROVE  FateInv'
    <3>1. [job[j] EXCEPT !.status = "error", !.txn = t] \in Row
      BY <2>0 DEF Row, Statuses
    <3> QED
      BY <2>0, <2>2, <2>6, <3>1 DEF Row, Statuses
  <2> QED
    BY <1>7, <2>3, <2>4, <2>5, <2>6 DEF RecordFailure
<1>8. CASE WorkerCommit
  <2>1. /\ worker.pc \in {"placed", "recorded"} /\ j \in Jobs
        /\ txn' = Settle(worker.new.txn, "live") /\ worker' = IdleWorker
        /\ worker.new.txn \in Txns \cup {None} /\ UNCHANGED <<req, aging>>
    BY <1>0, <1>8 DEF WorkerCommit, Worker, Row
  <2>2. /\ job'[j].txn \in {job[j].txn, worker.new.txn}
        /\ \A k \in Jobs : k # j => job'[k] = job[k]
    BY <1>8, <2>1, MergeNames DEF WorkerCommit
  <2>3. OwnDraft(worker)
    BY <2>1 DEF FateInv, WorkerFate
  <2>4. worker.new.txn # None => txn'[worker.new.txn].state \notin {"free", "pending"}
    BY <2>1, <2>3, SettleAdvances DEF OwnDraft
  <2>5. IdsAdvance /\ worker'.pc \notin {"placed", "recorded"}
    BY <2>1, SettleAdvances DEF FateInv, IdleWorker
  <2>6. \A k \in Jobs : job'[k].txn # None =>
           job'[k].txn = job[k].txn \/ txn'[job'[k].txn].state \notin {"free", "pending"}
    BY <2>2, <2>4
  <2> QED
    BY <2>1, <2>5, <2>6, FateMove
<1> QED
  BY <1>1, <1>2, <1>3, <1>6, <1>7, <1>8 DEF WorkerNext

LEMMA FateRequest ==
  ASSUME TypeInv, FateInv, NEW r \in Requests, RequestNext(r) PROVE FateInv'
<1> PICK j : j = req[r].job
  OBVIOUS
<1> USE DEF TypeInv, TypeOK, HasJob
<1>0. /\ req[r] \in Request /\ RequestFate(r)
      /\ \A k \in Jobs : job[k] \in Row
  BY DEF FateInv
(* A request that ends, over a job's row or without one.                    *)
<1>1. ASSUME req' = [req EXCEPT ![r] = IdleRequest], UNCHANGED <<worker, aging>>, IdsAdvance,
             WorkerLocks(worker.job) => job'[worker.job].status \in Statuses,
             \A k \in Jobs : job'[k].txn # None =>
               job'[k].txn = job[k].txn \/ txn'[job'[k].txn].state \notin {"free", "pending"}
      PROVE  FateInv'
  <2>1. RequestFate(r)' /\ req'[r].op # "delete"
    BY <1>1 DEF RequestFate, IdleRequest, At
  <2>2. \A q \in Requests : q # r => req'[q] = req[q]
    BY <1>1
  <2> QED
    BY <1>1, <2>1, <2>2, FateMove
<1>2. UNCHANGED txn => IdsAdvance
  BY DEF IdsAdvance
<1>3. WorkerLocks(worker.job) => worker.job \in Jobs /\ job[worker.job].status \in Statuses
  BY DEF FateInv, WorkerFate, WorkerLocks, Exists
<1>4. CASE SubmitCommit(r)
  <2>1. /\ j \in Jobs /\ req[r].op = "submit" /\ req[r].new \in Row
        /\ req' = [req EXCEPT ![r] = IdleRequest] /\ UNCHANGED <<txn, worker, aging>>
    BY <1>0, <1>4 DEF SubmitCommit, At, Request
  <2>2. /\ job'[j].txn = req[r].new.txn /\ job'[j].status = req[r].new.status
        /\ \A k \in Jobs : k # j => job'[k] = job[k]
    BY <1>4, <2>1 DEF SubmitCommit, Row
  <2>3. req[r].new.txn = None /\ req[r].new.status = "queued"
    BY <1>0, <2>1 DEF RequestFate
  <2> QED
    BY <1>1, <1>2, <1>3, <2>1, <2>2, <2>3 DEF Statuses
<1>5. CASE Requeue(r)
  <2>1. /\ j \in Jobs /\ req[r].op \in {"retry", "reprocess"} /\ ~WorkerLocks(j)
        /\ req' = [req EXCEPT ![r] = IdleRequest] /\ UNCHANGED <<txn, worker, aging>>
    BY <1>0, <1>5 DEF Requeue, At
  <2>2. req[r].new.txn = req[r].snap.txn
    BY <1>0, <2>1 DEF RequestFate
  <2>3. job'[j].txn = job[j].txn /\ \A k \in Jobs : k # j => job'[k] = job[k]
    BY <1>5, <2>1, <2>2, MergeNames DEF Requeue
  <2>4. WorkerLocks(worker.job) => worker.job # j
    BY <2>1
  <2> QED
    BY <1>1, <1>2, <1>3, <2>1, <2>3, <2>4
<1>6. CASE PlaceFinish(r)
  <2>1. req[r].op = "place" /\ req[r].pc = "begun" /\ j \in Jobs
        /\ UNCHANGED <<job, worker, aging>>
    BY <1>6 DEF PlaceFinish, At
  <2>2. PICK t \in Txns : /\ req' = [req EXCEPT ![r] = Filed(@, t)]
                          /\ (Live(t) /\ UNCHANGED txn) \/ CreateIn(j, t)
    BY <1>6 DEF PlaceFinish
  <2>3. /\ req'[r].op = "place" /\ req'[r].job = j
        /\ req'[r].new.status = req[r].new.status /\ req'[r].new.txn = t
        /\ \A q \in Requests : q # r => req'[q] = req[q]
    BY <1>0, <2>1, <2>2 DEF Filed, Request, Row
  <2>4. IdsAdvance /\ OwnDraft(req[r])'
    BY <1>2, <2>1, <2>2, <2>3, CreateAdvances DEF OwnDraft, Live
  <2>5. RequestFate(r)'
    BY <1>0, <2>1, <2>3, <2>4 DEF RequestFate
  <2> QED
    BY <1>3, <2>1, <2>3, <2>4, <2>5, FateMove
<1>7. CASE PlaceCommit(r)
  <2>1. /\ req[r].op = "place" /\ req[r].pc = "flushed" /\ j \in Jobs /\ ~WorkerLocks(j)
        /\ txn' = Settle(req[r].new.txn, "live") /\ req[r].new.txn \in Txns \cup {None}
        /\ req' = [req EXCEPT ![r] = IdleRequest] /\ UNCHANGED <<worker, aging>>
    BY <1>0, <1>7 DEF PlaceCommit, At, Request, Row
  <2>2. /\ job'[j].txn \in {job[j].txn, req[r].new.txn}
        /\ \A k \in Jobs : k # j => job'[k] = job[k]
    BY <1>7, <2>1, MergeNames DEF PlaceCommit
  <2>3. OwnDraft(req[r])
    BY <1>0, <2>1 DEF RequestFate, At
  <2>4. req[r].new.txn # None => txn'[req[r].new.txn].state \notin {"free", "pending"}
    BY <2>1, <2>3, SettleAdvances DEF OwnDraft
  <2>5. IdsAdvance
    BY <2>1, SettleAdvances
  <2>6. WorkerLocks(worker.job) => job'[worker.job].status \in Statuses
    BY <1>3, <2>1, <2>2
  <2>7. \A k \in Jobs : job'[k].txn # None =>
           job'[k].txn = job[k].txn \/ txn'[job'[k].txn].state \notin {"free", "pending"}
    BY <2>2, <2>4
  <2> QED
    BY <1>1, <2>1, <2>5, <2>6, <2>7
<1>8. CASE DeleteFlush(r)
  <2>1. /\ req[r].op = "delete" /\ ~WorkerLocks(j) /\ UNCHANGED <<job, txn, worker, aging>>
        /\ req' = [req EXCEPT ![r].pc = "flushed"]
    BY <1>8 DEF DeleteFlush, At
  <2>2. /\ req'[r].op = "delete" /\ req'[r].job = j
        /\ \A q \in Requests : q # r => req'[q] = req[q]
    BY <1>0, <2>1 DEF Request
  <2>3. RequestFate(r)'
    BY <1>0, <2>1, <2>2 DEF RequestFate, At
  <2> QED
    BY <1>2, <1>3, <2>1, <2>2, <2>3, FateMove
<1>9. CASE DeleteCommit(r)
  <2>1. /\ req[r].op = "delete" /\ req[r].pc = "flushed" /\ j \in Jobs
        /\ job' = [job EXCEPT ![j].status = "deleted"]
        /\ req' = [req EXCEPT ![r] = IdleRequest] /\ UNCHANGED <<txn, worker, aging>>
    BY <1>9 DEF DeleteCommit, At
  <2>2. ~WorkerLocks(j)
    BY <2>1 DEF FateInv, OneLock, RequestLocks
  <2>3. /\ \A k \in Jobs : job'[k].txn = job[k].txn
        /\ \A k \in Jobs : k # j => job'[k] = job[k]
    BY <1>0, <2>1 DEF Row
  <2> QED
    BY <1>1, <1>2, <1>3, <2>1, <2>2, <2>3
<1>10. CASE Abort(r)
  <2>1. /\ req' = [req EXCEPT ![r] = IdleRequest] /\ UNCHANGED <<job, worker, aging>>
        /\ \E t : txn' = Settle(t, "void")
    BY <1>10 DEF Abort
  <2> QED
    BY <1>1, <1>3, <2>1, SettleAdvances
<1> QED
  BY <1>4, <1>5, <1>6, <1>7, <1>8, <1>9, <1>10 DEF RequestNext

LEMMA FatePeople ==
  ASSUME TypeInv, FateInv, PeopleNext PROVE FateInv'
<1> USE DEF TypeInv, TypeOK, HasJob
<1>0. /\ WorkerLocks(worker.job) => job[worker.job].status \in Statuses
  BY DEF FateInv, WorkerFate, WorkerLocks, Exists
<1>1. ASSUME NEW t \in Txns, Approve(t) \/ DeleteTxn(t) \/ RestoreTxn(t) PROVE FateInv'
  <2>1. UNCHANGED <<job, worker, req, aging>>
    BY <1>1 DEF Approve, DeleteTxn, RestoreTxn
  <2>2. IdsAdvance
    BY <1>1 DEF Approve, DeleteTxn, RestoreTxn, Live, IdsAdvance, TxnRow
  <2> QED
    BY <1>0, <2>1, <2>2, FateMove
<1>2. ASSUME NEW r \in Requests, NEW j \in Jobs, NEW op, NEW new, Begin(r, op, j, new),
             UNCHANGED <<job, txn, worker, aging>>,
             op = "submit" => new.status = "queued" /\ new.txn = None,
             op \in {"retry", "reprocess"} => new.status = "queued" /\ new.txn = job[j].txn,
             op = "place" => new.status \in Statuses
      PROVE  FateInv'
  <2>1. /\ req'[r] = [op |-> op, pc |-> "begun", job |-> j, snap |-> job[j], new |-> new]
        /\ \A q \in Requests : q # r => req'[q] = req[q]
    BY <1>2 DEF Begin
  <2>2. RequestFate(r)' /\ req'[r].pc # "flushed"
    BY <1>2, <2>1 DEF RequestFate, At
  <2>3. IdsAdvance
    BY <1>0, <1>2 DEF IdsAdvance
  <2> QED
    BY <1>0, <1>2, <2>1, <2>2, <2>3, FateMove
<1>3. ASSUME NEW r \in Requests, NEW j \in Jobs,
             \/ Submit(r, j) \/ Retry(r, j) \/ Reprocess(r, j)
             \/ PlaceRequest(r, j) \/ Delete(r, j)
      PROVE  FateInv'
  <2>0. job[j] \in Row
    OBVIOUS
  <2>1. CASE Submit(r, j)
    <3>1. \A acct, legible \in BOOLEAN :
            LET new == [NoRow EXCEPT !.status = "queued", !.due = TRUE,
                          !.acct = acct, !.legible = legible]
            IN  new.status = "queued" /\ new.txn = None
      BY DEF NoRow
    <3>2. PICK new : Begin(r, "submit", j, new) /\ new.status = "queued" /\ new.txn = None
      BY <2>1, <3>1 DEF Submit
    <3> QED
      BY <1>2, <2>1, <3>2 DEF Submit
  <2>2. CASE Retry(r, j) \/ Reprocess(r, j)
    <3>1. Requeued(job[j]).status = "queued" /\ Requeued(job[j]).txn = job[j].txn
      BY <2>0 DEF Requeued, Row
    <3>2. PICK op \in {"retry", "reprocess"} : Begin(r, op, j, Requeued(job[j]))
      BY <2>2 DEF Retry, Reprocess
    <3> QED
      BY <1>2, <2>2, <3>1, <3>2 DEF Retry, Reprocess
  <2>3. CASE PlaceRequest(r, j)
    <3>1. PICK s \in {"error", "done"} : Begin(r, "place", j, [job[j] EXCEPT !.status = s])
      BY <2>3 DEF PlaceRequest
    <3>2. [job[j] EXCEPT !.status = s].status \in Statuses
      BY <2>0 DEF Row, Statuses
    <3> QED
      BY <1>2, <2>3, <3>1, <3>2 DEF PlaceRequest
  <2>4. CASE Delete(r, j)
    BY <1>2, <2>4 DEF Delete
  <2> QED
    BY <1>3, <2>1, <2>2, <2>3, <2>4
<1> QED
  BY <1>1, <1>3 DEF PeopleNext

LEMMA FateRest ==
  ASSUME TypeInv, FateInv,
         (\E j \in Jobs : BackoffEnds(j)) \/ NightlyNext \/ CrashRestart
  PROVE  FateInv'
<1> USE DEF TypeInv, TypeOK, HasJob
<1>0. /\ WorkerLocks(worker.job) => worker.job \in Jobs /\ job[worker.job].status \in Statuses
      /\ \A k \in Jobs : job[k] \in Row
  BY DEF FateInv, WorkerFate, WorkerLocks, Exists
<1>1. ASSUME UNCHANGED <<txn, worker, req>>,
             \A k \in Jobs : job'[k].txn = job[k].txn,
             WorkerLocks(worker.job) => job'[worker.job].status = job[worker.job].status
      PROVE  FateInv'
  <2>1. IdsAdvance
    BY <1>1 DEF IdsAdvance
  <2> QED
    BY <1>0, <1>1, <2>1, FateMove
<1>2. ASSUME NEW j \in Jobs, BackoffEnds(j) PROVE FateInv'
  <2>1. UNCHANGED <<txn, worker, req, aging>>
        /\ \A k \in Jobs : job'[k].txn = job[k].txn /\ job'[k].status = job[k].status
    BY <1>0, <1>2 DEF BackoffEnds, Row
  <2> QED
    BY <1>0, <1>1, <2>1
<1>3. ASSUME NEW old, Expire(old) PROVE FateInv'
  <2>1. /\ UNCHANGED <<txn, worker, req>>
        /\ \A k \in Jobs : job'[k].txn = job[k].txn
        /\ \A k \in Jobs : k \notin old => job'[k] = job[k]
    BY <1>0, <1>3 DEF Expire, Row
  <2>2. WorkerLocks(worker.job) => worker.job \notin old
    BY <1>3 DEF Expire
  <2> QED
    BY <1>0, <1>1, <1>3, <2>1, <2>2
<1>4. CASE RetentionPass \/ RetentionDelete
  <2>1. PICK old : Expire(old)
    BY <1>4 DEF RetentionPass, RetentionDelete
  <2> QED
    BY <1>3, <2>1
<1>5. CASE RetentionSelect \/ StagingSweep \/ FileSweep
  <2>1. UNCHANGED <<txn, worker, req, job>>
    BY <1>5 DEF RetentionSelect, StagingSweep, FileSweep
  <2> QED
    BY <1>1, <2>1
<1>6. CASE CrashRestart
  <2>1. /\ worker'.pc \notin {"placed", "recorded"} /\ aging' = {}
        /\ \A r \in Requests : req'[r] = IdleRequest
        /\ \A k \in Jobs : job'[k].txn = job[k].txn
    BY <1>0, <1>6 DEF CrashRestart, IdleWorker, Recovered, Row
  <2>2. \A r \in Requests : RequestFate(r)' /\ req'[r].op # "delete"
    BY <2>1 DEF RequestFate, At, IdleRequest
  <2>3. IdsAdvance
    BY <1>6 DEF CrashRestart, IdsAdvance, TxnRow
  <2> QED
    BY <2>1, <2>2, <2>3, FateMove
<1> QED
  BY <1>2, <1>4, <1>5, <1>6 DEF NightlyNext

LEMMA FateStep ==
  TypeInv /\ FateInv /\ [Next]_vars => FateInv'
<1>1. CASE UNCHANGED vars
  BY <1>1 DEF vars, FateInv, OneLock, WorkerLocks, RequestLocks, WorkerFate, RequestFate,
     OwnDraft, At, NamesDecided, Exists
<1> QED
  BY <1>1, FateWorker, FateRequest, FatePeople, FateRest DEF Next

LEMMA FateCorrect == Spec => []FateInv
BY FateInit, FateStep, TypeInvariant, PTL DEF Spec

(* A transaction goes live in the commit of the read or the request that    *)
(* made it, and its job is there: the row lock a placement takes with its   *)
(* flush keeps a delete and a retention pass out until it commits, and one  *)
(* that came first leaves nothing to place (StaleDataError).                *)
THEOREM GoneCorrect == Spec => GoneJobsMakeNothing
<1> DEFINE Lives == \A t \in Txns :
               txn[t].state = "pending" /\ txn'[t].state = "live"
                 => job'[txn[t].made].status \in Statuses
<1>1. ASSUME TypeInv, FateInv, [Next]_vars, NEW t \in Txns,
             txn[t].state = "pending", txn'[t].state = "live"
      PROVE  job'[txn[t].made].status \in Statuses
  <2> USE DEF TypeInv, TypeOK, HasJob
  <2>1. CASE WorkerCommit
    <3>1. /\ txn' = Settle(worker.new.txn, "live") /\ worker.job \in Jobs
          /\ job'[worker.job].status \in {job[worker.job].status, worker.new.status}
      BY <1>1, <2>1, MergeNames DEF WorkerCommit
    <3>2. worker.new.txn = t
      BY <1>1, <3>1 DEF Settle
    <3>3. Exists(worker.job) /\ worker.new.status \in Statuses /\ OwnDraft(worker)
      BY <1>1, <2>1 DEF WorkerCommit, FateInv, WorkerFate
    <3>4. txn[t].made = worker.job
      BY <1>1, <3>2, <3>3 DEF OwnDraft
    <3> QED
      BY <3>1, <3>3, <3>4 DEF Exists
  <2>2. ASSUME NEW r \in Requests, PlaceCommit(r) PROVE job'[txn[t].made].status \in Statuses
    <3>1. /\ txn' = Settle(req[r].new.txn, "live") /\ req[r].job \in Jobs
          /\ job[req[r].job].status \in Statuses
          /\ job'[req[r].job].status \in {job[req[r].job].status, req[r].new.status}
      BY <1>1, <2>2, MergeNames DEF PlaceCommit, At, Exists
    <3>2. req[r].new.txn = t
      BY <1>1, <3>1 DEF Settle
    <3>3. req[r].new.status \in Statuses /\ OwnDraft(req[r])
      BY <1>1, <2>2 DEF PlaceCommit, FateInv, RequestFate, At
    <3>4. txn[t].made = req[r].job
      BY <1>1, <3>2, <3>3 DEF OwnDraft
    <3> QED
      BY <3>1, <3>3, <3>4
  <2>3. txn'[t].state # "live" \/ WorkerCommit \/ \E r \in Requests : PlaceCommit(r)
    <3>1. ASSUME NEW u, txn' = Settle(u, "void") PROVE txn'[t].state # "live"
      BY <1>1, <3>1 DEF Settle
    <3>2. ASSUME NEW j, NEW u, CreateIn(j, u) PROVE txn'[t].state # "live"
      BY <1>1, <3>2 DEF CreateIn
    <3>3. ASSUME txn' = txn PROVE txn'[t].state # "live"
      BY <1>1, <3>3
    <3>4. CASE WorkerNext
      BY <3>1, <3>2, <3>3, <3>4 DEF WorkerNext, Claim, Load, ReadFails, Place, PlaceLost,
         CommitFails, RecordFailure, RecordNothing, RecordLost
    <3>5. ASSUME NEW r \in Requests, RequestNext(r)
          PROVE  txn'[t].state # "live" \/ PlaceCommit(r)
      BY <3>1, <3>2, <3>3, <3>5 DEF RequestNext, SubmitCommit, Requeue, PlaceFinish,
         DeleteFlush, DeleteCommit, Abort
    <3>6. CASE PeopleNext
      BY <1>1, <3>3, <3>6 DEF PeopleNext, Submit, Retry, Reprocess, PlaceRequest, Delete,
         Approve, DeleteTxn, RestoreTxn, Live
    <3>7. CASE NightlyNext \/ \E j \in Jobs : BackoffEnds(j)
      BY <3>3, <3>7 DEF NightlyNext, BackoffEnds, RetentionPass, RetentionSelect,
         RetentionDelete, Expire, StagingSweep, FileSweep
    <3>8. CASE CrashRestart
      BY <1>1, <3>8 DEF CrashRestart
    <3>9. CASE UNCHANGED vars
      BY <3>3, <3>9 DEF vars
    <3> QED
      BY <1>1, <3>4, <3>5, <3>6, <3>7, <3>8, <3>9 DEF Next
  <2> QED
    BY <1>1, <2>1, <2>2, <2>3
<1>2. TypeInv /\ FateInv /\ [Next]_vars => [Lives]_vars
  BY <1>1
<1> QED
  BY <1>2, TypeInvariant, FateCorrect, PTL DEF Spec, GoneJobsMakeNothing

(***************************************************************************)
(* Where a photo is while nothing is lost: with one request at a time, when*)
(* neither a crash nor a failed commit falls between a handler's change to *)
(* the disk and its commit, and the staging sweep meets no submission. It  *)
(* is what FinishedPhotoCorrect rests on.                                  *)
(***************************************************************************)

(* Who has the photo when it is staged no more.                             *)
Attached(j) == \E t \in Txns : <<j, t>> \in att
WorkerUploads(j) == worker.pc \in {"placed", "recorded"} /\ Uploading(j, worker)
RequestUploads(j) == \E r \in Requests : At(r, "place", "flushed") /\ Uploading(j, req[r])
Kept(j) == j \in staged \/ Attached(j) \/ WorkerUploads(j) \/ RequestUploads(j)
             \/ RequestLocks(j)

(* An entry's photo is kept, an attachment a job names is committed, and a  *)
(* submission has staged its photo before its row is there.                 *)
EntriesKept == \A j \in Receipts : Exists(j) => Kept(j)
NamedAttached == \A j \in Jobs : job[j].att # None => <<j, job[j].att>> \in att
SubmitsStaged ==
  \A r \in Requests : req[r].op = "submit" =>
    /\ req[r].pc = "begun"
    /\ req[r].job \in Receipts => req[r].job \in staged
    /\ req[r].new.att = None

PhotoInv == EntriesKept /\ NamedAttached /\ SubmitsStaged

LEMMA PhotoInit == Init => PhotoInv
BY DEF Init, PhotoInv, EntriesKept, NamedAttached, SubmitsStaged, Exists, Statuses, NoRow,
   IdleRequest

(* A step that takes some photos out of staging, and keeps those.  A        *)
(* session that was to commit an upload or a deletion stays as it is.       *)
LEMMA PhotoMove ==
  ASSUME TypeInv, PhotoInv, NEW out,
         staged \ out \subseteq staged', att \subseteq att',
         \A i \in out \cap Receipts : job'[i].status \in Statuses => Kept(i)',
         \A j \in Jobs : /\ job'[j].att = job[j].att
                         /\ job'[j].status \in Statuses => job[j].status \in Statuses,
         worker' = worker \/ worker.pc \notin {"placed", "recorded"},
         \A r \in Requests :
           /\ req'[r] = req[r] \/ (req[r].pc # "flushed" /\ req'[r].op # "submit")
           /\ req[r].op = "submit" => req[r].job \notin out
  PROVE  PhotoInv'
<1> USE DEF TypeInv, TypeOK, HasJob
<1>1. ASSUME NEW j \in Receipts, j \notin out, job'[j].status \in Statuses PROVE Kept(j)'
  <2>1. Kept(j) /\ j \in Jobs
    BY <1>1 DEF PhotoInv, EntriesKept, Exists
  <2>2. CASE j \in staged
    BY <1>1, <2>2 DEF Kept
  <2>3. CASE Attached(j)
    BY <2>3 DEF Kept, Attached
  <2>4. CASE WorkerUploads(j)
    BY <2>4 DEF Kept, WorkerUploads, Uploading
  <2>5. CASE RequestUploads(j)
    <3>1. PICK r \in Requests : At(r, "place", "flushed") /\ Uploading(j, req[r])
      BY <2>5 DEF RequestUploads
    <3>2. req'[r] = req[r]
      BY <3>1 DEF At
    <3>3. RequestUploads(j)'
      BY <3>1, <3>2 DEF RequestUploads, At, Uploading
    <3> QED
      BY <3>3 DEF Kept
  <2>6. CASE RequestLocks(j)
    <3>1. PICK r \in Requests : req[r].op = "delete" /\ req[r].pc = "flushed"
                                  /\ req[r].job = j
      BY <2>6 DEF RequestLocks
    <3>2. req'[r] = req[r]
      BY <3>1
    <3>3. RequestLocks(j)'
      BY <3>1, <3>2 DEF RequestLocks
    <3> QED
      BY <3>3 DEF Kept
  <2> QED
    BY <2>1, <2>2, <2>3, <2>4, <2>5, <2>6 DEF Kept
<1>2. \A j \in Receipts : job'[j].status \in Statuses => Kept(j)'
  BY <1>1
<1>3. EntriesKept'
  BY <1>2 DEF EntriesKept, Exists
<1>4. NamedAttached'
  BY DEF PhotoInv, NamedAttached
<1>5. SubmitsStaged'
  <2>1. ASSUME NEW r \in Requests, req'[r].op = "submit"
        PROVE  /\ req'[r].pc = "begun"
               /\ req'[r].job \in Receipts => req'[r].job \in staged'
               /\ req'[r].new.att = None
    <3>1. req'[r] = req[r] /\ req[r].job \notin out
      BY <2>1
    <3>2. /\ req[r].pc = "begun"
          /\ req[r].job \in Receipts => req[r].job \in staged
          /\ req[r].new.att = None
      BY <2>1, <3>1 DEF PhotoInv, SubmitsStaged
    <3> QED
      BY <3>1, <3>2
  <2> QED
    BY <2>1 DEF SubmitsStaged
<1> QED
  BY <1>3, <1>4, <1>5 DEF PhotoInv

(* A step that takes none.                                                  *)
LEMMA PhotoQuiet ==
  ASSUME TypeInv, PhotoInv, staged \subseteq staged', att \subseteq att',
         \A j \in Jobs : /\ job'[j].att = job[j].att
                         /\ job'[j].status \in Statuses => job[j].status \in Statuses,
         worker' = worker \/ worker.pc \notin {"placed", "recorded"},
         \A r \in Requests :
           req'[r] = req[r] \/ (req[r].pc # "flushed" /\ req'[r].op # "submit")
  PROVE  PhotoInv'
<1> DEFINE none == {}
<1>1. /\ staged \ none \subseteq staged'
      /\ \A i \in none \cap Receipts : job'[i].status \in Statuses => Kept(i)'
      /\ \A r \in Requests :
           /\ req'[r] = req[r] \/ (req[r].pc # "flushed" /\ req'[r].op # "submit")
           /\ req[r].op = "submit" => req[r].job \notin none
  OBVIOUS
<1> HIDE DEF none
<1> QED
  BY <1>1, PhotoMove

(* A session commits a job and what it uploaded for it.                     *)
LEMMA PhotoCommit ==
  ASSUME TypeInv, PhotoInv, NEW i \in Jobs, NEW n \in Txns \cup {None},
         Exists(i), job'[i].att = n,
         \A k \in Jobs : k # i => job'[k] = job[k],
         staged' = staged, att \subseteq att', n # None => <<i, n>> \in att',
         \/ worker' = worker
         \/ worker.job = i /\ (Uploading(i, worker) => worker.new.att = n),
         \A r \in Requests :
           \/ req'[r] = req[r]
           \/ /\ req[r].op = "place" /\ req[r].job = i /\ req'[r] = IdleRequest
              /\ Uploading(i, req[r]) => req[r].new.att = n
  PROVE  PhotoInv'
<1> USE DEF TypeInv, TypeOK, HasJob, Exists
<1>1. ASSUME NEW j \in Receipts, job'[j].status \in Statuses PROVE Kept(j)'
  <2>1. Kept(j)
    BY <1>1 DEF PhotoInv, EntriesKept, Exists
  <2>2. CASE j \in staged
    BY <2>2 DEF Kept
  <2>3. CASE Attached(j)
    BY <2>3 DEF Kept, Attached
  <2>4. CASE WorkerUploads(j)
    <3>1. CASE worker' = worker
      BY <2>4, <3>1 DEF Kept, WorkerUploads, Uploading
    <3>2. CASE worker' # worker
      BY <2>4, <3>2 DEF Kept, WorkerUploads, Uploading, Attached
    <3> QED
      BY <3>1, <3>2
  <2>5. CASE RequestUploads(j)
    <3>1. PICK r \in Requests : At(r, "place", "flushed") /\ Uploading(j, req[r])
      BY <2>5 DEF RequestUploads
    <3>2. CASE req'[r] = req[r]
      BY <3>1, <3>2 DEF Kept, RequestUploads, At, Uploading
    <3>3. CASE req'[r] # req[r]
      BY <3>1, <3>3 DEF Kept, Attached, Uploading
    <3> QED
      BY <3>2, <3>3
  <2>6. CASE RequestLocks(j)
    <3>1. PICK r \in Requests : req[r].op = "delete" /\ req[r].pc = "flushed"
                                  /\ req[r].job = j
      BY <2>6 DEF RequestLocks
    <3>2. req'[r] = req[r]
      BY <3>1
    <3> QED
      BY <3>1, <3>2 DEF Kept, RequestLocks
  <2> QED
    BY <2>1, <2>2, <2>3, <2>4, <2>5, <2>6 DEF Kept
<1>2. EntriesKept'
  BY <1>1 DEF EntriesKept
<1>3. NamedAttached'
  BY DEF PhotoInv, NamedAttached
<1>4. SubmitsStaged'
  BY DEF PhotoInv, SubmitsStaged, IdleRequest
<1> QED
  BY <1>2, <1>3, <1>4 DEF PhotoInv

(* Over the row it was loaded from, a session's attachment is what commits. *)
LEMMA MergeAttachment ==
  ASSUME NEW old \in Row, NEW new \in Row PROVE Merge(old, old, new).att = new.att
BY DEF Merge, Changed

LEMMA PhotoWorker ==
  ASSUME "commit" \notin Windows, TypeInv, TypeInv', SerialInv, PhotoInv, WorkerNext
  PROVE  PhotoInv'
<1> PICK j : j = worker.job
  OBVIOUS
<1> USE DEF TypeInv, TypeOK, HasJob, Exists
<1>0. worker \in Worker
  OBVIOUS
<1>1. ASSUME NEW k \in Jobs, Claim(k) PROVE PhotoInv'
  <2>1. /\ UNCHANGED <<staged, att, req>> /\ worker.pc = "idle"
        /\ \A i \in Jobs :
             /\ job'[i].att = job[i].att
             /\ job'[i].status \in Statuses => job[i].status \in Statuses
    BY <1>1 DEF Claim, Claimable, Exists, Statuses, Row
  <2> QED
    BY <2>1, PhotoQuiet
<1>2. CASE Load \/ ReadFails \/ PlaceLost \/ RecordNothing \/ CommitFails \/ RecordLost
  <2>1. UNCHANGED <<staged, att, req, job>> /\ worker.pc \notin {"placed", "recorded"}
    BY <1>2 DEF Load, ReadFails, PlaceLost, RecordNothing, CommitFails, RecordLost
  <2> QED
    BY <2>1, PhotoQuiet
<1>3. ASSUME j \in Jobs, Exists(j), worker.pc \in {"reading", "failed"},
             UNCHANGED <<att, req, job>>, staged \ {j} \subseteq staged',
             \/ job[j].att # None
             \/ j \in staged'
             \/ j \notin staged
             \/ worker'.pc \in {"placed", "recorded"} /\ Uploading(j, worker')
      PROVE  PhotoInv'
  <2>1. ASSUME j \in Receipts PROVE Kept(j)'
    <3>1. Kept(j)
      BY <1>3, <2>1 DEF PhotoInv, EntriesKept
    <3>2. ~WorkerUploads(j)
      BY <1>3 DEF WorkerUploads
    <3>3. CASE job[j].att # None
      <4>1. job[j].att \in Txns /\ <<j, job[j].att>> \in att
        BY <1>3, <3>3 DEF PhotoInv, NamedAttached, Row
      <4> QED
        BY <1>3, <4>1 DEF Kept, Attached
    <3>4. CASE j \in staged'
      BY <3>4 DEF Kept
    <3>5. CASE j \notin staged
      BY <1>3, <3>1, <3>2, <3>5 DEF Kept, Attached, RequestUploads, RequestLocks, At,
         Uploading
    <3>6. CASE worker'.pc \in {"placed", "recorded"} /\ Uploading(j, worker')
      BY <3>6 DEF Kept, WorkerUploads, Uploading
    <3> QED
      BY <1>3, <3>3, <3>4, <3>5, <3>6
  <2>2. \A r \in Requests : req[r].op = "submit" => req[r].job # j
    BY <1>3 DEF SerialInv, RequestFresh, FreshRequest, Exists, Statuses
  <2> DEFINE out == {j}
  <2>3. /\ staged \ out \subseteq staged' /\ att \subseteq att'
        /\ \A k \in out \cap Receipts : job'[k].status \in Statuses => Kept(k)'
        /\ \A k \in Jobs : /\ job'[k].att = job[k].att
                           /\ job'[k].status \in Statuses => job[k].status \in Statuses
        /\ worker' = worker \/ worker.pc \notin {"placed", "recorded"}
        /\ \A q \in Requests :
             /\ req'[q] = req[q] \/ (req[q].pc # "flushed" /\ req'[q].op # "submit")
             /\ req[q].op = "submit" => req[q].job \notin out
    BY <1>3, <2>1, <2>2
  <2> HIDE DEF out
  <2> QED
    BY <2>3, PhotoMove
<1>4. CASE Place
  <2>0. /\ worker.pc = "reading" /\ j \in Jobs /\ Exists(j) /\ worker.snap = job[j]
        /\ job[j] \in Row /\ UNCHANGED <<att, req, job>>
    BY <1>4 DEF Place, SerialInv, WorkerFresh
  <2>1. Started \in Row /\ (job[j].att = None => Started.att = None)
    <3>1. CASE Live(job[j].txn)
      BY <2>0, <3>1 DEF Started, Live
    <3>2. CASE ~Live(job[j].txn)
      BY <2>0, <3>2 DEF Started, Row
    <3> QED
      BY <3>1, <3>2
  <2>2. ASSUME NEW t \in Txns, PlaceOn(j, t) PROVE PhotoInv'
    <3>1. /\ Placed(Started, j, t) \in Row
          /\ Started.att = None /\ j \in Receipts => Placed(Started, j, t).att = t
      BY <2>1 DEF Placed, Row, Statuses
    <3>2. /\ worker'.pc = "placed" /\ worker'.job = j /\ worker'.snap = job[j]
          /\ worker'.new = Placed(Started, j, t) /\ staged' = staged \ {j}
      BY <1>0, <2>0, <2>2 DEF PlaceOn, Worker
    <3>3. job[j].att = None /\ j \in Receipts => Uploading(j, worker')
      BY <2>1, <3>1, <3>2 DEF Uploading
    <3> QED
      BY <1>3, <2>0, <3>2, <3>3
  <2>3. CASE staged' = staged
    BY <1>3, <2>0, <2>3
  <2> QED
    BY <1>4, <2>1, <2>2, <2>3 DEF Place, Row
<1>5. CASE WorkerCommit
  <2>1. /\ j \in Jobs /\ worker.snap = job[j] /\ job[j] \in Row /\ worker.new \in Row
        /\ Exists(j) /\ UNCHANGED <<req, staged>> /\ att' = att \cup Stored(j, worker)
    BY <1>0, <1>5 DEF WorkerCommit, SerialInv, WorkerFresh, Verdict, Exists, Statuses, Worker
  <2>2. /\ job'[j].att = worker.new.att
        /\ \A k \in Jobs : k # j => job'[k] = job[k]
    BY <1>5, <2>1, MergeAttachment DEF WorkerCommit
  <2>3. worker.new.att \in Txns \cup {None}
    BY <2>1 DEF Row
  <2>4. worker.new.att # None => <<j, worker.new.att>> \in att'
    BY <2>1 DEF PhotoInv, NamedAttached, Stored
  <2> QED
    BY <2>1, <2>2, <2>3, <2>4, PhotoCommit
<1>6. CASE RecordFailure
  <2> DEFINE Ends(new) == worker' = [worker EXCEPT !.pc = "recorded",
                            !.snap = job[j], !.new = [new EXCEPT !.err = TRUE]]
  <2>0. /\ worker.pc = "failed" /\ j \in Jobs /\ Exists(j) /\ job[j] \in Row
        /\ UNCHANGED <<att, req, job>>
    BY <1>0, <1>6 DEF RecordFailure
  <2>1. CASE staged' = staged
    BY <1>3, <2>0, <2>1
  <2>2. ASSUME NEW t \in Txns,
               Ends([job[j] EXCEPT !.status = "error", !.txn = t,
                !.att = IF job[j].att = None /\ StubPhoto(j) THEN t ELSE @]),
               staged' = IF job[j].legible THEN staged \ {j} ELSE staged
        PROVE  PhotoInv'
    <3> DEFINE new == [job[j] EXCEPT !.status = "error", !.txn = t,
                !.att = IF job[j].att = None /\ StubPhoto(j) THEN t ELSE @]
    <3>1. new \in Row /\ (job[j].att = None /\ StubPhoto(j) => new.att = t)
      BY <2>0 DEF Row, Statuses
    <3> HIDE DEF new
    <3>2. /\ worker'.pc = "recorded" /\ worker'.job = j /\ worker'.snap = job[j]
          /\ worker'.new.att = new.att
      <4>1. Ends(new)
        BY <2>2 DEF new
      <4> QED
        BY <1>0, <2>0, <3>1, <4>1 DEF Worker, Row
    <3>3. job[j].att = None /\ StubPhoto(j) => Uploading(j, worker')
      BY <3>1, <3>2 DEF Uploading
    <3>4. j \in staged /\ j \notin staged' => StubPhoto(j)
      BY <2>2 DEF StubPhoto
    <3> QED
      BY <1>3, <2>0, <2>2, <3>2, <3>3, <3>4
  <2> QED
    BY <1>6, <2>1, <2>2 DEF RecordFailure
<1> QED
  BY <1>1, <1>2, <1>4, <1>5, <1>6 DEF WorkerNext

LEMMA PhotoRequest ==
  ASSUME "commit" \notin Windows, SerialRequests, TypeInv, SerialInv, PhotoInv,
         NEW r \in Requests, RequestNext(r)
  PROVE  PhotoInv'
<1> PICK j : j = req[r].job
  OBVIOUS
<1> USE DEF TypeInv, TypeOK, HasJob, Exists
<1>0. req[r] \in Request /\ \A q \in Requests : q = r
  BY DEF SerialRequests
<1>1. ASSUME j \in Receipts => j \in staged, NEW n, n = None,
             j \in Jobs, job'[j].att = n,
             \A k \in Jobs : k # j => job'[k] = job[k],
             UNCHANGED <<staged, att, worker>>, req' = [req EXCEPT ![r] = IdleRequest],
             req[r].pc # "flushed"
      PROVE  PhotoInv'
  <2>1. ASSUME NEW k \in Receipts, k # j, job'[k].status \in Statuses PROVE Kept(k)'
    <3>1. Kept(k) /\ ~RequestUploads(k) /\ ~RequestLocks(k)
      BY <1>0, <1>1, <2>1 DEF PhotoInv, EntriesKept, Exists, RequestUploads, RequestLocks, At
    <3> QED
      BY <1>1, <3>1 DEF Kept, Attached, WorkerUploads, Uploading
  <2>2. EntriesKept'
    BY <1>1, <2>1 DEF EntriesKept, Kept
  <2>3. NamedAttached' /\ SubmitsStaged'
    BY <1>0, <1>1 DEF PhotoInv, NamedAttached, SubmitsStaged, IdleRequest
  <2> QED
    BY <2>2, <2>3 DEF PhotoInv
<1>2. CASE SubmitCommit(r)
  <2>1. /\ req[r].op = "submit" /\ req[r].pc = "begun" /\ req[r].new \in Row /\ j \in Jobs
        /\ UNCHANGED <<staged, att, worker>> /\ req' = [req EXCEPT ![r] = IdleRequest]
    BY <1>0, <1>2 DEF SubmitCommit, At, Request
  <2>2. job'[j].att = req[r].new.att /\ \A k \in Jobs : k # j => job'[k] = job[k]
    BY <1>2, <2>1 DEF SubmitCommit, Row
  <2>3. req[r].new.att = None /\ (j \in Receipts => j \in staged)
    BY <2>1 DEF PhotoInv, SubmitsStaged
  <2> QED
    BY <1>1, <2>1, <2>2, <2>3
<1>3. CASE Requeue(r)
  <2>1. /\ j \in Jobs /\ job[j] \in Row /\ req[r].new \in Row
        /\ req[r].snap = job[j] /\ req[r].new = Requeued(job[j]) /\ Exists(j)
        /\ UNCHANGED <<staged, att, worker>> /\ req' = [req EXCEPT ![r] = IdleRequest]
        /\ req[r].pc = "begun"
    BY <1>0, <1>3 DEF Requeue, At, SerialInv, RequestFresh, FreshRequest, Request
  <2>2. /\ job'[j] = Merge(job[j], job[j], req[r].new)
        /\ \A k \in Jobs : k # j => job'[k] = job[k]
    BY <1>3, <2>1 DEF Requeue
  <2>3. req[r].new.att = job[j].att
    BY <2>1 DEF Requeued, Row
  <2>4. job'[j].att = job[j].att
    BY <2>1, <2>2, <2>3, MergeAttachment
  <2> QED
    BY <2>1, <2>2, <2>4, PhotoQuiet DEF IdleRequest, Exists
<1>4. CASE PlaceFinish(r)
  <2>1. /\ req[r].op = "place" /\ req[r].pc = "begun" /\ j \in Jobs
        /\ UNCHANGED <<job, att, worker>> /\ staged' = staged \ {j}
    BY <1>4 DEF PlaceFinish, At
  <2>2. PICK t \in Txns : req' = [req EXCEPT ![r] = Filed(@, t)]
    BY <1>4 DEF PlaceFinish
  <2>3. /\ req'[r].op = "place" /\ req'[r].pc = "flushed" /\ req'[r].job = j
        /\ req'[r].snap = req[r].snap
        /\ req[r].snap.att = None /\ j \in Receipts => req'[r].new.att = t
    BY <1>0, <2>1, <2>2 DEF Filed, Request, Row
  <2>4. ASSUME j \in Receipts, Exists(j) PROVE Kept(j)'
    <3>1. req[r].snap = job[j] /\ job[j].att \in Txns \cup {None}
      BY <2>1, <2>4 DEF SerialInv, RequestFresh, FreshRequest, Row
    <3>2. CASE job[j].att = None
      BY <2>3, <2>4, <3>1, <3>2 DEF Kept, RequestUploads, At, Uploading
    <3>3. CASE job[j].att # None
      BY <2>1, <3>1, <3>3 DEF Kept, Attached, PhotoInv, NamedAttached
    <3> QED
      BY <3>2, <3>3
  <2> DEFINE out == {j}
  <2>5. /\ staged \ out \subseteq staged' /\ att \subseteq att'
        /\ \A k \in out \cap Receipts : job'[k].status \in Statuses => Kept(k)'
        /\ \A k \in Jobs : /\ job'[k].att = job[k].att
                           /\ job'[k].status \in Statuses => job[k].status \in Statuses
        /\ worker' = worker \/ worker.pc \notin {"placed", "recorded"}
        /\ \A q \in Requests :
             /\ req'[q] = req[q] \/ (req[q].pc # "flushed" /\ req'[q].op # "submit")
             /\ req[q].op = "submit" => req[q].job \notin out
    BY <1>0, <2>1, <2>3, <2>4
  <2> HIDE DEF out
  <2> QED
    BY <2>5, PhotoMove
<1>5. CASE PlaceCommit(r)
  <2>1. /\ req[r].op = "place" /\ req[r].pc = "flushed" /\ j \in Jobs /\ job[j] \in Row
        /\ req[r].new \in Row /\ req[r].snap = job[j] /\ Exists(j)
        /\ UNCHANGED <<staged, worker>> /\ req' = [req EXCEPT ![r] = IdleRequest]
        /\ att' = att \cup Stored(j, req[r])
    BY <1>0, <1>5 DEF PlaceCommit, At, SerialInv, RequestFresh, FreshRequest, Request
  <2>2. /\ job'[j] = Merge(job[j], job[j], req[r].new)
        /\ \A k \in Jobs : k # j => job'[k] = job[k]
    BY <1>5, <2>1 DEF PlaceCommit
  <2>3. job'[j].att = req[r].new.att /\ req[r].new.att \in Txns \cup {None}
    BY <2>1, <2>2, MergeAttachment DEF Row
  <2>4. req[r].new.att # None => <<j, req[r].new.att>> \in att'
    BY <2>1 DEF PhotoInv, NamedAttached, Stored
  <2> PICK n \in Txns \cup {None} : n = req[r].new.att
    BY <2>3
  <2>5. /\ job'[j].att = n /\ (n # None => <<j, n>> \in att')
        /\ staged' = staged /\ att \subseteq att' /\ worker' = worker
    BY <2>1, <2>3, <2>4
  <2>6. \A q \in Requests :
          \/ req'[q] = req[q]
          \/ /\ req[q].op = "place" /\ req[q].job = j /\ req'[q] = IdleRequest
             /\ Uploading(j, req[q]) => req[q].new.att = n
    BY <2>1
  <2> QED
    BY <2>1, <2>2, <2>5, <2>6, PhotoCommit
<1>6. CASE DeleteFlush(r)
  <2>1. /\ req[r].op = "delete" /\ req[r].pc = "begun" /\ j \in Jobs
        /\ UNCHANGED <<job, att, worker>> /\ staged' = staged \ {j}
        /\ req' = [req EXCEPT ![r].pc = "flushed"]
    BY <1>6 DEF DeleteFlush, At
  <2>2. req'[r].op = "delete" /\ req'[r].pc = "flushed" /\ req'[r].job = j
    BY <1>0, <2>1 DEF Request
  <2>3. Kept(j)'
    BY <2>2 DEF Kept, RequestLocks
  <2> DEFINE out == {j}
  <2>4. /\ staged \ out \subseteq staged' /\ att \subseteq att'
        /\ \A k \in out \cap Receipts : job'[k].status \in Statuses => Kept(k)'
        /\ \A k \in Jobs : /\ job'[k].att = job[k].att
                           /\ job'[k].status \in Statuses => job[k].status \in Statuses
        /\ worker' = worker \/ worker.pc \notin {"placed", "recorded"}
        /\ \A q \in Requests :
             /\ req'[q] = req[q] \/ (req[q].pc # "flushed" /\ req'[q].op # "submit")
             /\ req[q].op = "submit" => req[q].job \notin out
    BY <1>0, <2>1, <2>2, <2>3
  <2> HIDE DEF out
  <2> QED
    BY <2>4, PhotoMove
<1>7. ASSUME j \in Jobs, job'[j].status \notin Statuses, req[r].op # "submit",
             \A k \in Jobs : /\ job'[k].att = job[k].att
                             /\ job'[k].status \in Statuses => job[k].status \in Statuses,
             UNCHANGED <<staged, att, worker>>, req' = [req EXCEPT ![r] = IdleRequest]
      PROVE  PhotoInv'
  <2>1. ASSUME NEW k \in Receipts, job'[k].status \in Statuses PROVE Kept(k)'
    <3>1. Kept(k) /\ k # j
      BY <1>7, <2>1 DEF PhotoInv, EntriesKept
    <3>2. ~RequestUploads(k) /\ ~RequestLocks(k)
      BY <1>0, <3>1 DEF RequestUploads, RequestLocks, Uploading
    <3> QED
      BY <1>7, <3>1, <3>2 DEF Kept, Attached, WorkerUploads, Uploading
  <2>2. EntriesKept'
    BY <2>1 DEF EntriesKept
  <2>3. NamedAttached' /\ SubmitsStaged'
    BY <1>0, <1>7 DEF PhotoInv, NamedAttached, SubmitsStaged, IdleRequest
  <2> QED
    BY <2>2, <2>3 DEF PhotoInv
<1>8. CASE DeleteCommit(r)
  <2>1. /\ req[r].op = "delete" /\ j \in Jobs /\ job[j] \in Row
        /\ UNCHANGED <<staged, att, worker>> /\ req' = [req EXCEPT ![r] = IdleRequest]
        /\ job' = [job EXCEPT ![j].status = "deleted"]
    BY <1>8 DEF DeleteCommit, At
  <2>2. /\ job'[j].status \notin Statuses
        /\ \A k \in Jobs :
             /\ job'[k].att = job[k].att
             /\ job'[k].status \in Statuses => job[k].status \in Statuses
    BY <2>1 DEF Exists, Statuses, Row
  <2> QED
    BY <1>7, <2>1, <2>2
<1>9. CASE Abort(r)
  <2>1. /\ UNCHANGED <<job, staged, att, worker>> /\ req' = [req EXCEPT ![r] = IdleRequest]
    BY <1>9 DEF Abort
  <2>2. CASE req[r].op \notin {"none", "submit"} /\ ~Exists(j)
    <3>1. j \in Jobs
      BY <2>2 DEF SerialInv, RequestFresh, FreshRequest
    <3> QED
      BY <1>7, <2>1, <2>2, <3>1 DEF Exists
  <2>3. CASE req[r].pc = "begun"
    BY <2>1, <2>3, PhotoQuiet DEF IdleRequest, Exists
  <2> QED
    BY <1>9, <2>2, <2>3 DEF Abort, At
<1> QED
  BY <1>2, <1>3, <1>4, <1>5, <1>6, <1>8, <1>9 DEF RequestNext

LEMMA PhotoPeople ==
  ASSUME TypeInv, PhotoInv, PeopleNext PROVE PhotoInv'
<1> USE DEF TypeInv, TypeOK, HasJob, Exists
<1>1. ASSUME NEW t \in Txns, Approve(t) \/ DeleteTxn(t) \/ RestoreTxn(t) PROVE PhotoInv'
  <2>1. UNCHANGED <<job, att, staged, worker, req>>
    BY <1>1 DEF Approve, DeleteTxn, RestoreTxn
  <2> QED
    BY <2>1, PhotoQuiet
<1>2. ASSUME NEW r \in Requests, NEW j \in Jobs, Submit(r, j) PROVE PhotoInv'
  <2>1. \A acct, legible \in BOOLEAN :
          [NoRow EXCEPT !.status = "queued", !.due = TRUE,
             !.acct = acct, !.legible = legible].att = None
    BY DEF NoRow
  <2>2. PICK new : Begin(r, "submit", j, new) /\ new.att = None
    BY <1>2, <2>1 DEF Submit
  <2>3. /\ UNCHANGED <<job, att, worker>> /\ staged' = staged \cup ({j} \cap Receipts)
    BY <1>2 DEF Submit
  <2>4. /\ req[r].pc = "idle" /\ req'[r].op = "submit" /\ req'[r].job = j
        /\ req'[r].pc = "begun"
        /\ req'[r].new.att = None
        /\ \A q \in Requests : q # r => req'[q] = req[q]
    BY <2>2 DEF Begin
  <2>5. ASSUME NEW k \in Receipts, job'[k].status \in Statuses PROVE Kept(k)'
    <3>1. Kept(k)
      BY <2>3, <2>5 DEF PhotoInv, EntriesKept, Exists
    <3>2. RequestUploads(k) => RequestUploads(k)'
      BY <2>4 DEF RequestUploads, At, Uploading
    <3>3. RequestLocks(k) => RequestLocks(k)'
      BY <2>4 DEF RequestLocks
    <3> QED
      BY <2>3, <3>1, <3>2, <3>3 DEF Kept, Attached, WorkerUploads, Uploading
  <2>6. EntriesKept'
    BY <2>5 DEF EntriesKept
  <2>7. NamedAttached' /\ SubmitsStaged'
    BY <2>3, <2>4 DEF PhotoInv, NamedAttached, SubmitsStaged
  <2> QED
    BY <2>6, <2>7 DEF PhotoInv
<1>3. ASSUME NEW r \in Requests, NEW j \in Jobs,
             Retry(r, j) \/ Reprocess(r, j) \/ PlaceRequest(r, j) \/ Delete(r, j)
      PROVE  PhotoInv'
  <2>1. PICK op, new : Begin(r, op, j, new) /\ op # "submit"
                         /\ UNCHANGED <<job, att, staged, worker>>
    BY <1>3 DEF Retry, Reprocess, PlaceRequest, Delete
  <2>2. \A q \in Requests :
           req'[q] = req[q] \/ (req[q].pc # "flushed" /\ req'[q].op # "submit")
    BY <2>1 DEF Begin
  <2> QED
    BY <2>1, <2>2, PhotoQuiet DEF Exists
<1> QED
  BY <1>1, <1>2, <1>3 DEF PeopleNext

LEMMA PhotoRest ==
  ASSUME "commit" \notin Windows, "sweep" \notin Windows, TypeInv, SerialInv, PhotoInv,
         (\E j \in Jobs : BackoffEnds(j)) \/ NightlyNext \/ CrashRestart
  PROVE  PhotoInv'
<1> USE DEF TypeInv, TypeOK, HasJob, Exists
<1>1. ASSUME NEW j \in Jobs, BackoffEnds(j) PROVE PhotoInv'
  <2>1. /\ UNCHANGED <<att, staged, worker, req>>
        /\ \A k \in Jobs : job'[k].att = job[k].att /\ job'[k].status = job[k].status
    BY <1>1 DEF BackoffEnds, Row
  <2> QED
    BY <2>1, PhotoQuiet
<1>2. ASSUME staged' \subseteq staged, att' = att, UNCHANGED <<worker, req>>,
             \A k \in Jobs : /\ job'[k].att = job[k].att
                             /\ job'[k].status \in Statuses => job[k].status \in Statuses,
             \A k \in Receipts : k \in staged /\ k \notin staged' =>
                job'[k].status \notin Statuses /\ ~Submitting(k)
      PROVE  PhotoInv'
  <2>1. ASSUME NEW k \in Receipts, job'[k].status \in Statuses PROVE Kept(k)'
    <3>1. Kept(k) /\ (k \in staged => k \in staged')
      BY <1>2, <2>1 DEF PhotoInv, EntriesKept
    <3>2. /\ Attached(k) => Attached(k)'
          /\ WorkerUploads(k) => WorkerUploads(k)'
          /\ RequestUploads(k) => RequestUploads(k)'
          /\ RequestLocks(k) => RequestLocks(k)'
      BY <1>2 DEF Attached, WorkerUploads, Uploading, RequestUploads, At, RequestLocks
    <3> QED
      BY <3>1, <3>2 DEF Kept
  <2>2. EntriesKept' /\ NamedAttached'
    BY <1>2, <2>1 DEF PhotoInv, EntriesKept, NamedAttached
  <2>3. SubmitsStaged'
    <3>1. ASSUME NEW r \in Requests, req[r].op = "submit", req[r].job \in Receipts
          PROVE  req[r].job \in staged'
      <4>1. Submitting(req[r].job) /\ req[r].job \in staged
        BY <3>1 DEF PhotoInv, SubmitsStaged, Submitting, At
      <4> QED
        BY <1>2, <3>1, <4>1
    <3> QED
      BY <1>2, <3>1 DEF PhotoInv, SubmitsStaged
  <2> QED
    BY <2>2, <2>3 DEF PhotoInv
<1>3. ASSUME NEW old \in SUBSET Jobs, Expire(old), \A k \in old : job[k].status # "absent"
      PROVE  PhotoInv'
  <2>1. /\ UNCHANGED <<att, worker, req>> /\ staged' = staged \ old
        /\ \A k \in Jobs :
             /\ job'[k].att = job[k].att
             /\ job'[k].status \in Statuses => job[k].status \in Statuses
        /\ \A k \in old : job'[k].status \notin Statuses
    BY <1>3 DEF Expire, Exists, Statuses, Row
  <2>2. \A k \in old : ~Submitting(k)
    BY <1>3 DEF Submitting, At, SerialInv, RequestFresh, FreshRequest
  <2> QED
    BY <1>2, <2>1, <2>2
<1>4. CASE RetentionPass
  <2>1. PICK old \in SUBSET {j \in Jobs : Expirable(j)} : Expire(old)
    BY <1>4 DEF RetentionPass
  <2>2. old \in SUBSET Jobs /\ \A k \in old : job[k].status # "absent"
    BY DEF Expirable
  <2> QED
    BY <1>3, <2>1, <2>2
<1>5. CASE RetentionDelete
  BY <1>3, <1>5 DEF RetentionDelete, SerialInv, AgingExists
<1>6. CASE RetentionSelect \/ FileSweep
  <2>1. UNCHANGED <<job, att, staged, worker, req>>
    BY <1>6 DEF RetentionSelect, FileSweep
  <2> QED
    BY <2>1, PhotoQuiet
<1>7. CASE StagingSweep
  BY <1>2, <1>7 DEF StagingSweep, Orphans, Exists
<1>8. CASE CrashRestart
  <2>1. /\ UNCHANGED <<att, staged>> /\ worker' = IdleWorker
        /\ req' = [q \in Requests |-> IdleRequest]
        /\ \A k \in Jobs :
             /\ job'[k].att = job[k].att
             /\ job'[k].status \in Statuses => job[k].status \in Statuses
    BY <1>8 DEF CrashRestart, Recovered, Exists, Statuses, Row
  <2>2. /\ \A k \in Jobs : ~Uploading(k, worker)
        /\ \A r \in Requests : req[r].pc # "flushed"
    BY <1>8 DEF CrashRestart, DiskAhead
  <2>3. ASSUME NEW k \in Receipts, job'[k].status \in Statuses PROVE Kept(k)'
    <3>1. k \in staged \/ Attached(k)
      BY <2>1, <2>2, <2>3 DEF PhotoInv, EntriesKept, Kept, WorkerUploads, RequestUploads,
         RequestLocks, At
    <3> QED
      BY <2>1, <3>1 DEF Kept, Attached
  <2>4. EntriesKept' /\ NamedAttached' /\ SubmitsStaged'
    BY <2>1, <2>3 DEF PhotoInv, EntriesKept, NamedAttached, SubmitsStaged, IdleRequest
  <2> QED
    BY <2>4 DEF PhotoInv
<1> QED
  BY <1>1, <1>4, <1>5, <1>6, <1>7, <1>8 DEF NightlyNext

LEMMA PhotoInvariant ==
  ASSUME SerialRequests, "commit" \notin Windows, "sweep" \notin Windows
  PROVE  Spec => []PhotoInv
<1>1. TypeInv /\ TypeInv' /\ SerialInv /\ PhotoInv /\ [Next]_vars => PhotoInv'
  <2>1. CASE UNCHANGED vars
    BY <2>1 DEF vars, PhotoInv, EntriesKept, NamedAttached, SubmitsStaged, Exists, Kept,
       Attached, WorkerUploads, RequestUploads, RequestLocks, At, Uploading
  <2> QED
    BY <2>1, PhotoWorker, PhotoRequest, PhotoPeople, PhotoRest DEF Next
<1> QED
  BY <1>1, PhotoInit, TypeInvariant, SerialCorrect, PTL DEF Spec

----------------------------------------------------------------------------
(* A finished receipt has its photo (AIJobs!FinishedHasPhoto): whoever      *)
(* names a transaction for a photo that decodes has attached it, and one    *)
(* who finds nothing attached finds it staged. For a stub that needs an     *)
(* entry with an account never to wait with its photo on an old attachment: *)
(* Started forgets the attachment only to make another.                     *)
HasItsPhoto(j, row) == j \in Receipts /\ row.txn # None => row.att # None
RowFiled(j) ==
  /\ job[j].legible => HasItsPhoto(j, job[j])
  /\ j \in Receipts /\ Attached(j) =>
       job[j].status # "absent" /\ (job[j].acct => job[j].att # None)
WorkerFiles ==
  worker.pc \in {"placed", "recorded"} =>
    /\ job[worker.job].legible => HasItsPhoto(worker.job, worker.new)
    /\ worker.job \in Receipts /\ job[worker.job].acct /\ job[worker.job].att # None
         => worker.new.att # None
RequestFiles(r) ==
  /\ req[r].op = "submit" => req[r].new.txn = None
  /\ At(r, "place", "begun") => req[r].new.att = req[r].snap.att
  /\ At(r, "place", "flushed") /\ req[r].job \in Receipts => req[r].new.att # None
FiledInv == /\ \A j \in Jobs : RowFiled(j)
            /\ WorkerFiles
            /\ \A r \in Requests : RequestFiles(r)

LEMMA FiledInit == Init => FiledInv
BY DEF Init, FiledInv, RowFiled, WorkerFiles, RequestFiles, HasItsPhoto, At, NoRow,
   IdleWorker, IdleRequest, Attached

(* The columns of a row the invariant reads stay.                           *)
RowStays(j) == /\ job'[j].txn = job[j].txn /\ job'[j].att = job[j].att
               /\ job'[j].legible => job[j].legible
               /\ job'[j].acct => job[j].acct
               /\ job'[j].status = "absent" => job[j].status = "absent"

LEMMA FiledMove ==
  ASSUME TypeInv, FiledInv,
         \A j \in Jobs : (RowStays(j) /\ (Attached(j)' => Attached(j))) \/ RowFiled(j)',
         \/ worker'.pc \notin {"placed", "recorded"}
         \/ worker' = worker /\ (worker.job \in Jobs => RowStays(worker.job))
         \/ WorkerFiles',
         \A r \in Requests : req'[r] = req[r] \/ RequestFiles(r)'
  PROVE  FiledInv'
<1>1. ASSUME NEW j \in Jobs PROVE RowFiled(j)'
  <2>1. CASE RowStays(j) /\ (Attached(j)' => Attached(j))
    BY <2>1 DEF FiledInv, RowFiled, RowStays, HasItsPhoto
  <2> QED
    BY <2>1
<1>2. WorkerFiles'
  <2>1. CASE worker' = worker /\ worker.pc \in {"placed", "recorded"}
               /\ (worker.job \in Jobs => RowStays(worker.job))
    <3>1. worker.job \in Jobs
      BY <2>1 DEF TypeInv, HasJob
    <3> QED
      BY <2>1, <3>1 DEF FiledInv, WorkerFiles, RowStays, HasItsPhoto
  <2> QED
    BY <2>1 DEF WorkerFiles
<1>3. \A r \in Requests : RequestFiles(r)'
  BY DEF FiledInv, RequestFiles, At
<1> QED
  BY <1>1, <1>2, <1>3 DEF FiledInv

LEMMA MergeFiles ==
  ASSUME NEW db \in Row, NEW new \in Row
  PROVE  /\ Merge(db, db, new).txn = new.txn /\ Merge(db, db, new).att = new.att
         /\ Merge(db, db, new).status = new.status
         /\ Merge(db, db, new).legible = db.legible /\ Merge(db, db, new).acct = db.acct
BY DEF Merge, Changed

LEMMA FiledWorker ==
  ASSUME "stub" \notin Windows, TypeInv, SerialInv, PhotoInv, FiledInv, WorkerNext PROVE FiledInv'
<1> PICK j : j = worker.job
  OBVIOUS
<1> USE DEF TypeInv, TypeOK, HasJob
<1>0. worker \in Worker /\ \A k \in Jobs : job[k] \in Row
  OBVIOUS
<1>1. ASSUME NEW k \in Jobs, Claim(k) PROVE FiledInv'
  <2>1. UNCHANGED <<req, att>> /\ worker'.pc = "claimed" /\ \A i \in Jobs : RowStays(i)
    BY <1>0, <1>1 DEF Claim, Row, IdleWorker, RowStays
  <2> QED
    BY <2>1, FiledMove DEF Attached
<1>2. CASE Load \/ ReadFails \/ PlaceLost \/ RecordNothing \/ CommitFails \/ RecordLost
  <2>1. worker'.pc \notin {"placed", "recorded"} /\ UNCHANGED <<job, att, req>>
    <3>1. CASE Load
      BY <1>0, <3>1 DEF Load, IdleWorker, Worker
    <3>2. CASE RecordNothing \/ RecordLost
      BY <3>2 DEF RecordNothing, RecordLost, IdleWorker
    <3>3. CASE ReadFails \/ PlaceLost
      BY <1>0, <3>3 DEF ReadFails, PlaceLost, Worker
    <3>4. CASE CommitFails
      BY <1>0, <3>4 DEF CommitFails, Worker
    <3> QED
      BY <1>2, <3>1, <3>2, <3>3, <3>4
  <2> QED
    BY <2>1, FiledMove DEF RowStays, Attached
<1>3. ASSUME UNCHANGED <<job, att, req>>, worker'.job = j,
             job[j].legible => HasItsPhoto(j, worker'.new),
             j \in Receipts /\ job[j].acct /\ job[j].att # None => worker'.new.att # None
      PROVE  FiledInv'
  <2>1. WorkerFiles'
    BY <1>3 DEF WorkerFiles
  <2> QED
    BY <1>3, <2>1, FiledMove DEF RowStays, Attached
<1>4. CASE Place
  <2>0. /\ worker.pc = "reading" /\ UNCHANGED <<job, att, req>> /\ Started \in Row
        /\ worker.snap = job[j] /\ Started.acct = job[j].acct
    BY <1>0, <1>4 DEF Place, Started, Worker, Row, SerialInv, WorkerFresh
  <2>1. ASSUME NEW t \in Txns, PlaceOn(j, t) PROVE FiledInv'
    <3>1. j \in Receipts => Placed(Started, j, t).att # None
      BY <2>0 DEF Placed, Row
    <3>2. worker'.job = j /\ worker'.new = Placed(Started, j, t)
      BY <1>0, <2>1 DEF PlaceOn, Worker
    <3> QED
      BY <1>3, <2>0, <3>1, <3>2 DEF HasItsPhoto
  <2>2. ASSUME Started.txn = None, ~Started.acct,
               worker' = [worker EXCEPT !.pc = "placed",
                            !.new = [Started EXCEPT !.status = "unplaced", !.err = FALSE]]
        PROVE  FiledInv'
    <3>1. worker'.job = j /\ worker'.new.txn = None
      BY <1>0, <2>0, <2>2 DEF Worker, Row
    <3> QED
      BY <1>3, <2>0, <2>2, <3>1 DEF HasItsPhoto
  <2> QED
    BY <1>4, <2>0, <2>1, <2>2 DEF Place, Row
<1>5. CASE RecordFailure
  <2> DEFINE Ends(new) == worker' = [worker EXCEPT !.pc = "recorded",
                            !.snap = job[j], !.new = [new EXCEPT !.err = TRUE]]
  <2>0. /\ worker.pc = "failed" /\ j \in Jobs /\ Exists(j) /\ job[j] \in Row
        /\ UNCHANGED <<job, att, req>> /\ ~RequestLocks(j)
    BY <1>0, <1>5 DEF RecordFailure
  <2>1. ASSUME NEW new \in Row, Ends(new), job[j].legible => HasItsPhoto(j, new),
               job[j].att # None => new.att # None
        PROVE  FiledInv'
    <3>1. worker'.job = j /\ worker'.new.txn = new.txn /\ worker'.new.att = new.att
      BY <1>0, <2>0, <2>1 DEF Worker, Row
    <3> QED
      BY <1>3, <2>0, <2>1, <3>1 DEF HasItsPhoto
  <2>2. job[j].legible => HasItsPhoto(j, job[j])
    BY <2>0 DEF FiledInv, RowFiled
  <2>3. CASE Ends([job[j] EXCEPT !.status = "queued", !.due = FALSE])
    <3>1. [job[j] EXCEPT !.status = "queued", !.due = FALSE] \in Row
      BY <2>0 DEF Row, Statuses
    <3> QED
      BY <2>0, <2>1, <2>2, <2>3, <3>1 DEF HasItsPhoto, Row
  <2>4. ASSUME NEW s \in {"error", "unplaced"}, Ends([job[j] EXCEPT !.status = s])
        PROVE  FiledInv'
    <3>1. [job[j] EXCEPT !.status = s] \in Row
      BY <2>0 DEF Row, Statuses
    <3> QED
      BY <2>0, <2>1, <2>2, <2>4, <3>1 DEF HasItsPhoto, Row
(* The stub: nobody else has the photo of an entry with an account and no   *)
(* attachment, so it is staged.                                             *)
  <2>5. ASSUME NEW t \in Txns, job[j].acct,
               Ends([job[j] EXCEPT !.status = "error", !.txn = t,
                       !.att = IF job[j].att = None /\ StubPhoto(j) THEN t ELSE @])
        PROVE  FiledInv'
    <3> DEFINE new == [job[j] EXCEPT !.status = "error", !.txn = t,
                         !.att = IF job[j].att = None /\ StubPhoto(j) THEN t ELSE @]
    <3>1. new \in Row /\ (job[j].att = None /\ StubPhoto(j) => new.att # None)
          /\ (job[j].att # None => new.att # None)
      BY <2>0 DEF Row, Statuses
    <3>2. ASSUME j \in Receipts, job[j].att = None PROVE j \in staged
      <4>1. Kept(j) /\ ~RequestLocks(j) /\ ~WorkerUploads(j)
        BY <2>0, <3>2 DEF PhotoInv, EntriesKept, WorkerUploads
      <4>2. ~Attached(j)
        BY <2>0, <2>5, <3>2 DEF FiledInv, RowFiled
      <4>3. job[j].status = "processing"
        BY <2>0 DEF SerialInv, Held, Exists, Statuses
      <4>4. ~RequestUploads(j)
        BY <2>0, <4>3 DEF RequestUploads, At, Uploading, SerialInv, RequestFresh, FreshRequest
      <4> QED
        BY <4>1, <4>2, <4>4 DEF Kept
    <3>3. Ends(new)
      BY <2>5
    <3> HIDE DEF new, Ends
    <3> QED
      BY <2>1, <3>1, <3>2, <3>3 DEF HasItsPhoto, StubPhoto
  <2> QED
    BY <1>5, <2>3, <2>4, <2>5 DEF RecordFailure
<1>6. CASE WorkerCommit
  <2>1. /\ worker.pc \in {"placed", "recorded"} /\ j \in Jobs /\ worker.new \in Row
        /\ worker.snap = job[j] /\ worker'.pc = "idle" /\ UNCHANGED req
        /\ worker.new.status # "absent" /\ att' = att \cup Stored(j, worker)
    BY <1>0, <1>6 DEF WorkerCommit, Worker, SerialInv, WorkerFresh, Verdict, Exists,
       Statuses, IdleWorker
  <2>2. /\ job'[j] = Merge(job[j], job[j], worker.new)
        /\ \A k \in Jobs : k # j => job'[k] = job[k]
    BY <1>6, <2>1 DEF WorkerCommit
  <2>3. /\ job'[j].txn = worker.new.txn /\ job'[j].att = worker.new.att
        /\ job'[j].status = worker.new.status
        /\ job'[j].legible = job[j].legible /\ job'[j].acct = job[j].acct
    BY <1>0, <2>1, <2>2, MergeFiles
  <2>4. worker.new.att = None => att' = att
    BY <2>1 DEF Stored
  <2>5. RowFiled(j)'
    <3>1. WorkerFiles /\ RowFiled(j)
      BY <2>1 DEF FiledInv
    <3>2. job'[j].legible => HasItsPhoto(j, job'[j])
      BY <2>1, <2>3, <3>1 DEF WorkerFiles, HasItsPhoto
    <3>3. ASSUME j \in Receipts, Attached(j)', job'[j].acct PROVE job'[j].att # None
      BY <2>1, <2>3, <2>4, <3>1, <3>3 DEF WorkerFiles, RowFiled, Attached
    <3> QED
      BY <2>1, <2>3, <3>2, <3>3 DEF RowFiled
  <2>6. \A k \in Jobs : k # j => RowStays(k) /\ (Attached(k)' => Attached(k))
    BY <2>1, <2>2 DEF RowStays, Attached, Stored
  <2> QED
    BY <2>1, <2>5, <2>6, FiledMove
<1> QED
  BY <1>1, <1>2, <1>4, <1>5, <1>6 DEF WorkerNext

LEMMA FiledRequest ==
  ASSUME TypeInv, SerialInv, FiledInv, NEW r \in Requests, RequestNext(r)
  PROVE  FiledInv'
<1> PICK j : j = req[r].job
  OBVIOUS
<1> USE DEF TypeInv, TypeOK, HasJob
<1>0. /\ req[r] \in Request /\ RequestFiles(r) /\ FreshRequest(r)
      /\ \A k \in Jobs : job[k] \in Row
  BY DEF FiledInv, SerialInv, RequestFresh
<1>1. IdleRequest.op = "none"
  BY DEF IdleRequest
(* A request that ends, whose row is in order or stays.                     *)
<1>2. ASSUME req' = [req EXCEPT ![r] = IdleRequest], worker' = worker,
             \A k \in Jobs : (RowStays(k) /\ (Attached(k)' => Attached(k))) \/ RowFiled(k)',
             worker.pc \in {"placed", "recorded"} => RowStays(worker.job)
      PROVE  FiledInv'
  <2>1. RequestFiles(r)' /\ \A q \in Requests : q # r => req'[q] = req[q]
    BY <1>1, <1>2 DEF RequestFiles, At
  <2>2. worker'.pc \notin {"placed", "recorded"} \/ RowStays(worker.job)
    BY <1>2
  <2> QED
    BY <1>2, <2>1, <2>2, FiledMove
<1>3. worker.pc \in {"placed", "recorded"} => job[worker.job].status = "processing"
  BY DEF SerialInv, Verdict
<1>4. CASE SubmitCommit(r)
  <2>1. /\ j \in Jobs /\ req[r].op = "submit" /\ req[r].new \in Row
        /\ req' = [req EXCEPT ![r] = IdleRequest] /\ UNCHANGED <<att, worker>>
    BY <1>0, <1>4 DEF SubmitCommit, At, Request
  <2>2. /\ job'[j].txn = req[r].new.txn
        /\ \A k \in Jobs : k # j => job'[k] = job[k]
    BY <1>4, <2>1 DEF SubmitCommit, Row
  <2>3. job[j].status = "absent" /\ req[r].new.txn = None
    BY <1>0, <2>1 DEF FreshRequest, RequestFiles
  <2>4. j \in Receipts => ~Attached(j)
    BY <2>1, <2>3 DEF FiledInv, RowFiled
  <2>5. RowFiled(j)'
    BY <2>1, <2>2, <2>3, <2>4 DEF RowFiled, HasItsPhoto, Attached
  <2>6. \A k \in Jobs : k # j => RowStays(k) /\ (Attached(k)' => Attached(k))
    BY <2>1, <2>2 DEF RowStays, Attached
  <2>7. worker.pc \in {"placed", "recorded"} => worker.job # j
    BY <1>3, <2>3
  <2> QED
    BY <1>2, <2>1, <2>5, <2>6, <2>7
<1>5. CASE Requeue(r)
  <2>1. /\ j \in Jobs /\ req[r].snap = job[j] /\ req[r].new = Requeued(job[j])
        /\ req' = [req EXCEPT ![r] = IdleRequest] /\ UNCHANGED <<att, worker>>
    BY <1>0, <1>5 DEF Requeue, At, FreshRequest
  <2>2. /\ job'[j] = Merge(job[j], job[j], req[r].new)
        /\ \A k \in Jobs : k # j => job'[k] = job[k]
    BY <1>5, <2>1 DEF Requeue
  <2>3. /\ req[r].new \in Row /\ req[r].new.txn = job[j].txn /\ req[r].new.att = job[j].att
        /\ req[r].new.status = "queued"
    <3>1. job[j] \in Row
      BY <1>0, <2>1
    <3>2. /\ Requeued(job[j]) \in Row /\ Requeued(job[j]).status = "queued"
          /\ Requeued(job[j]).txn = job[j].txn /\ Requeued(job[j]).att = job[j].att
      BY <3>1 DEF Requeued, Row, Statuses
    <3> QED
      BY <2>1, <3>2
  <2>4. \A k \in Jobs : RowStays(k)
    BY <1>0, <2>1, <2>2, <2>3, MergeFiles DEF RowStays
  <2> QED
    BY <1>2, <2>1, <2>4 DEF Attached
<1>6. CASE PlaceFinish(r)
  <2>1. req[r].op = "place" /\ req[r].pc = "begun" /\ j \in Jobs
        /\ UNCHANGED <<job, att, worker>>
    BY <1>6 DEF PlaceFinish, At
  <2>2. PICK t \in Txns : req' = [req EXCEPT ![r] = Filed(@, t)]
    BY <1>6 DEF PlaceFinish
  <2>3. /\ req'[r].op = "place" /\ req'[r].pc = "flushed" /\ req'[r].job = j
        /\ j \in Receipts => req'[r].new.att = IF req[r].snap.att = None THEN t
                                                ELSE req[r].new.att
        /\ \A q \in Requests : q # r => req'[q] = req[q]
    BY <1>0, <2>1, <2>2 DEF Filed, Request, Row
  <2>4. RequestFiles(r)'
    BY <1>0, <2>1, <2>3 DEF RequestFiles, At
  <2> QED
    BY <2>1, <2>3, <2>4, FiledMove DEF RowStays, Attached
<1>7. CASE PlaceCommit(r)
  <2>1. /\ req[r].op = "place" /\ req[r].pc = "flushed" /\ j \in Jobs /\ req[r].new \in Row
        /\ req[r].snap = job[j] /\ job[j].status = "unplaced"
        /\ req[r].new.status \in {"done", "error"}
        /\ j \in Receipts => req[r].new.att # None
        /\ req' = [req EXCEPT ![r] = IdleRequest] /\ UNCHANGED worker
        /\ att' = att \cup Stored(j, req[r])
    BY <1>0, <1>7 DEF PlaceCommit, At, Request, FreshRequest, RequestFiles
  <2>2. /\ job'[j] = Merge(job[j], job[j], req[r].new)
        /\ \A k \in Jobs : k # j => job'[k] = job[k]
    BY <1>7, <2>1 DEF PlaceCommit
  <2>3. job'[j].att = req[r].new.att /\ job'[j].status = req[r].new.status
    BY <1>0, <2>1, <2>2, MergeFiles
  <2>4. RowFiled(j)'
    BY <2>1, <2>3 DEF RowFiled, HasItsPhoto
  <2>5. \A k \in Jobs : k # j => RowStays(k) /\ (Attached(k)' => Attached(k))
    BY <2>1, <2>2 DEF RowStays, Attached, Stored
  <2>6. worker.pc \in {"placed", "recorded"} => worker.job \in Jobs /\ worker.job # j
    BY <1>3, <2>1
  <2>7. \A k \in Jobs : (RowStays(k) /\ (Attached(k)' => Attached(k))) \/ RowFiled(k)'
    BY <2>4, <2>5
  <2>8. worker.pc \in {"placed", "recorded"} => RowStays(worker.job)
    BY <2>5, <2>6
  <2> QED
    BY <1>2, <2>1, <2>7, <2>8
<1>8. CASE DeleteFlush(r)
  <2>1. /\ req[r].op = "delete" /\ UNCHANGED <<job, att, worker>>
        /\ req' = [req EXCEPT ![r].pc = "flushed"]
    BY <1>8 DEF DeleteFlush, At
  <2>2. req'[r].op = "delete" /\ \A q \in Requests : q # r => req'[q] = req[q]
    BY <1>0, <2>1 DEF Request
  <2>3. RequestFiles(r)'
    BY <2>2 DEF RequestFiles, At
  <2> QED
    BY <2>1, <2>2, <2>3, FiledMove DEF RowStays, Attached
<1>9. CASE DeleteCommit(r) \/ Abort(r)
  <2>1. /\ req' = [req EXCEPT ![r] = IdleRequest] /\ UNCHANGED <<att, worker>>
        /\ \A k \in Jobs : RowStays(k)
    <3>1. CASE DeleteCommit(r)
      BY <1>0, <3>1 DEF DeleteCommit, RowStays, Row
    <3>2. CASE Abort(r)
      BY <3>2 DEF Abort, RowStays
    <3> QED
      BY <1>9, <3>1, <3>2
  <2> QED
    BY <1>2, <2>1 DEF Attached
<1> QED
  BY <1>4, <1>5, <1>6, <1>7, <1>8, <1>9 DEF RequestNext

LEMMA FiledPeople ==
  ASSUME TypeInv, FiledInv, PeopleNext PROVE FiledInv'
<1> USE DEF TypeInv, TypeOK, HasJob
<1>1. ASSUME NEW t \in Txns, Approve(t) \/ DeleteTxn(t) \/ RestoreTxn(t) PROVE FiledInv'
  <2>1. UNCHANGED <<job, att, worker, req>>
    BY <1>1 DEF Approve, DeleteTxn, RestoreTxn
  <2> QED
    BY <2>1, FiledMove DEF RowStays, Attached
<1>2. ASSUME NEW r \in Requests, NEW j \in Jobs, NEW op, NEW new, Begin(r, op, j, new),
             UNCHANGED <<job, att, worker>>,
             op = "submit" => new.txn = None, op = "place" => new.att = job[j].att
      PROVE  FiledInv'
  <2>1. /\ req'[r] = [op |-> op, pc |-> "begun", job |-> j, snap |-> job[j], new |-> new]
        /\ \A q \in Requests : q # r => req'[q] = req[q]
    BY <1>2 DEF Begin
  <2>2. RequestFiles(r)'
    BY <1>2, <2>1 DEF RequestFiles, At
  <2> QED
    BY <1>2, <2>1, <2>2, FiledMove DEF RowStays, Attached
<1>3. ASSUME NEW r \in Requests, NEW j \in Jobs,
             \/ Submit(r, j) \/ Retry(r, j) \/ Reprocess(r, j)
             \/ PlaceRequest(r, j) \/ Delete(r, j)
      PROVE  FiledInv'
  <2>1. CASE Submit(r, j)
    <3>1. \A acct, legible \in BOOLEAN :
            [NoRow EXCEPT !.status = "queued", !.due = TRUE,
               !.acct = acct, !.legible = legible].txn = None
      BY DEF NoRow
    <3>2. PICK new : Begin(r, "submit", j, new) /\ new.txn = None
      BY <2>1, <3>1 DEF Submit
    <3> QED
      BY <1>2, <2>1, <3>2 DEF Submit
  <2>2. CASE PlaceRequest(r, j)
    <3>1. PICK s \in {"error", "done"} : Begin(r, "place", j, [job[j] EXCEPT !.status = s])
      BY <2>2 DEF PlaceRequest
    <3>2. [job[j] EXCEPT !.status = s].att = job[j].att
      BY DEF Row
    <3> QED
      BY <1>2, <2>2, <3>1, <3>2 DEF PlaceRequest
  <2>3. CASE Retry(r, j) \/ Reprocess(r, j) \/ Delete(r, j)
    <3>1. PICK new : \E op \in {"retry", "reprocess", "delete"} : Begin(r, op, j, new)
      BY <2>3 DEF Retry, Reprocess, Delete
    <3> QED
      BY <1>2, <2>3, <3>1 DEF Retry, Reprocess, Delete
  <2> QED
    BY <1>3, <2>1, <2>2, <2>3
<1> QED
  BY <1>1, <1>3 DEF PeopleNext

LEMMA FiledRest ==
  ASSUME TypeInv, FiledInv,
         (\E j \in Jobs : BackoffEnds(j)) \/ NightlyNext \/ CrashRestart
  PROVE  FiledInv'
<1> USE DEF TypeInv, TypeOK, HasJob
<1>0. \A k \in Jobs : job[k] \in Row
  OBVIOUS
<1>1. ASSUME UNCHANGED <<att, worker, req>>, \A k \in Jobs : RowStays(k) PROVE FiledInv'
  BY <1>1, FiledMove DEF Attached
<1>2. ASSUME NEW j \in Jobs, BackoffEnds(j) PROVE FiledInv'
  BY <1>0, <1>1, <1>2 DEF BackoffEnds, RowStays, Row
<1>3. ASSUME NEW old, Expire(old) PROVE FiledInv'
  BY <1>0, <1>1, <1>3 DEF Expire, RowStays, Row
<1>4. CASE NightlyNext
  <2>1. CASE RetentionPass \/ RetentionDelete
    BY <1>3, <2>1 DEF RetentionPass, RetentionDelete
  <2>2. CASE RetentionSelect \/ StagingSweep \/ FileSweep
    BY <1>1, <2>2 DEF RetentionSelect, StagingSweep, FileSweep, RowStays
  <2> QED
    BY <1>4, <2>1, <2>2 DEF NightlyNext
<1>5. CASE CrashRestart
  <2>1. /\ att' = att /\ worker'.pc = "idle"
        /\ \A r \in Requests : req'[r] = IdleRequest
    BY <1>5 DEF CrashRestart, IdleWorker
  <2>2. \A k \in Jobs : RowStays(k)
    BY <1>0, <1>5 DEF CrashRestart, Recovered, RowStays, Row
  <2>3. \A r \in Requests : RequestFiles(r)'
    BY <2>1 DEF RequestFiles, At, IdleRequest
  <2> QED
    BY <2>1, <2>2, <2>3, FiledMove DEF Attached
<1> QED
  BY <1>2, <1>4, <1>5

(* A receipt that says it is done, or that it failed, shows its photo on    *)
(* the transaction if the photo decodes: through a retry that finds the     *)
(* earlier row deleted, a stub for a failed read, and a wait for an account.*)
(* The stub must be made, and no disk change left without its commit.       *)
THEOREM FinishedPhotoCorrect ==
  ASSUME SerialRequests,
         "commit" \notin Windows, "stub" \notin Windows, "sweep" \notin Windows
  PROVE  Spec => []FinishedHasPhoto
<1>1. TypeInv /\ SerialInv /\ PhotoInv /\ FiledInv /\ [Next]_vars => FiledInv'
  <2>1. CASE UNCHANGED vars
    BY <2>1 DEF vars, FiledInv, RowFiled, WorkerFiles, RequestFiles, HasItsPhoto, At, Attached
  <2> QED
    BY <2>1, FiledWorker, FiledRequest, FiledPeople, FiledRest DEF Next
<1>2. TypeInv /\ SerialInv /\ FileInv /\ PhotoInv /\ FiledInv => FinishedHasPhoto
  <2> SUFFICES ASSUME TypeInv, SerialInv, FileInv, PhotoInv, FiledInv, NEW j \in Receipts,
                      job[j].status \in {"done", "error"}, job[j].legible
               PROVE  <<j, job[j].att>> \in att \cap files
    BY DEF FinishedHasPhoto
  <2>1. j \in Jobs /\ job[j].txn # None
    BY DEF SerialInv, FinishedNamed
  <2>2. job[j].att # None
    BY <2>1 DEF FiledInv, RowFiled, HasItsPhoto
  <2> QED
    BY <2>1, <2>2 DEF PhotoInv, NamedAttached, FileInv, AttachmentHasFile
<1> QED
  BY <1>1, <1>2, FiledInit, PhotoInvariant, TypeInvariant, SerialCorrect, FileCorrect, PTL
     DEF Spec

-----------------------------------------------------------------------------
(***************************************************************************)
(* How a photo can be lost (AIJobs!LostByRollback), with any number of     *)
(* requests and every window open. A step that leaves a photo where nobody *)
(* finds it either ends an upload or a delete that does not commit, or     *)
(* takes the photo out of staging; and whoever takes it out of staging has *)
(* it attached, on disk and about to be attached, or its job deleted.      *)
(***************************************************************************)

(* The attachment a session loaded is committed.                            *)
LoadsAttached(k, w) == w.snap.att # None => <<k, w.snap.att>> \in att
(* The session has uploaded nothing.                                        *)
NoUpload(w) == w.new.att \in {None, w.snap.att}

WorkerNames ==
  /\ LoadsAttached(worker.job, worker)
  /\ worker.pc \notin {"placed", "recorded"} => NoUpload(worker)
RequestNames(r) ==
  /\ LoadsAttached(req[r].job, req[r])
  /\ ~At(r, "place", "flushed") => NoUpload(req[r])
NamesInv == NamedAttached /\ WorkerNames /\ \A r \in Requests : RequestNames(r)

LEMMA NamesInit == Init => NamesInv
BY DEF Init, NamesInv, NamedAttached, WorkerNames, RequestNames, LoadsAttached, NoUpload,
   IdleWorker, IdleRequest, NoRow

(* Attachments stay; what is left is who wrote a row or loaded one.         *)
LEMMA NamesMove ==
  ASSUME NamesInv, att \subseteq att',
         \A k \in Jobs : \/ job'[k].att \in {None, job[k].att}
                         \/ <<k, job'[k].att>> \in att',
         UNCHANGED worker \/ WorkerNames',
         \A r \in Requests : req'[r] = req[r] \/ RequestNames(r)'
  PROVE  NamesInv'
<1>1. NamedAttached'
  BY DEF NamesInv, NamedAttached
<1>2. WorkerNames'
  BY DEF NamesInv, WorkerNames, LoadsAttached, NoUpload
<1>3. ASSUME NEW r \in Requests PROVE RequestNames(r)'
  BY <1>3 DEF NamesInv, RequestNames, LoadsAttached, NoUpload, At
<1> QED
  BY <1>1, <1>2, <1>3 DEF NamesInv

(* An idle session has loaded nothing.                                      *)
LEMMA IdleNames ==
  /\ worker' = IdleWorker => WorkerNames'
  /\ \A r \in Requests : req'[r] = IdleRequest => RequestNames(r)'
BY DEF WorkerNames, RequestNames, LoadsAttached, NoUpload, IdleWorker, IdleRequest, NoRow

(* A commit names what it stores, what it had loaded, or what is there.     *)
LEMMA MergeNamed ==
  ASSUME NEW k, NEW w, w.snap \in Row, w.new \in Row, NEW db \in Row
  PROVE  \/ Merge(db, w.snap, w.new).att \in {None, db.att}
         \/ <<k, Merge(db, w.snap, w.new).att>> \in Stored(k, w)
BY DEF Merge, Changed, Stored

LEMMA NamesWorker == TypeInv /\ NamesInv /\ WorkerNext => NamesInv'
<1> SUFFICES ASSUME TypeInv, NamesInv, WorkerNext PROVE NamesInv'
  OBVIOUS
<1> USE DEF TypeInv, TypeOK, HasJob
<1>0. ASSUME UNCHANGED <<job, att, req>>, WorkerNames' PROVE NamesInv'
  BY <1>0, NamesMove
<1>1. ASSUME NEW j \in Jobs, Claim(j) PROVE NamesInv'
  <2>1. /\ UNCHANGED <<att, req>> /\ worker'.pc = "claimed"
        /\ worker'.snap = NoRow /\ worker'.new = NoRow
        /\ \A k \in Jobs : job'[k].att = job[k].att
    BY <1>1 DEF Claim, IdleWorker, Row
  <2>2. WorkerNames'
    BY <2>1 DEF WorkerNames, LoadsAttached, NoUpload, NoRow
  <2> QED
    BY <2>1, <2>2, NamesMove
<1>2. CASE Load
  <2>1. UNCHANGED <<job, att, req>> /\ worker.job \in Jobs
    BY <1>2 DEF Load
  <2>2. CASE worker' = IdleWorker
    BY <1>0, <2>1, <2>2, IdleNames
  <2>3. CASE worker' # IdleWorker
    <3>1. /\ worker'.job = worker.job
          /\ worker'.snap = job[worker.job] /\ worker'.new = job[worker.job]
      BY <1>2, <2>3 DEF Load, Worker
    <3> QED
      BY <1>0, <2>1, <3>1 DEF WorkerNames, LoadsAttached, NoUpload, NamesInv, NamedAttached
  <2> QED
    BY <2>2, <2>3
<1>3. CASE ReadFails \/ PlaceLost
  <2>1. /\ UNCHANGED <<job, att, req>> /\ worker.pc = "reading"
        /\ worker'.job = worker.job /\ worker'.snap = worker.snap
        /\ worker'.new = worker.new
    BY <1>3 DEF ReadFails, PlaceLost, Worker
  <2> QED
    BY <1>0, <2>1 DEF WorkerNames, LoadsAttached, NoUpload, NamesInv
<1>4. CASE Place
  <2>1. /\ UNCHANGED <<job, att, req>> /\ worker'.pc = "placed"
        /\ worker'.job = worker.job /\ worker'.snap = worker.snap
    BY <1>4 DEF Place, PlaceOn, Worker
  <2> QED
    BY <1>0, <2>1 DEF WorkerNames, LoadsAttached, NamesInv
<1>5. CASE WorkerCommit
  <2>1. /\ worker.job \in Jobs /\ worker.snap \in Row /\ worker.new \in Row
        /\ job[worker.job] \in Row
        /\ worker' = IdleWorker /\ UNCHANGED req
        /\ att' = att \cup Stored(worker.job, worker)
        /\ job' = [job EXCEPT ![worker.job] = Merge(@, worker.snap, worker.new)]
    BY <1>5 DEF WorkerCommit, Worker
  <2>2. \A k \in Jobs : job'[k].att \in {None, job[k].att} \/ <<k, job'[k].att>> \in att'
    BY <2>1, MergeNamed
  <2> QED
    BY <2>1, <2>2, IdleNames, NamesMove
<1>6. CASE CommitFails
  <2>1. UNCHANGED <<job, att, req>> /\ worker'.snap = NoRow /\ worker'.new = NoRow
    BY <1>6 DEF CommitFails, Worker
  <2> QED
    BY <1>0, <2>1 DEF WorkerNames, LoadsAttached, NoUpload, NoRow
<1>7. CASE RecordFailure
  <2>1. /\ UNCHANGED <<job, att, req>> /\ worker'.pc = "recorded"
        /\ worker'.job = worker.job /\ worker'.snap = job[worker.job]
        /\ worker.job \in Jobs
    BY <1>7 DEF RecordFailure, Worker
  <2> QED
    BY <1>0, <2>1 DEF WorkerNames, LoadsAttached, NamesInv, NamedAttached
<1>8. CASE RecordNothing \/ RecordLost
  BY <1>0, <1>8, IdleNames DEF RecordNothing, RecordLost
<1> QED
  BY <1>1, <1>2, <1>3, <1>4, <1>5, <1>6, <1>7, <1>8 DEF WorkerNext

LEMMA NamesRequest ==
  ASSUME TypeInv, NamesInv, NEW r \in Requests, RequestNext(r) PROVE NamesInv'
<1> USE DEF TypeInv, TypeOK, HasJob
<1>0. /\ req[r] \in Request /\ req[r].snap \in Row /\ req[r].new \in Row
      /\ \A k \in Jobs : job[k] \in Row
      /\ req[r].pc # "idle" => req[r].job \in Jobs
      /\ RequestNames(r)
  BY DEF Request, NamesInv
<1>1. ASSUME UNCHANGED worker, att \subseteq att', req' = [req EXCEPT ![r] = IdleRequest],
             \A k \in Jobs : \/ job'[k].att \in {None, job[k].att}
                             \/ <<k, job'[k].att>> \in att'
      PROVE  NamesInv'
  <2>1. \A q \in Requests : req'[q] = req[q] \/ RequestNames(q)'
    BY <1>1, IdleNames
  <2> QED
    BY <1>1, <2>1, NamesMove
<1>2. CASE SubmitCommit(r)
  <2>1. /\ req[r].new.att = None \/ <<req[r].job, req[r].new.att>> \in att
        /\ req[r].job \in Jobs
    BY <1>0, <1>2 DEF SubmitCommit, At, RequestNames, LoadsAttached, NoUpload
  <2>2. \A k \in Jobs : job'[k].att \in {None, job[k].att} \/ <<k, job'[k].att>> \in att'
    <3>1. job'[req[r].job].att = req[r].new.att
          /\ \A k \in Jobs : k # req[r].job => job'[k] = job[k]
      BY <1>0, <1>2, <2>1 DEF SubmitCommit, Row
    <3> QED
      BY <1>2, <2>1, <3>1 DEF SubmitCommit
  <2> QED
    BY <1>1, <1>2, <2>2 DEF SubmitCommit
<1>3. CASE Requeue(r)
  <2>1. NoUpload(req[r]) /\ req[r].job \in Jobs
    BY <1>0, <1>3 DEF Requeue, At, RequestNames
  <2>2. \A k \in Jobs : job'[k].att \in {None, job[k].att}
    BY <1>0, <1>3, <2>1 DEF Requeue, NoUpload, Merge, Changed
  <2> QED
    BY <1>1, <1>3, <2>2 DEF Requeue
<1>4. CASE PlaceFinish(r)
  <2>1. /\ UNCHANGED <<job, att, worker>>
        /\ At(r, "place", "flushed")'
        /\ req'[r].job = req[r].job /\ req'[r].snap = req[r].snap
        /\ \A q \in Requests : q # r => req'[q] = req[q]
    <3>1. PICK t : req' = [req EXCEPT ![r] = Filed(@, t)]
      BY <1>4 DEF PlaceFinish
    <3>2. /\ Filed(req[r], t).op = req[r].op /\ Filed(req[r], t).pc = "flushed"
          /\ Filed(req[r], t).job = req[r].job /\ Filed(req[r], t).snap = req[r].snap
      BY <1>0 DEF Filed, Request
    <3> QED
      BY <1>4, <3>1, <3>2 DEF PlaceFinish, At
  <2>2. RequestNames(r)'
    BY <1>0, <2>1 DEF RequestNames, LoadsAttached
  <2> QED
    BY <2>1, <2>2, NamesMove
<1>5. CASE PlaceCommit(r)
  <2>1. /\ UNCHANGED worker /\ req' = [req EXCEPT ![r] = IdleRequest]
        /\ att' = att \cup Stored(req[r].job, req[r])
        /\ job' = [job EXCEPT ![req[r].job] = Merge(@, req[r].snap, req[r].new)]
        /\ req[r].job \in Jobs
    BY <1>0, <1>5 DEF PlaceCommit, At
  <2>2. \A k \in Jobs : job'[k].att \in {None, job[k].att} \/ <<k, job'[k].att>> \in att'
    BY <1>0, <2>1, MergeNamed
  <2> QED
    BY <1>1, <2>1, <2>2
<1>6. CASE DeleteFlush(r)
  <2>1. /\ UNCHANGED <<job, att, worker>>
        /\ req'[r].op = req[r].op /\ req[r].op = "delete"
        /\ req'[r].job = req[r].job /\ req'[r].snap = req[r].snap
        /\ req'[r].new = req[r].new
        /\ \A q \in Requests : q # r => req'[q] = req[q]
    BY <1>0, <1>6 DEF DeleteFlush, At, Request
  <2>2. RequestNames(r)'
    BY <1>0, <2>1 DEF RequestNames, LoadsAttached, NoUpload, At
  <2> QED
    BY <2>1, <2>2, NamesMove
<1>7. CASE DeleteCommit(r)
  <2>1. \A k \in Jobs : job'[k].att = job[k].att
    BY <1>0, <1>7 DEF DeleteCommit, Row
  <2> QED
    BY <1>1, <1>7, <2>1 DEF DeleteCommit
<1>8. CASE Abort(r)
  BY <1>1, <1>8 DEF Abort
<1> QED
  BY <1>2, <1>3, <1>4, <1>5, <1>6, <1>7, <1>8 DEF RequestNext

LEMMA NamesPeople == TypeInv /\ NamesInv /\ PeopleNext => NamesInv'
<1> SUFFICES ASSUME TypeInv, NamesInv, PeopleNext PROVE NamesInv'
  OBVIOUS
<1> USE DEF TypeInv, TypeOK
<1>1. ASSUME UNCHANGED <<job, att, worker, req>> PROVE NamesInv'
  BY <1>1, NamesMove
<1>2. ASSUME NEW r \in Requests, NEW j \in Jobs, NEW op, NEW new,
             Begin(r, op, j, new), new.att \in {None, job[j].att},
             UNCHANGED <<job, att, worker>>
      PROVE  NamesInv'
  <2>1. /\ req'[r].job = j /\ req'[r].snap = job[j] /\ req'[r].new = new
        /\ req'[r].pc = "begun"
        /\ \A q \in Requests : q # r => req'[q] = req[q]
    BY <1>2 DEF Begin
  <2>2. RequestNames(r)'
    BY <1>2, <2>1 DEF RequestNames, LoadsAttached, NoUpload, NamesInv, NamedAttached
  <2> QED
    BY <1>2, <2>1, <2>2, NamesMove
<1>3. ASSUME NEW r \in Requests, NEW j \in Jobs,
             Submit(r, j) \/ Retry(r, j) \/ Reprocess(r, j) \/ PlaceRequest(r, j)
               \/ Delete(r, j)
      PROVE  NamesInv'
  <2>0. job[j] \in Row /\ Requeued(job[j]).att = job[j].att
    BY DEF Requeued, Row
  <2>1. CASE Submit(r, j)
    <3>1. PICK acct \in BOOLEAN, legible \in BOOLEAN :
             Begin(r, "submit", j, [NoRow EXCEPT !.status = "queued", !.due = TRUE,
                                      !.acct = acct, !.legible = legible])
      BY <2>1 DEF Submit
    <3> QED
      BY <1>2, <2>1, <3>1 DEF Submit, NoRow
  <2>2. CASE Retry(r, j) \/ Reprocess(r, j)
    BY <1>2, <2>0, <2>2 DEF Retry, Reprocess
  <2>3. CASE PlaceRequest(r, j)
    <3>1. PICK s : Begin(r, "place", j, [job[j] EXCEPT !.status = s])
      BY <2>3 DEF PlaceRequest
    <3>2. [job[j] EXCEPT !.status = s].att = job[j].att
      BY <2>0 DEF Row
    <3> QED
      BY <1>2, <2>3, <3>1, <3>2 DEF PlaceRequest
  <2>4. CASE Delete(r, j)
    BY <1>2, <2>4 DEF Delete
  <2> QED
    BY <1>3, <2>1, <2>2, <2>3, <2>4
<1>4. ASSUME NEW t \in Txns, Approve(t) \/ DeleteTxn(t) \/ RestoreTxn(t) PROVE NamesInv'
  BY <1>1, <1>4 DEF Approve, DeleteTxn, RestoreTxn
<1> QED
  BY <1>3, <1>4 DEF PeopleNext

LEMMA NamesRest ==
  ASSUME TypeInv, NamesInv,
         (\E j \in Jobs : BackoffEnds(j)) \/ NightlyNext \/ CrashRestart
  PROVE  NamesInv'
<1> USE DEF TypeInv, TypeOK
<1>1. ASSUME UNCHANGED <<att, worker, req>>, \A k \in Jobs : job'[k].att = job[k].att
      PROVE  NamesInv'
  BY <1>1, NamesMove
<1>2. ASSUME NEW j \in Jobs, BackoffEnds(j) PROVE NamesInv'
  <2>1. \A k \in Jobs : job'[k].att = job[k].att
    BY <1>2 DEF BackoffEnds, Row
  <2> QED
    BY <1>1, <1>2, <2>1 DEF BackoffEnds
<1>3. ASSUME NEW old, Expire(old) PROVE NamesInv'
  <2>1. \A k \in Jobs : job'[k].att = job[k].att
    BY <1>3 DEF Expire, Row
  <2> QED
    BY <1>1, <1>3, <2>1 DEF Expire
<1>4. CASE NightlyNext
  <2>1. CASE RetentionPass \/ RetentionDelete
    BY <1>3, <2>1 DEF RetentionPass, RetentionDelete
  <2>2. CASE RetentionSelect \/ StagingSweep \/ FileSweep
    BY <1>1, <2>2 DEF RetentionSelect, StagingSweep, FileSweep
  <2> QED
    BY <1>4, <2>1, <2>2 DEF NightlyNext
<1>5. CASE CrashRestart
  <2>1. /\ att' = att /\ worker' = IdleWorker
        /\ \A r \in Requests : req'[r] = IdleRequest
    BY <1>5 DEF CrashRestart
  <2>2. \A k \in Jobs : job'[k].att = job[k].att
    BY <1>5 DEF CrashRestart, Recovered, Row
  <2> QED
    BY <2>1, <2>2, IdleNames, NamesMove
<1> QED
  BY <1>2, <1>4, <1>5

LEMMA NamesCorrect == Spec => []NamesInv
<1>1. TypeInv /\ NamesInv /\ [Next]_vars => NamesInv'
  <2>1. CASE UNCHANGED vars
    BY <2>1 DEF vars, NamesInv, NamedAttached, WorkerNames, RequestNames, LoadsAttached,
       NoUpload, At
  <2> QED
    BY <2>1, NamesWorker, NamesRequest, NamesPeople, NamesRest DEF Next
<1> QED
  BY <1>1, NamesInit, TypeInvariant, PTL DEF Spec

(* A photo whose attachment is about to commit is found.                    *)
LEMMA UploadFound ==
  ASSUME TypeInv', FileInv', NamesInv', NEW j, NEW t, InFlight(j, t)' PROVE Findable(j)'
<1> USE DEF TypeInv, TypeOK
<1>1. CASE (Uploading(j, worker) /\ worker.new.att = t)'
  <2>1. worker'.new.att # None /\ worker'.new.att # worker'.snap.att /\ worker'.job = j
    BY <1>1 DEF Uploading
  <2>2. worker'.pc \in {"placed", "recorded"}
    BY <2>1 DEF NamesInv, WorkerNames, NoUpload
  <2>3. <<j, t>> \in files' /\ t \in Txns
    BY <1>1, <2>1, <2>2 DEF FileInv, UploadsOnDisk, Stored
  <2> QED
    BY <2>3 DEF Findable
<1>2. ASSUME NEW r \in Requests, (Uploading(j, req[r]) /\ req[r].new.att = t)'
      PROVE  Findable(j)'
  <2>1. /\ req'[r].new.att # None /\ req'[r].new.att # req'[r].snap.att
        /\ req'[r].job = j
    BY <1>2 DEF Uploading
  <2>2. At(r, "place", "flushed")'
    BY <2>1 DEF NamesInv, RequestNames, NoUpload
  <2>3. <<j, t>> \in files' /\ t \in Txns
    BY <1>2, <2>1, <2>2 DEF FileInv, UploadsOnDisk, Stored
  <2> QED
    BY <2>3 DEF Findable
<1> QED
  BY <1>1, <1>2 DEF InFlight

(* Whoever takes a photo out of staging leaves it found, or its job gone.   *)
LEMMA StagedTaken ==
  ASSUME TypeInv, NamesInv, Next, TypeInv', FileInv',
         NEW j \in Receipts, Exists(j), j \in staged, j \notin staged'
  PROVE  ~Exists(j)' \/ Findable(j)'
<1> USE DEF TypeInv, TypeOK, HasJob
<1>0. \A t \in Txns : <<j, t>> \in att' => Findable(j)'
  BY DEF FileInv, AttachmentHasFile, Findable
<1>1. CASE Place
  <2>1. PICK t \in Txns : PlaceOn(worker.job, t)
    <3>1. worker.snap \in Row /\ Started \in Row
      BY <1>1 DEF Place, Worker, Started, Row
    <3>2. Started.txn # None => Started.txn \in Txns
      BY <3>1 DEF Row
    <3> QED
      BY <1>1, <3>2 DEF Place
  <2>2. /\ worker.job = j /\ worker.snap \in Row /\ att' = att
        /\ files' = files \cup Stored(j, worker')
        /\ worker'.job = j /\ worker'.snap = worker.snap
        /\ worker'.new = Placed(Started, j, t)
    BY <1>1, <2>1 DEF Place, PlaceOn, Worker
  <2>3. CASE worker.snap.att # None
    BY <1>0, <2>2, <2>3 DEF NamesInv, WorkerNames, LoadsAttached, Row
  <2>4. CASE worker.snap.att = None
    <3>1. Started \in Row /\ Started.att = None
      BY <2>2, <2>4 DEF Started, Row
    <3>2. worker'.new.att = t
      BY <2>2, <3>1 DEF Placed, Row
    <3> QED
      BY <2>2, <2>4, <3>2 DEF Findable, InFlight, Uploading, Stored
  <2> QED
    BY <2>3, <2>4
<1>2. CASE RecordFailure
  <2>0. worker.job \in Jobs /\ job[worker.job] \in Row
    BY <1>2 DEF RecordFailure
  <2>1. PICK t \in Txns :
          /\ worker' = [worker EXCEPT !.pc = "recorded", !.snap = job[worker.job],
               !.new = [[job[worker.job] EXCEPT !.status = "error", !.txn = t,
                          !.att = IF job[worker.job].att = None /\ StubPhoto(worker.job)
                                    THEN t ELSE @] EXCEPT !.err = TRUE]]
          /\ files' = files \cup Stored(worker.job, worker')
          /\ staged' = IF job[worker.job].legible THEN staged \ {worker.job} ELSE staged
    BY <1>2 DEF RecordFailure
  <2>2. /\ worker.job = j /\ job[j].legible /\ att' = att
        /\ worker'.job = j /\ worker'.snap = job[j]
        /\ worker'.new.att = IF job[j].att = None /\ StubPhoto(j) THEN t ELSE job[j].att
    <3>1. worker.job = j /\ job[j].legible /\ att' = att
      BY <1>2, <2>1 DEF RecordFailure
    <3> DEFINE new == [job[j] EXCEPT !.status = "error", !.txn = t,
                         !.att = IF job[j].att = None /\ StubPhoto(j) THEN t ELSE @]
    <3>2. [new EXCEPT !.err = TRUE].att
            = IF job[j].att = None /\ StubPhoto(j) THEN t ELSE job[j].att
      BY <2>0, <3>1 DEF Row
    <3>3. /\ worker'.job = worker.job /\ worker'.snap = job[j]
          /\ worker'.new = [new EXCEPT !.err = TRUE]
      BY <2>1, <3>1 DEF Worker
    <3> QED
      BY <3>1, <3>2, <3>3
  <2>3. CASE job[j].att # None
    BY <1>0, <2>0, <2>2, <2>3 DEF NamesInv, NamedAttached, Row
  <2>4. CASE job[j].att = None
    BY <2>1, <2>2, <2>4 DEF StubPhoto, Findable, InFlight, Uploading, Stored
  <2> QED
    BY <2>3, <2>4
<1>3. ASSUME NEW r \in Requests, PlaceFinish(r) PROVE Findable(j)'
  <2>1. PICK t \in Txns : req' = [req EXCEPT ![r] = Filed(@, t)]
    BY <1>3 DEF PlaceFinish
  <2>2. /\ req[r] \in Request /\ req[r].job = j /\ req[r].snap \in Row /\ att' = att
        /\ files' = files \cup Stored(j, req'[r])
    BY <1>3 DEF PlaceFinish, Request
  <2>3. CASE req[r].snap.att # None
    BY <1>0, <2>2, <2>3 DEF NamesInv, RequestNames, LoadsAttached, Row
  <2>4. CASE req[r].snap.att = None
    <3>1. /\ Filed(req[r], t).job = j /\ Filed(req[r], t).snap = req[r].snap
          /\ Filed(req[r], t).new.att = t
      BY <2>2, <2>4 DEF Filed, Request, Row
    <3>2. req'[r] = Filed(req[r], t)
      BY <2>1
    <3> QED
      BY <2>2, <2>4, <3>1, <3>2 DEF Findable, InFlight, Uploading, Stored
  <2> QED
    BY <2>3, <2>4
<1>4. ASSUME NEW r \in Requests, DeleteFlush(r) PROVE Findable(j)'
  <2>1. /\ req[r] \in Request /\ req[r].job = j /\ req[r].op = "delete"
        /\ req' = [req EXCEPT ![r].pc = "flushed"]
    BY <1>4 DEF DeleteFlush, At
  <2>2. req'[r].op = "delete" /\ req'[r].pc = "flushed" /\ req'[r].job = j
    BY <2>1 DEF Request
  <2> QED
    BY <2>2 DEF Findable, RequestLocks
<1>5. ASSUME NEW old, Expire(old) PROVE ~Exists(j)'
  BY <1>5 DEF Expire, Exists, Statuses, Row
<1>6. CASE NightlyNext
  <2>1. ~StagingSweep
    BY DEF StagingSweep, Orphans
  <2> QED
    BY <1>5, <1>6, <2>1 DEF NightlyNext, RetentionPass, RetentionSelect, RetentionDelete,
       FileSweep
<1>7. CASE WorkerNext
  BY <1>1, <1>2, <1>7 DEF WorkerNext, Claim, Load, ReadFails, PlaceLost, WorkerCommit,
     CommitFails, RecordNothing, RecordLost
<1>8. CASE \E r \in Requests : RequestNext(r)
  BY <1>3, <1>4, <1>8 DEF RequestNext, SubmitCommit, Requeue, PlaceCommit, DeleteCommit,
     Abort
<1>9. CASE PeopleNext
  BY <1>9 DEF PeopleNext, Submit, Retry, Reprocess, PlaceRequest, Delete, Approve,
     DeleteTxn, RestoreTxn
<1> QED
  BY <1>6, <1>7, <1>8, <1>9 DEF Next, BackoffEnds, CrashRestart

(* Attachment rows are never taken back.                                    *)
LEMMA AttachmentsStay == Next => att \subseteq att'
BY DEF Next, WorkerNext, Claim, Load, ReadFails, Place, PlaceLost, WorkerCommit, CommitFails,
   RecordFailure, RecordNothing, RecordLost, RequestNext, SubmitCommit, Requeue, PlaceFinish,
   PlaceCommit, DeleteFlush, DeleteCommit, Abort, PeopleNext, Submit, Retry, Reprocess,
   PlaceRequest, Delete, Approve, DeleteTxn, RestoreTxn, BackoffEnds, NightlyNext,
   RetentionPass, RetentionSelect, RetentionDelete, Expire, StagingSweep, FileSweep,
   CrashRestart

(* An entry's photo is lost in one way only: a handler took it from staging *)
(* to file it, or to delete the entry, and rolled back, by a crash between  *)
(* the two or by a commit that failed. Every other step that takes a photo  *)
(* from somewhere (finish_placement, the failure stub, both file sweeps,    *)
(* retention, a delete) leaves it where it is found, whatever interleaves.  *)
THEOREM LossCorrect == Spec => LostByRollback
<1>1. ASSUME TypeInv, NamesInv, TypeInv', FileInv', NamesInv', [Next]_vars,
             NEW j \in Receipts, Exists(j), Findable(j), Exists(j)', ~Findable(j)'
      PROVE  /\ Unsettled(j) /\ ~Unsettled(j)'
             /\ job'[j].att = None
  <2>0. j \in Jobs
    OBVIOUS
  <2>1. Next
    BY <1>1 DEF vars, Exists, Findable, InFlight, Uploading, RequestLocks
  <2>2. \A t : <<j, t>> \notin att'
    BY <1>1 DEF TypeInv, TypeOK, FileInv, AttachmentHasFile, Findable
  <2>3. job'[j].att = None
    BY <1>1, <2>0, <2>2 DEF NamesInv, NamedAttached
  <2>4. ~Unsettled(j)'
    BY <1>1, UploadFound DEF Unsettled, Findable
  <2>5. j \notin staged /\ \A t : <<j, t>> \notin att
    BY <1>1, <2>1, <2>2, StagedTaken, AttachmentsStay DEF Findable
  <2>6. Unsettled(j)
    BY <1>1, <2>5 DEF Findable, Unsettled
  <2> QED
    BY <2>3, <2>4, <2>6
<1>2. TypeInv /\ NamesInv /\ TypeInv' /\ FileInv' /\ NamesInv' /\ [Next]_vars
        => [\A j \in Receipts :
              Exists(j) /\ Findable(j) /\ Exists(j)' /\ ~Findable(j)'
                => /\ Unsettled(j) /\ ~Unsettled(j)'
                   /\ job'[j].att = None]_vars
  BY <1>1
<1> QED
  BY <1>2, TypeInvariant, FileCorrect, NamesCorrect, PTL DEF Spec, LostByRollback
=============================================================================
