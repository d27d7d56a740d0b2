------------------------------- MODULE AIJobs -------------------------------
(***************************************************************************)
(* The queue behind AI-assisted entry: a person hands in a receipt photo   *)
(* or a description, one worker loop reads it with the model, and a        *)
(* transaction (or a wait for an account) comes out.  Modelled from        *)
(* tasks/ai_worker.py, repositories/ai_job_repo.py, api/v1/ai_jobs.py,     *)
(* services/receipt_placement.py and the file sweeps.                      *)
(*                                                                         *)
(* What makes it hard is that every entry lives in two places: rows in     *)
(* Postgres, which commit and roll back, and files on disk, which do not.  *)
(* A handler is therefore several steps here: what it read, what it did to *)
(* the disk, and its commit.  The worker, the requests, the nightly passes *)
(* and a crash of the process interleave between them.                     *)
(*                                                                         *)
(* A job row is written by the ORM, which sends only the columns a session *)
(* changed since it loaded the row; Merge says so.                         *)
(***************************************************************************)
EXTENDS Naturals, FiniteSets

CONSTANTS
  Jobs,          \* job ids (uuid4: never reused once a row was committed)
  Receipts,      \* the jobs of kind 'receipt'; the others are descriptions
  Photo,         \* Photo[j]: the image a receipt job carries (its sha256)
  Txns,          \* transaction ids, handed out in order
  BankRows,      \* transactions the bank has already delivered
  Requests,      \* HTTP requests the API may have in flight at once
  MaxAttempts,   \* AIJob.max_attempts
  MaxUserSteps,  \* bound: requests and edits people make in a behaviour
  MaxCrashes,    \* bound: crashes of the process in a behaviour
  Windows,       \* the races a run lets happen, see WindowNames
  None

(* "commit":    a crash or a failed commit falls between a handler's change *)
(*              to the disk and its commit                                  *)
(* "record":    recording a failure fails in turn                           *)
(* "stub":      the row a failure should leave cannot be made, or not with  *)
(*              its photo                                                   *)
(* "sweep":     the staging sweep runs while a submission has written its   *)
(*              file and not yet its row                                    *)
(* "retention": something else runs between retention's select and delete   *)
WindowNames == {"commit", "record", "stub", "sweep", "retention"}

ASSUME JobsAssumption == IsFiniteSet(Jobs) /\ Receipts \subseteq Jobs
ASSUME TxnsAssumption == Txns \subseteq Nat /\ BankRows \subseteq Txns
ASSUME NoneAssumption == None \notin Txns /\ None \notin Jobs
ASSUME BoundsAssumption ==
  /\ MaxAttempts \in Nat \ {0}
  /\ MaxUserSteps \in Nat
  /\ MaxCrashes \in Nat
  /\ Windows \subseteq WindowNames

VARIABLES
  job,      \* the ai_jobs table, as committed
  txn,      \* the transactions table, with rows not committed marked pending
  att,      \* transaction_attachments: <<j, t>>, the photo of j on row t
  files,    \* attachment files on disk, same naming
  staged,   \* receipts whose photo is in ai_staging/<job id>/
  worker,   \* the worker loop: where it is, and its session's copy of the row
  req,      \* the requests in flight, likewise
  aging,    \* ids retention has selected and not yet deleted
  steps,    \* requests and edits made so far
  crashes   \* crashes so far

vars == <<job, txn, att, files, staged, worker, req, aging, steps, crashes>>

----------------------------------------------------------------------------
(* State *)

Statuses == {"queued", "processing", "done", "error", "unplaced"}
ACTIVE_STATUSES == {"queued", "processing"}

Row == [status:   Statuses \cup {"absent", "deleted"},
        attempts: Nat,
        txn:      Txns \cup {None},
        att:      Txns \cup {None},   \* the row the attachment hangs on
        err:      BOOLEAN,            \* an error message is stored
        due:      BOOLEAN,            \* available_at has passed
        acct:     BOOLEAN,            \* submitted against an account
        legible:  BOOLEAN,            \* the photo decodes as an image
        born:     Nat]                \* created_at, as a position

NoRow == [status |-> "absent", attempts |-> 0, txn |-> None, att |-> None,
          err |-> FALSE, due |-> FALSE, acct |-> FALSE, legible |-> TRUE,
          born |-> 0]

TxnRow == [state:    {"free", "pending", "void", "live", "deleted", "restored"},
           approved: BOOLEAN,
           made:     Jobs \cup {None}]   \* the job whose read created it

Worker == [pc:    {"idle", "claimed", "reading", "placed", "failed", "recorded"},
           job:   Jobs \cup {None},
           snap:  Row,        \* the job as this session loaded it
           new:   Row,        \* the job as it will commit it
           again: BOOLEAN]    \* the failure is retryable

Request == [op:   {"none", "submit", "retry", "reprocess", "place", "delete"},
            pc:   {"idle", "begun", "flushed"},
            job:  Jobs \cup {None},
            snap: Row,
            new:  Row]

IdleWorker == [pc |-> "idle", job |-> None, snap |-> NoRow, new |-> NoRow,
               again |-> FALSE]
IdleRequest == [op |-> "none", pc |-> "idle", job |-> None, snap |-> NoRow,
                new |-> NoRow]

Init ==
  /\ job = [j \in Jobs |-> NoRow]
  /\ txn = [t \in Txns |-> [state |-> IF t \in BankRows THEN "live" ELSE "free",
                            approved |-> FALSE, made |-> None]]
  /\ att = {}
  /\ files = {}
  /\ staged = {}
  /\ worker = IdleWorker
  /\ req = [r \in Requests |-> IdleRequest]
  /\ aging = {}
  /\ steps = 0
  /\ crashes = 0

Exists(j) == job[j].status \in Statuses
Live(t) == t \in Txns /\ txn[t].state \in {"live", "restored"}

(* AI_NEEDS_REVIEW on the job's own row: live, made by a job, unapproved.   *)
NeedsReview(j) ==
  \/ job[j].status = "unplaced"
  \/ /\ Live(job[j].txn)
     /\ txn[job[j].txn].made # None
     /\ ~txn[job[j].txn].approved

(* A transaction id the database has not handed out yet.                    *)
NextId(t) == /\ txn[t].state = "free"
             /\ \A u \in Txns : txn[u].state = "free" => t <= u

(* The session holds the job's row lock from its flush to its commit.       *)
WorkerLocks(j) == worker.job = j /\ worker.pc \in {"placed", "recorded"}
NoRequestLocks(j) == FALSE
RequestLocks(j) == \E r \in Requests : /\ req[r].op = "delete"
                                       /\ req[r].pc = "flushed"
                                       /\ req[r].job = j

(* The photo a handler has stored and not yet committed a row for.          *)
Uploading(j, w) == /\ w.job = j
                   /\ w.new.att # None
                   /\ w.new.att # w.snap.att

(* What the ORM sends: a column the session changed gets the new value, any *)
(* other keeps what is in the table by then.                                *)
Changed(db, old, new) == IF new = old THEN db ELSE new

Merge(db, old, new) ==
  [status   |-> Changed(db.status, old.status, new.status),
   attempts |-> Changed(db.attempts, old.attempts, new.attempts),
   txn      |-> Changed(db.txn, old.txn, new.txn),
   att      |-> Changed(db.att, old.att, new.att),
   err      |-> Changed(db.err, old.err, new.err),
   due      |-> Changed(db.due, old.due, new.due),
   acct     |-> db.acct,
   legible  |-> db.legible,
   born     |-> db.born]

(* A commit makes the rows a session inserted live, a rollback voids them.  *)
Settle(t, outcome) ==
  IF t \in Txns /\ txn[t].state = "pending"
    THEN [txn EXCEPT ![t].state = outcome]
    ELSE txn

(* The rows and the files of one upload: AttachmentService.upload writes    *)
(* the file first, and the row commits with the rest.                       *)
Stored(j, w) == IF w.new.att # None /\ w.new.att # w.snap.att
                  THEN {<<j, w.new.att>>} ELSE {}

(* create_in: a new unapproved transaction for job j, not yet committed.    *)
CreateIn(j, t) ==
  /\ NextId(t)
  /\ txn' = [txn EXCEPT ![t] = [state |-> "pending", approved |-> FALSE,
                                made |-> j]]

----------------------------------------------------------------------------
(* The worker *)

Claimable(j) == /\ job[j].status = "queued"
                /\ job[j].due
                /\ ~RequestLocks(j)        \* SKIP LOCKED

(* claim_next and the first transaction of _claim_and_process_next.         *)
Claim(j) ==
  /\ worker.pc = "idle"
  /\ Claimable(j)
  /\ \A k \in Jobs : Claimable(k) => job[j].born <= job[k].born
  /\ job' = [job EXCEPT ![j].status = "processing", ![j].attempts = @ + 1]
  /\ worker' = [IdleWorker EXCEPT !.pc = "claimed", !.job = j]
  /\ UNCHANGED <<txn, att, files, staged, req, aging, steps, crashes>>

(* The photo a retry can still read: staged, or the stored attachment.      *)
HasImage(j) == \/ j \in staged
               \/ /\ job[j].att # None
                  /\ <<j, job[j].att>> \in att \cap files

(* A fresh session loads the row.  get_or_raise sits outside the try: a row *)
(* deleted since the claim ends the pass.  A photo that is gone, or does    *)
(* not decode, is a permanent failure.                                      *)
Load ==
  LET j == worker.job IN
  /\ worker.pc = "claimed"
  /\ worker' =
       IF ~Exists(j) THEN IdleWorker
       ELSE [worker EXCEPT
               !.pc = IF j \in Receipts /\ ~(HasImage(j) /\ job[j].legible)
                        THEN "failed" ELSE "reading",
               !.snap = job[j], !.new = job[j]]
  /\ UNCHANGED <<job, txn, att, files, staged, req, aging, steps, crashes>>

(* The model call fails: again says whether _is_retryable would retry it.   *)
ReadFails ==
  /\ worker.pc = "reading"
  /\ \E again \in BOOLEAN :
       worker' = [worker EXCEPT !.pc = "failed", !.again = again]
  /\ UNCHANGED <<job, txn, att, files, staged, req, aging, steps, crashes>>

(* _place's outcomes.  The draft lands on the row a prior run made if it is *)
(* live; otherwise job.transaction_id and attachment_id are forgotten and   *)
(* the card on a receipt (\E branches), or the account submitted against,   *)
(* decides: the bank's own row, a new row, or no account, a wait.           *)
StartedAfresh == [worker.snap EXCEPT !.txn = None, !.att = None]
Started == IF Live(worker.snap.txn) THEN worker.snap
           ELSE [worker.snap EXCEPT !.txn = None, !.att = None]

BankCandidate(t) == /\ Live(t)
                    /\ txn[t].made = None
                    /\ \A k \in Jobs : <<k, t>> \notin att

(* finish_placement: the photo goes on the row unless the job has one       *)
(* already; the staging directory goes, before any commit.                  *)
PlacedUnpointed(row, j, t) == [row EXCEPT !.att = IF j \in Receipts THEN t ELSE @,
                                          !.status = "done",
                                          !.err = FALSE]
PlacedOnItself(row, j, t) == [row EXCEPT !.txn = t,
                                         !.att = IF j \in Receipts THEN j ELSE @,
                                         !.status = "done",
                                         !.err = FALSE]
Placed(row, j, t) == [row EXCEPT !.txn = t,
                                 !.att = IF row.att = None /\ j \in Receipts
                                           THEN t ELSE @,
                                 !.status = "done",
                                 !.err = FALSE]

PlaceOn(j, t) ==
  LET new == Placed(Started, j, t) IN
  /\ worker' = [worker EXCEPT !.pc = "placed", !.new = new]
  /\ files' = files \cup Stored(j, worker')
  /\ staged' = staged \ {j}

Place ==
  LET j == worker.job
      row == Started IN
  /\ worker.pc = "reading"
  /\ Exists(j)
  /\ ~RequestLocks(j)
  /\ \/ row.txn # None /\ PlaceOn(j, row.txn) /\ UNCHANGED txn
     \/ /\ row.txn = None
        /\ j \in Receipts
        /\ \E t \in Txns : BankCandidate(t) /\ PlaceOn(j, t)
        /\ UNCHANGED txn
     \/ /\ row.txn = None
        /\ row.acct \/ j \in Receipts
        /\ \E t \in Txns : CreateIn(j, t) /\ PlaceOn(j, t)
     \/ /\ row.txn = None
        /\ ~row.acct
        /\ worker' = [worker EXCEPT !.pc = "placed",
                        !.new = [row EXCEPT !.status = "unplaced", !.err = FALSE]]
        /\ UNCHANGED <<txn, files, staged>>
  /\ UNCHANGED <<job, att, req, aging, steps, crashes>>

(* The row was deleted while the model read: the flush finds no row         *)
(* (StaleDataError) before anything reaches the disk.                       *)
PlaceLost ==
  /\ worker.pc = "reading"
  /\ ~Exists(worker.job)
  /\ worker' = [worker EXCEPT !.pc = "failed"]
  /\ UNCHANGED <<job, txn, att, files, staged, req, aging, steps, crashes>>

(* The commit of a placement, and of a recorded failure.                    *)
WorkerCommit ==
  LET j == worker.job IN
  /\ worker.pc \in {"placed", "recorded"}
  /\ job' = [job EXCEPT ![j] = Merge(@, worker.snap, worker.new)]
  /\ txn' = Settle(worker.new.txn, "live")
  /\ att' = att \cup Stored(j, worker)
  /\ worker' = IdleWorker
  /\ UNCHANGED <<files, staged, req, aging, steps, crashes>>

(* The commit of a placement fails: rolled back, and recorded as failed.    *)
CommitFails ==
  /\ "commit" \in Windows
  /\ worker.pc = "placed"
  /\ txn' = Settle(worker.new.txn, "void")
  /\ \E again \in BOOLEAN :
       worker' = [worker EXCEPT !.pc = "failed", !.again = again,
                                !.snap = NoRow, !.new = NoRow]
  /\ UNCHANGED <<job, att, files, staged, req, aging, steps, crashes>>

MayRetryOnceMore(again, row) == again /\ row.attempts <= MaxAttempts
MayRetry(again, row) == again /\ row.attempts < MaxAttempts

(* _create_failure_stub makes nothing for a job that has its row already.   *)
StubAlwaysNeeded(row) == TRUE
StubNeeded(row) == row.txn = None

(* The stub gets the photo if it is staged and decodes; one that does not   *)
(* decode fails the upload after the stub was made, and stays staged.       *)
NoStubPhoto(j) == FALSE
StubPhoto(j) == j \in staged /\ job[j].legible

(* record_job_failure, in a third session: a retry after a backoff, or the  *)
(* end of the job and a $0 stub in its account.  With no account, or one    *)
(* closed or deleted since, it waits, unplaced.  What goes wrong making the *)
(* stub is logged and swallowed: the job ends with no row, or with a row    *)
(* that has no photo.                                                       *)
RecordFailure ==
  LET j   == worker.job
      row == job[j]
      retry == MayRetry(worker.again, row)
      Ends(new) == worker' = [worker EXCEPT !.pc = "recorded", !.snap = row,
                                            !.new = [new EXCEPT !.err = TRUE]]
  IN
  /\ worker.pc = "failed"
  /\ Exists(j)
  /\ ~RequestLocks(j)
  /\ \/ /\ retry
        /\ Ends([row EXCEPT !.status = "queued", !.due = FALSE])
        /\ UNCHANGED <<txn, files, staged>>
     \/ /\ ~retry /\ ~StubNeeded(row)
        /\ Ends([row EXCEPT !.status = "error"])
        /\ UNCHANGED <<txn, files, staged>>
     \/ /\ ~retry /\ StubNeeded(row)
        /\ Ends([row EXCEPT !.status = "unplaced"])
        /\ UNCHANGED <<txn, files, staged>>
     \/ /\ ~retry /\ StubNeeded(row) /\ row.acct
        /\ \E t \in Txns :
             /\ CreateIn(j, t)
             /\ Ends([row EXCEPT !.status = "error", !.txn = t,
                        !.att = IF row.att = None /\ StubPhoto(j) THEN t ELSE @])
             /\ files' = files \cup Stored(j, worker')
             /\ staged' = IF row.legible THEN staged \ {j} ELSE staged
     \/ /\ ~retry /\ StubNeeded(row) /\ row.acct /\ "stub" \in Windows
        /\ \/ Ends([row EXCEPT !.status = "error"]) /\ UNCHANGED txn
           \/ \E t \in Txns :
                /\ CreateIn(j, t)
                /\ Ends([row EXCEPT !.status = "error", !.txn = t])
        /\ UNCHANGED <<files, staged>>
  /\ UNCHANGED <<job, att, req, aging, steps, crashes>>

(* The job is gone: nothing to record.                                      *)
RecordNothing ==
  /\ worker.pc = "failed"
  /\ ~Exists(worker.job)
  /\ worker' = IdleWorker
  /\ UNCHANGED <<job, txn, att, files, staged, req, aging, steps, crashes>>

(* _record_failure's own failure is logged and swallowed: the row stays     *)
(* 'processing' with nobody working on it until the next start.             *)
RecordLost ==
  /\ \/ worker.pc = "failed" /\ "record" \in Windows
     \/ worker.pc = "recorded" /\ {"record", "commit"} \subseteq Windows
  /\ txn' = Settle(worker.new.txn, "void")
  /\ worker' = IdleWorker
  /\ UNCHANGED <<job, att, files, staged, req, aging, steps, crashes>>

(* Time passes: a backoff ends.                                             *)
BackoffEnds(j) ==
  /\ job[j].status = "queued"
  /\ ~job[j].due
  /\ job' = [job EXCEPT ![j].due = TRUE]
  /\ UNCHANGED <<txn, att, files, staged, worker, req, aging, steps, crashes>>

----------------------------------------------------------------------------
(* The API.  A request reads the job, checks its status, works, and commits;
   nothing is locked in between, so other steps may follow the check.       *)

UserStep == steps < MaxUserSteps /\ steps' = steps + 1

Begin(r, op, j, new) ==
  /\ req[r].pc = "idle"
  /\ UserStep
  /\ req' = [req EXCEPT ![r] = [op |-> op, pc |-> "begun", job |-> j,
                                snap |-> job[j], new |-> new]]

At(r, op, pc) == req[r].op = op /\ req[r].pc = pc

(* find_duplicate_in_budget: the same bytes already hang on a live row.     *)
Duplicate(j) == \E k \in Receipts, t \in Txns :
                  <<k, t>> \in att /\ Photo[k] = Photo[j] /\ Live(t)

(* submit_receipt writes the photo to staging, then inserts the row;        *)
(* submit_description only inserts one.                                     *)
Submit(r, j) ==
  /\ job[j].status = "absent"
  /\ j \notin staged
  /\ \A q \in Requests : req[q].job # j
  /\ j \in Receipts => ~Duplicate(j)
  /\ \E acct \in BOOLEAN, legible \in IF j \in Receipts THEN BOOLEAN ELSE {TRUE} :
       Begin(r, "submit", j, [NoRow EXCEPT !.status = "queued", !.due = TRUE,
                                !.acct = acct, !.legible = legible])
  /\ staged' = staged \cup ({j} \cap Receipts)
  /\ UNCHANGED <<job, txn, att, files, worker, aging, crashes>>

SubmitCommit(r) ==
  /\ At(r, "submit", "begun")
  /\ job' = [job EXCEPT ![req[r].job] =
               [req[r].new EXCEPT !.born =
                  Cardinality({k \in Jobs : job[k].status # "absent"})]]
  /\ req' = [req EXCEPT ![r] = IdleRequest]
  /\ UNCHANGED <<txn, att, files, staged, worker, aging, steps, crashes>>

(* retry_job and reprocess_job: back to the queue with a full budget of     *)
(* attempts.                                                                *)
Requeued(row) == [row EXCEPT !.status = "queued", !.attempts = 0,
                             !.err = FALSE, !.due = TRUE]

Retry(r, j) ==
  /\ job[j].status = "error"
  /\ Begin(r, "retry", j, Requeued(job[j]))
  /\ UNCHANGED <<job, txn, att, files, staged, worker, aging, crashes>>

Reprocess(r, j) ==
  /\ job[j].status \in {"done", "error", "unplaced"}
  /\ Begin(r, "reprocess", j, Requeued(job[j]))
  /\ UNCHANGED <<job, txn, att, files, staged, worker, aging, crashes>>

Requeue(r) ==
  LET j == req[r].job IN
  /\ At(r, "retry", "begun") \/ At(r, "reprocess", "begun")
  /\ Exists(j)
  /\ ~WorkerLocks(j) /\ ~RequestLocks(j)
  /\ job' = [job EXCEPT ![j] = Merge(@, req[r].snap, req[r].new)]
  /\ req' = [req EXCEPT ![r] = IdleRequest]
  /\ UNCHANGED <<txn, att, files, staged, worker, aging, steps, crashes>>

(* place_receipt, up to staged.read_bytes(): the entry waits, and a receipt *)
(* still has its staged photo.                                              *)
PlaceRequest(r, j) ==
  /\ job[j].status = "unplaced"
  /\ j \in Receipts => j \in staged
  /\ Begin(r, "place", j, [job[j] EXCEPT
                             !.status = IF job[j].err THEN "error" ELSE "done"])
  /\ UNCHANGED <<job, txn, att, files, staged, worker, aging, crashes>>

(* attach_to a row the person chose, or create_in an account; then          *)
(* finish_placement.  A photo that does not decode fails the upload.        *)
Filed(q, t) ==
  [q EXCEPT !.pc = "flushed",
            !.new = [q.new EXCEPT
                       !.txn = t,
                       !.att = IF q.snap.att = None /\ q.job \in Receipts
                                 THEN t ELSE @]]

PlaceFinish(r) ==
  LET j == req[r].job
      On(t) == req' = [req EXCEPT ![r] = Filed(@, t)]
  IN
  /\ At(r, "place", "begun")
  /\ j \in Receipts => req[r].snap.legible
  /\ \/ \E t \in Txns : Live(t) /\ On(t) /\ UNCHANGED txn
     \/ \E t \in Txns : CreateIn(j, t) /\ On(t)
  /\ files' = files \cup Stored(j, req'[r])
  /\ staged' = staged \ {j}
  /\ UNCHANGED <<job, att, worker, aging, steps, crashes>>

PlaceCommit(r) ==
  LET j == req[r].job IN
  /\ At(r, "place", "flushed")
  /\ Exists(j)
  /\ ~WorkerLocks(j) /\ ~RequestLocks(j)
  /\ job' = [job EXCEPT ![j] = Merge(@, req[r].snap, req[r].new)]
  /\ txn' = Settle(req[r].new.txn, "live")
  /\ att' = att \cup Stored(j, req[r])
  /\ req' = [req EXCEPT ![r] = IdleRequest]
  /\ UNCHANGED <<files, staged, worker, aging, steps, crashes>>

(* delete_job: the DELETE is flushed, the staging directory goes, and only  *)
(* then does CommitRoute commit.                                            *)
Delete(r, j) ==
  /\ Exists(j)
  /\ job[j].status # "processing"
  /\ Begin(r, "delete", j, job[j])
  /\ UNCHANGED <<job, txn, att, files, staged, worker, aging, crashes>>

DeleteFlush(r) ==
  LET j == req[r].job IN
  /\ At(r, "delete", "begun")
  /\ Exists(j)
  /\ ~WorkerLocks(j) /\ ~RequestLocks(j)
  /\ req' = [req EXCEPT ![r].pc = "flushed"]
  /\ staged' = staged \ {j}
  /\ UNCHANGED <<job, txn, att, files, worker, aging, steps, crashes>>

DeleteCommit(r) ==
  /\ At(r, "delete", "flushed")
  /\ job' = [job EXCEPT ![req[r].job].status = "deleted"]
  /\ req' = [req EXCEPT ![r] = IdleRequest]
  /\ UNCHANGED <<txn, att, files, staged, worker, aging, steps, crashes>>

(* A request ends in an error and rolls back: its row is gone, its photo    *)
(* does not decode, or (in the window) its commit fails.                    *)
Abort(r) ==
  /\ \/ req[r].op \notin {"none", "submit"} /\ ~Exists(req[r].job)
     \/ /\ At(r, "place", "begun")
        /\ req[r].job \in Receipts
        /\ ~req[r].snap.legible
     \/ "commit" \in Windows /\ req[r].pc = "flushed"
  /\ txn' = Settle(IF req[r].op = "place" THEN req[r].new.txn ELSE None, "void")
  /\ req' = [req EXCEPT ![r] = IdleRequest]
  /\ UNCHANGED <<job, att, files, staged, worker, aging, steps, crashes>>

(* What a person does to the transaction itself: approve it, delete it, and *)
(* take the deletion back.                                                  *)
Approve(t) ==
  /\ UserStep
  /\ Live(t) /\ ~txn[t].approved
  /\ txn' = [txn EXCEPT ![t].approved = TRUE]
  /\ UNCHANGED <<job, att, files, staged, worker, req, aging, crashes>>

DeleteTxn(t) ==
  /\ UserStep
  /\ Live(t)
  /\ txn' = [txn EXCEPT ![t].state = "deleted"]
  /\ UNCHANGED <<job, att, files, staged, worker, req, aging, crashes>>

RestoreTxn(t) ==
  /\ UserStep
  /\ txn[t].state = "deleted"
  /\ txn' = [txn EXCEPT ![t].state = "restored"]
  /\ UNCHANGED <<job, att, files, staged, worker, req, aging, crashes>>

----------------------------------------------------------------------------
(* The nightly passes, and a crash *)

(* delete_finished_before selects ids, then deletes by id and looks no more *)
(* (in the window a job may be taken up again in between, and is deleted);  *)
(* cleanup_old_jobs clears their staging after the commit.  Which jobs are  *)
(* old enough is left open.                                                 *)
Expirable(j) == job[j].status \in {"done", "error"} /\ ~NeedsReview(j)

Expire(old) ==
  /\ \A j \in old : ~WorkerLocks(j) /\ ~RequestLocks(j)
  /\ job' = [j \in Jobs |-> IF j \in old THEN [job[j] EXCEPT !.status = "deleted"]
                                         ELSE job[j]]
  /\ staged' = staged \ old
  /\ UNCHANGED <<txn, att, files, worker, req, steps, crashes>>

RetentionPass ==
  /\ "retention" \notin Windows
  /\ \E old \in (SUBSET {j \in Jobs : Expirable(j)}) \ {{}} : Expire(old)
  /\ UNCHANGED aging

RetentionSelect ==
  /\ "retention" \in Windows
  /\ aging = {}
  /\ aging' \in (SUBSET {j \in Jobs : Expirable(j)}) \ {{}}
  /\ UNCHANGED <<job, txn, att, files, staged, worker, req, steps, crashes>>

RetentionDelete ==
  /\ aging # {}
  /\ Expire(aging)
  /\ aging' = {}

(* sweep_orphaned_staging: directories whose job has no row.  No minimum    *)
(* age, so a submission between its file and its row is such a directory.   *)
Submitting(j) == \E r \in Requests : At(r, "submit", "begun") /\ req[r].job = j

OrphansOfIdle == {j \in staged : job[j].status \notin ACTIVE_STATUSES}
Orphans == {j \in staged : ~Exists(j)}

StagingSweep ==
  LET gone == IF "sweep" \in Windows THEN Orphans
              ELSE {j \in Orphans : ~Submitting(j)} IN
  /\ gone # {}
  /\ staged' = staged \ gone
  /\ UNCHANGED <<job, txn, att, files, worker, req, aging, steps, crashes>>

(* sweep_orphaned_attachment_files: files no row references, older than a   *)
(* day (ORPHAN_MIN_AGE), which no upload in flight is.                      *)
NoneInFlight(j, t) == FALSE
InFlight(j, t) == \/ Uploading(j, worker) /\ worker.new.att = t
                  \/ \E r \in Requests : Uploading(j, req[r]) /\ req[r].new.att = t

FileSweep ==
  LET kept == {f \in files : f \in att \/ InFlight(f[1], f[2])} IN
  /\ files # kept
  /\ files' = kept
  /\ UNCHANGED <<job, txn, att, staged, worker, req, aging, steps, crashes>>

(* A handler has changed the disk and not committed what says so.           *)
DiskAhead == \/ \E j \in Jobs : Uploading(j, worker)
             \/ \E r \in Requests : req[r].pc = "flushed"

(* reset_stale_processing: back to the queue, attempts kept.                *)
NotRecovered(row) == row
Recovered(row) == IF row.status = "processing"
                    THEN [row EXCEPT !.status = "queued"] ELSE row

(* The process dies and starts again: sessions roll back, files stay, and   *)
(* startup_recovery requeues what was being processed.                      *)
CrashRestart ==
  /\ crashes < MaxCrashes
  /\ DiskAhead => "commit" \in Windows
  /\ crashes' = crashes + 1
  /\ job' = [j \in Jobs |-> Recovered(job[j])]
  /\ txn' = [t \in Txns |-> IF txn[t].state = "pending"
                              THEN [txn[t] EXCEPT !.state = "void"] ELSE txn[t]]
  /\ worker' = IdleWorker
  /\ req' = [r \in Requests |-> IdleRequest]
  /\ aging' = {}
  /\ UNCHANGED <<att, files, staged, steps>>

----------------------------------------------------------------------------
WorkerNext == \/ \E j \in Jobs : Claim(j)
              \/ Load \/ ReadFails \/ Place \/ PlaceLost \/ WorkerCommit
              \/ CommitFails \/ RecordFailure \/ RecordNothing \/ RecordLost

RequestNext(r) == \/ SubmitCommit(r) \/ Requeue(r) \/ PlaceFinish(r)
                  \/ PlaceCommit(r) \/ DeleteFlush(r) \/ DeleteCommit(r)
                  \/ Abort(r)

PeopleNext == \/ \E r \in Requests, j \in Jobs :
                   \/ Submit(r, j) \/ Retry(r, j) \/ Reprocess(r, j)
                   \/ PlaceRequest(r, j) \/ Delete(r, j)
              \/ \E t \in Txns : Approve(t) \/ DeleteTxn(t) \/ RestoreTxn(t)

NightlyNext == RetentionPass \/ RetentionSelect \/ RetentionDelete
               \/ StagingSweep \/ FileSweep

Next == \/ WorkerNext
        \/ \E r \in Requests : RequestNext(r)
        \/ PeopleNext
        \/ \E j \in Jobs : BackoffEnds(j)
        \/ NightlyNext
        \/ CrashRestart

(* The worker polls for ever and its model calls time out; a handler runs   *)
(* to its end; a backoff passes.  Nothing else is owed.                     *)
Fairness == /\ WF_vars(WorkerNext)
            /\ \A r \in Requests : WF_vars(RequestNext(r))
            /\ \A j \in Jobs : WF_vars(BackoffEnds(j))

Spec == Init /\ [][Next]_vars
FairSpec == Spec /\ Fairness

----------------------------------------------------------------------------
(* Properties *)

(* Every variable has its type.                                             *)
TypeOK ==
  /\ job \in [Jobs -> Row]
  /\ txn \in [Txns -> TxnRow]
  /\ att \subseteq Jobs \X Txns
  /\ files \subseteq Jobs \X Txns
  /\ staged \subseteq Receipts
  /\ worker \in Worker
  /\ req \in [Requests -> Request]
  /\ aging \subseteq Jobs
  /\ steps \in Nat
  /\ crashes \in Nat

(* At most one request at a time: the worker, the sweeps and crashes still  *)
(* interleave with it.                                                      *)
SerialRequests == \A q, r \in Requests : q = r

(* "the entry is never stranded": a job that says it is finished points at  *)
(* a transaction, whichever of the five paths finished it.                  *)
FinishedHasRow ==
  \A j \in Jobs : job[j].status \in {"done", "error"} => job[j].txn # None

(* receipt_placement: an unplaced entry has no transaction, so no balance   *)
(* moves until someone says where it goes.                                  *)
UnplacedHasNoRow ==
  \A j \in Jobs : job[j].status = "unplaced" => job[j].txn = None

(* A finished receipt has its photo attached, when it decodes at all.       *)
FinishedHasPhoto ==
  \A j \in Receipts :
    job[j].status \in {"done", "error"} /\ job[j].legible
      => <<j, job[j].att>> \in att \cap files

(* Attempts are bounded by max_attempts, plus one per crash mid-read: the   *)
(* claim itself checks nothing, so this rests on record_job_failure.        *)
AttemptsBounded ==
  \A j \in Jobs :
    /\ job[j].attempts <= MaxAttempts + crashes
    /\ job[j].status = "queued" => job[j].attempts < MaxAttempts + crashes

(* A job is 'processing' only while the worker holds it: no row is left in  *)
(* a status from which retry, reprocess, place and delete all refuse it.    *)
ProcessingIsHeld ==
  \A j \in Jobs : job[j].status = "processing"
                    => worker.pc # "idle" /\ worker.job = j

(* A receipt's photo is where someone can find it: in staging, under a      *)
(* committed or committing attachment row, or given up in a delete.         *)
Findable(j) ==
  \/ j \in staged
  \/ \E t \in Txns : /\ <<j, t>> \in files
                     /\ <<j, t>> \in att \/ InFlight(j, t)
  \/ RequestLocks(j)

(* While its job exists a receipt's photo is on disk where someone can find *)
(* it, as long as each handler that has changed the disk comes to commit.   *)
PhotoKept == \A j \in Receipts : Exists(j) => Findable(j)

(* A handler has taken j's photo from staging and not yet committed.        *)
Unsettled(j) == RequestLocks(j) \/ \E t \in Txns : InFlight(j, t)

(* "restarts lose nothing", but for what finish_placement took from staging *)
(* and did not come to commit.  A photo is lost in that one way: in the     *)
(* step that rolls back the last handler that took it, and which leaves the *)
(* job without a word of it.  No sweep, retention pass, race of requests,   *)
(* deletion or later failure loses one, staged or attached.                 *)
LostByRollback ==
  [][\A j \in Receipts :
       Exists(j) /\ Findable(j) /\ Exists(j)' /\ ~Findable(j)'
         => /\ Unsettled(j) /\ ~Unsettled(j)'
            /\ job'[j].att = None]_vars

(* Every attachment row's file is on disk, whatever crashed or was swept.   *)
AttachmentHasFile == att \subseteq files

(* "the same row, never a second one": a job's read makes one transaction,  *)
(* unless the person deleted the earlier one.                               *)
OneRowPerJob ==
  \A t, u \in Txns :
    /\ txn[t].state = "live" /\ txn[u].state = "live"
    /\ txn[t].made # None /\ txn[t].made = txn[u].made
    => t = u

(* A job that is gone makes no transaction: a delete, a retention pass or a *)
(* crash that meets a read in progress wins against it.                     *)
GoneJobsMakeNothing ==
  [][\A t \in Txns :
       txn[t].state = "pending" /\ txn'[t].state = "live"
         => job'[txn[t].made].status \in Statuses]_vars

(* Every queued entry is read to an end: it is filed, failed, left waiting  *)
(* for an account, or deleted.                                              *)
QueuedIsRead ==
  \A j \in Jobs :
    job[j].status \in ACTIVE_STATUSES ~> job[j].status \notin ACTIVE_STATUSES
=============================================================================
