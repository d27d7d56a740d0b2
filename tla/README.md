# IGAB in TLA+

TLA+ specifications of the parts of IGAB (a self-hosted envelope-budgeting
server: FastAPI, PostgreSQL, one background worker, a nightly scheduler and a
React client) whose correctness depends on the order in which things happen.
TLC checks each module on small instances, TLAPS proves the main properties for
every value of the constants. Paths below are relative to
`src/backend/src/igab/`.

## Running it

    tlc -config ai_jobs_serial.cfg MCAIJobs.tla
    tlc -config snapshot_cache.cfg MCSnapshotCache.tla
    tlc -config change_log.cfg MCChangeLog.tla
    tlc -config ledger.cfg MCLedger.tla
    tlc -config bank_sync.cfg MCBankSync.tla
    tlc -config scheduled.cfg MCScheduledPosting.tla
    tlapm AIJobsProofs.tla
    tlapm AIJobsRowProofs.tla
    tlapm SnapshotCacheProofs.tla
    tlapm ChangeLogProofs.tla
    tlapm LedgerProofs.tla
    tlapm BankSyncProofs.tla
    tlapm ScheduledPostingProofs.tla
    tlapm Induction.tla

`PROJECT.json` lists every run with its configuration and what it expects, the
source lines each definition stands for, the hazards, the findings, and for each
property a mutated definition under which TLC finds the property violated.
Operators marked "Mutant" in a module serve only there.

## The system

One process serves the API and runs two background loops: the AI worker
(`tasks/ai_worker.py`, started in `main.py`) and the scheduler
(`tasks/scheduler.py`: due schedules, hourly bank sync, retention, sweeps,
snapshots). They share the database and two directories (staged photos,
attachment files). Every request and every job opens a session
(`db/session.py`, PostgreSQL's default READ COMMITTED), flushes as it goes, and
commits once: `CommitRoute` (`api/route.py`) commits before the response is
sent. Few rows are locked; almost all handlers read, decide and write.

| Component | State | Operations | What is hard | Correct when |
|---|---|---|---|---|
| AI job queue | `ai_jobs` rows, staged photos | submit, claim, place, fail, retry, reprocess, place by hand, delete, expire | disk and database commit apart; crash; retry of what was done; stale status | one entry, one row; nothing stranded; no photo lost |
| Attachments | attachment rows, files | upload, delete, sweep | file before row, sweep against upload | a row has its file |
| Snapshot and walk caches | snapshot rows, meta row, in-process entries | invalidate, rebuild, read, store | visibility at READ COMMITTED, two locks, rollback | valid means current |
| Envelopes and moves | assignments, moves | assign, move, cover, delete an envelope | read-modify-write of amounts | money conserved, moves equal amounts |
| Change log, undo, redo | change rows with seq, batch, undone mark | undo latest, one, batch, newer; undo a move; redo | batches interleave in seq; deltas against absolute values; locks in between | undo then redo is the identity, a batch is a unit |
| Transactions, transfers, splits, merges | transactions | create, edit, delete, merge | pairs and families edited one at a time | legs cancel, parts sum up, reconciled rows stay |
| Reconciliation | cleared and locked rows | status, adjust, finish | check and lock are two queries | what is locked was balanced |
| SimpleFIN sync, matching | sync ids, runs, matches | fetch, import, pair, match, relink | overlap, new ids, failure, person's edits | each posting is one row |
| Scheduled transactions | next date, last posted | post, enter now, skip, catch up | two posters; month ends; downtime | each occurrence once |
| Snapshots, backups | files | take, restore, prune | retention arithmetic, restore in one transaction | what should be kept is kept |
| Imports, plans, targets, reports, liabilities, guide, users, settings | their tables | edits and reads in one transaction | arithmetic and validation | ordinary tests reach these |
| Web client, deployment | - | starts requests, serves files | - | - |

`PROJECT.json` gives the source files of each and whether it is modelled.

How they interact: the queue creates transactions through the transaction
service and files through the attachment service; bank rows arrive from the
sync and a receipt may land on one; every write of a transaction, an assignment
or a category runs the cache's hook; every edit is recorded in the change log,
in the same session; undo edits rows that reconciliation, the sync and the
scheduler edit too.

## Modules

| Module | What it is |
|---|---|
| `AIJobs`, `MCAIJobs` | the queue, its requests, its worker, the sweeps, crashes |
| `AIJobsProofs`, `AIJobsRowProofs` | theorems about `AIJobs`; the second extends the first |
| `SnapshotCache`, `MCSnapshotCache` | the balance cache, the walk cache and the two locks |
| `SnapshotCacheProofs` | theorems about `SnapshotCache` |
| `ChangeLog`, `MCChangeLog` | the change log, undo, redo and the rows they write |
| `ChangeLogProofs` | theorems about `ChangeLog` |
| `Ledger`, `MCLedger` | the register: splits, transfers, merges, reconciliation |
| `LedgerProofs` | theorems about `Ledger` |
| `Induction` | induction and least elements over the numbers, said of sets, for the proofs |
| `BankPosting` | what a bank record may change on a row; used by `Ledger` and `BankSync` |
| `BankSync`, `MCBankSync` | the SimpleFIN sync of one account and the review queue |
| `BankSyncProofs` | theorems about `BankSync` |
| `BankBook` | what the sync promises; `BankSync` implements it |
| `ScheduledPosting`, `MCScheduledPosting` | schedules, their calendar and the runs that post them |
| `ScheduledPostingProofs` | theorems about `ScheduledPosting` |

The `MC` modules give the constants their values and hold no model of code.
`ChangeLog`, `Ledger` and `BankSync` look at the same table with different
eyes: which rows of the log are live; which rows belong together; which
purchase a row is. What one of them leaves out is in another.

### AIJobs

A photo or a description becomes a row of `ai_jobs`; the worker claims it,
reads it with a model, and places the draft. Each entry lives in rows, which
commit and roll back, and in files, which do not, so a handler is cut where its
effects become visible: what it read, what it did to the disk, its commit.

- `job`, `txn`, `att` are the committed tables (`txn` also holds rows inserted
  and not committed, as `pending`); `files` and `staged` are the disk; `worker`
  and `req` are sessions, each with the row it loaded (`snap`) and the row it
  will write (`new`). `Merge` is the ORM's UPDATE: changed columns only.
- Worker: `Claim` (claim_next, SKIP LOCKED), `Load`, `ReadFails`, `Place` (the
  outcomes of `_place`: the row of an earlier run, the bank's row, a new row, a
  wait for an account), `WorkerCommit`, `CommitFails`, `RecordFailure` (retry
  with backoff, or a $0 stub, or a wait; a stub that cannot be made is logged
  and swallowed), `RecordLost`.
- Requests: submit, retry, reprocess, place, delete; each begins with its check
  and ends in its commit or in `Abort`.
- Nightly: retention, the staging sweep, the attachment file sweep.
- `CrashRestart`: sessions roll back, files stay, `startup_recovery` requeues.
- `Windows` names five races so that a run can tell what holds without them:
  `commit` (a crash or a failed commit between a handler's change to the disk
  and its commit), `record` (recording a failure fails), `stub` (the row a
  failure should leave, or its photo, cannot be made), `sweep` (the staging
  sweep meets a submission in progress), `retention` (something runs between
  retention's select and its delete). What holds with each open is said under
  "What is proved".

What the model reads is a choice among outcomes; legibility of a photo is fixed
at submission; amounts, dates and payees play no part. Uploads made by hand and
the AI chat are not in the module.

### SnapshotCache

The balances of a month come from cached rows whose validity is the presence of
one meta row. A flush of a watched change first deletes that row
(`db/invalidation.py`); a summary that finds none takes an advisory lock, looks
again and rebuilds (`_snapshot_balances`). The card walk is kept in process
memory under the generation in the meta row (`services/walk_cache.py`).

- A process is a database transaction. One SQL statement is one action, because
  at READ COMMITTED each statement sees what is committed when it starts, plus
  the transaction's own writes (`Seen`, `Generation`, `SeenRows`).
- A figure is the set of writes it counts. `Categories`, `Activity` and
  `Assigned` are the writes seen by the three queries of a rebuild, which run at
  different moments: categories before anything else, then transactions, then
  assignments. What a hook watches is not modelled column by column: a write is
  one that a cache reads.
- `Invalidate` is the hook's DELETE with PostgreSQL's semantics: it removes the
  rows it sees, waits (`blocked`) for another DELETE of the same row, and on
  waking (`Unblock`) does not see a row inserted since. `metaLock` is that row
  lock. A hook's DELETE runs before the write (`flush`).
- `Read`, `CheckValid`, `TakeLock`, `Recheck`, `ReadActivity`, `ReadAssigned`,
  `Replace`, `ReadLatest` are `get_budget_summary` with `_snapshot_balances` and
  `_rebuild_snapshots`; `ReadGeneration`, `ReadLegs`, `StoreWalk` are
  `card_walk`.
- `Commit` publishes all at once and drops both locks; `Rollback` may come at
  any point and stands for errors, disconnects and deadlock victims.
- `raced`, `late` and `began` are history variables, read by properties only.

One budget and one month of the walk are modelled (the hook deletes the meta
row of every budget, so budgets differ only in their rows; entries of different
months are independent). The anchor and the accounts are read at the same point
as the categories and are covered by them. Objects a session has cached from an
earlier read are not modelled: the rebuild's queries return sums.

### ChangeLog

Every edit writes a row of `change_log` with its before and after, a batch and
a sequence number; undo and redo read it back (`services/undo_service.py`).

- `db` is the current row of each entity, an envelope's amount in one month or
  one of the two bank rows of a movement of money; `log` is the table in the
  order of `seq`; `moves` are the live rows of `budget_moves`.
- `BeginAssign`/`FinishAssign`, `BeginMoves`/`FinishMoves` and
  `BeginUndoMove`/`FinishUndoMove` are requests that write absolute amounts from
  what they read: two steps, with any other request between. Other requests,
  undo and redo are one step each. One of the two-step requests runs at a time.
- `UndoLatest` (the undo key), `UndoChange`, `UndoBatchLeniently` (from the sync
  log), `UndoNewer` and `RedoLatest` go through `UndoAllowed`, `UndoFresh`,
  `Undone` and their counterparts for redo, which are the guards and the writes
  of the code for these two kinds of entity. `Sweep` is the loop over a batch;
  a row refused refuses the request, except in a lenient undo.
- `SyncImport` and `SyncCommit` are a sync's open transaction, whose rows get
  their place in `seq` before anybody sees them; `EditMemo`, `EditAmount`,
  `ToggleCleared`, `Delete`, `Unreconcile` and `Finish` are the requests that
  move the rows on.
- `raced`, `forced`, `torn`, `did` and `prior` are history variables.

Undo of other entity types (accounts, categories, splits, attachments, rows
re-inserted under a natural key) is left out, and so is taking back one removal
of a sync run (`undo_row_removal`).

### Ledger

The register is a table in order of creation. A row keeps its account, amount,
cleared state, whether it has a category, which account its payee names, its
partner, its parent, and the bank's id and amount. `R` in an operator is a table
of rows: operations are compositions of functions on tables (`Joined`,
`Collapsed`, `Relinked`, `Absorbed`, `Uncategorized`, ...), each a helper of the
code.

- Requests: `Create`, `CreateTransfer`, `CreateSplit`,
  `SplitRow`, `Update` (of a plain row, of a leg with its partner, of a split
  with its lines), `Break`, `Unmark`, `Retarget`, `Link`, `CreateFarLeg`,
  `Delete`, `Unreconcile`, `ApplyBankPosting`, `SyncRow`,
  `RepairTransfers`, `RepairTracking`, `Merge`, `BeginFinish`, `Finish`.
- `BeginFinish` reads the cleared balance and `Finish` locks the rows that are
  cleared by then: `reconciliation_service.finish` uses two queries.
- `vouched` (the statement an account was reconciled to) and `strayed` (rows
  whose category was placed, or whose line was unlocked, by a write the code
  leaves unchecked) are history variables.

The rules (`Formed`, `SplitsWhole`, `LegsPaired`, `FiledRight`, `Agrees`) are
predicates of a table; the invariants say them of `rows`. `BooksAssumption` asks
of the ledgers a run starts from that they keep the rules: TLC checks it of the
seeds.

All rows share one date. Bulk requests repeat single ones.

### BankSync

One linked account, its bank, the person and the calendar.

- `purchases` and `bank` are the bank's side: what was bought, and the record
  it reports of it now (a hold, a posting, nothing, another id). `Announce`,
  `Post`, `Omit`, `Return` and `Reissue` are the bank's doing; `Tick` passes to
  the next of `Days`.
- `Sync`, `Refetch`, `SyncRelinks` and `Relink` are runs. A run holds the
  connection's lock and commits once, so it is one step, `Serve`: the window
  (`Window`, `OpenHolds`), what the bank answers with (`Answers`, the second,
  wider fetch failing or not), the strict pass and the full pass over the
  records in any order of the feed (`Posted`, `PostFeedRow`, `Identified`,
  `DecideMatch`, `TryMatch`), and the judging of rows the feed left out
  (`Judged`, `Unlink`, `Reviewable`, `DropHolds`).
- `Enter`, `TickOff`, `Delete`, `Restore`, `Reconcile`, `InReview` and
  `InReviewPosted`, `AcceptMatch`, `RejectMatch` and `Scan` are the person's
  requests.
- `of`, the purchase a row is about, is known to the properties only: nothing
  the code is modelled by reads it.

`BankBook` states what the sync promises of each purchase: reported or not,
asked for or not, and `absent`, `shown` or `dismissed` in the register. A run
shows everything its window asks for, hides nothing it asks for and brings
nothing back. `Book == INSTANCE BankBook WITH ...` is the refinement mapping,
and `BookKept == Book!Spec` the property. The promise has two exceptions, both
tombstones that carry a purchase's id while its row stands under an older one:
`doubled`, a row a merge gave up (`TombstoneIsDecision` is the run that shows
it), and `refused`, a row a person removed. The second came out of the proof:
the bank changes the id of a purchase that is in the register, a run brings it
in again under the new id, the person removes that row, and a later run gives
the first row to another purchase of the amount; the purchase then stands
nowhere and is skipped. The seed `Tipped` of `MCBankSync` reaches it in three
steps.

`ImportsAsk` is about steps, not states: what a run adds beside an unlinked row
of the amount it must ask about in that run. That no two rows of one purchase
ever stand unasked is not true of the code: over thirteen steps and more, ids,
amounts and decisions of several runs leave two rows no query compares again.

### ScheduledPosting

- Days are numbers and `Start` the first days of the months; `StepMonths`,
  `NextTwice`, `NextOccurrence` and `Upcoming` are `domain/schedule.py`,
  `Projected` is the projection of cash ahead. They are compared with `Falls`,
  which says of the calendar, not of the step before, which days a schedule
  falls on.
- `job` are the nightly run and the run at start-up, each a budget at a time:
  `BeginRun`, `LoadDue` (reads), `CommitDue` or `FailDue`. `request` are
  people's transactions: `BeginEnter`/`CommitEnter`, `BeginSkip`/`CommitSkip`,
  `RefuseEnter`, and the one-step `Create`, `EditEnd`, `Delete`, `Refile`.
- `broken` are the schedules that file into an envelope that takes no row (an
  archived one, a card's, a debt's: `require_categorizable`). `Create` and
  `Refile` lead there, for both check only that the category is of the budget
  (`scheduled_transaction_service.py:140`). Archiving an envelope under a live
  schedule does not: `category_service.py:297` refuses it. The third way there,
  the undo of a schedule's delete after its envelope was archived, is not
  modelled.
- A transaction keeps the row it has loaded and writes absolute dates: `raced`
  marks the schedules that were written so from a row that had changed.
- `Midnight`, `Crash`, `StartUp`: the job store is in memory, so a night spent
  down is caught up by the start-up run alone.

Editing frequency, start and next date, undo of an entry and the warning about
an outdated schema are left out.

## What the runs show

Passing runs:

| Run | Instance | Shows |
|---|---|---|
| `ai_jobs_serial` | a receipt and a description, 3 rows of which 1 from the bank, 1 request at a time, 3 user steps, 1 crash, no window, fairness | every invariant of the queue, and that every queued entry is read to an end |
| `ai_jobs_races` | 1 receipt, 2 requests at once, 5 user steps, 1 crash, all five windows | what survives every race: attachments have files, gone jobs make nothing, a photo is lost in one way only |
| `snapshot_cache` | 2 transactions, one write per query, 2 rebuilds after the initial generation | the cache and the walk are honest, reads are bounded, a burst rebuilds once |
| `change_log` | 5 scopes: two envelopes; both legs to come; both legs there; an envelope and a leg; an envelope and both legs; 3 to 7 log rows, 2 undos | amounts replay from the log, moves and pairs stay whole, redo returns, locks hold |
| `ledger` | 6 ledgers of 2 to 4 rows, 3 accounts, 2 operations | splits, transfers, categories and statements survive any two requests |
| `bank_sync` | 3 purchases of one price, 4 days, 5 steps from an empty register, 4 from each of four seeded ones and 3 from three more | the sync implements `BankBook`; no row added beside an unlinked one unasked, no typed row dropped, every unlinking told, no pair locked twice |
| `scheduled` | 2 schedules, 2 budgets, 2 transactions of people, 3 nights over 13 months | schedules stay on their days, miss none, post once, post what was projected, and catch up |

Properties, each stated in words above its definition:

- queue: `FinishedHasRow`, `UnplacedHasNoRow`, `FinishedHasPhoto`,
  `AttemptsBounded`, `ProcessingIsHeld`, `PhotoKept`, `AttachmentHasFile`,
  `OneRowPerJob`; over steps `GoneJobsMakeNothing`, `LostByRollback`;
  liveness `QueuedIsRead`;
- cache: `CacheHonest`, `WalkCurrent`, `RebuildIsNeeded`; over steps
  `ReadBounds`;
- change log: `AssignedIsReplay`, `MoveAudit`, `PairsWhole`, `RedoReturns`; over
  steps `LockedStays`;
- register: `SplitIntegrity`, `TransferIntegrity`, `GuardedPlacement`,
  `StatementHolds`;
- sync: `NothingTypedIsDropped`, `UnlinkedIsTold`; over steps `LockedOnce`,
  `ImportsAsk`; refinement `BookKept`;
- schedules: `OnItsDays`, `NoneMissed`, `PostedOnce`, `ForecastPosts`; liveness
  `DuePosts`.

Runs that TLC refutes, each against a sentence of the code or its tests; the
traces are summarised under "findings" in `PROJECT.json`:

| Run | Property | What happens |
|---|---|---|
| `snapshot_cache_deadlock` | `NoWaitCycle` | the advisory lock's holder waits for a DELETE whose owner waits for the advisory lock |
| `undo_key_takes_sync` | `KeySparesSync` | a sync links two legs under the person's name, and the undo key takes the whole run back |
| `ledger_category` | `CategoryPlacement` | moving a leg of a spending transfer to a budget account leaves the partner's category on an internal transfer |
| `bank_tombstone` | `TombstoneIsDecision` | a row a merge deleted still carries its bank id, and the purchase is taken for one the person deleted |
| `scheduled_budgets` | `BudgetsApart` | a schedule created into an envelope that takes no row is refused, and ends the nightly run for the budgets after its own |

### Known exceptions

Cases met while modelling that a property leaves out, by an assumption, a
history variable or a window, where the code allows what one might not expect:

- Queue. A filed receipt that is reprocessed and must then wait for an account
  has nothing staged, and cannot be placed (`ai_worker.py:351`). Staging is
  removed before the commit (`ai_worker.py:381`; the window `commit`), so a
  process that dies in between, or a commit that fails, leaves a requeued job
  without its photo, although the module's docstring says that restarts lose
  nothing. `LostByRollback` says that no photo is lost in another way;
  `PhotoKept` and `FinishedHasPhoto` are checked with that window closed. A
  failure of the stub is swallowed and ends the job without a row
  (`ai_worker.py:428`): `FinishedHasRow` and `FinishedHasPhoto` are checked with
  the window `stub` closed. Retention deletes by id what it selected a statement
  earlier (`ai_job_repo.py:186`; the window `retention`): a job that is
  reprocessed in between, or whose row is restored and needs review again, is
  deleted too, and no property says otherwise. Two place requests that both read
  "unplaced" both make a row (`ai_jobs.py:438`; `SerialRequests`). The duplicate
  check sees filed photos only, so one sent again while the first is queued
  passes (`ai_jobs.py:184`).
- Cache. A write not yet committed when a rebuild reads is missing from rows
  that stay valid (`invalidation.py:83`): `CacheHonest` excuses overlapping
  writes. A transaction may read another's rebuild, which lacks its own writes
  (`budget_service.py:1710`), and a walk may be stored under a generation newer
  than the categories it read (`budget_service.py:1055`).
- Change log. A request that wrote from a stale reading loses an update
  (`raced`); a lenient undo of a sync may take one side of a pair (`torn`). An
  edit whose row falls between two rows of a running sync closes redo of that
  sync's undo, although the edit was there before it: redo counts the live rows
  above the one undone last, which is the batch's first
  (`change_log_repo.py:165`). `RedoReturns` is therefore about a batch with
  nothing live above its first row.
  `_undo_reconcile` says that a locked row comes back only through the very
  record that locked it (`undo_restores.py:287`): undone by its id, an older
  record unlocks a row that a later reconciliation locked again. Redo of a
  delete looks whether the row is there and not whether it is locked
  (`undo_service.py:538`). So: reconcile, unreconcile, reconcile again, undo the
  first reconciliation by id, delete the row, undo everything newer than the
  first reconciliation, and redo: the second record's replay locks the row and
  the next redo deletes it; undo of that gives it back unlocked. And a forced
  undo of a memo written while the row was reconciled locks it again.
  `LockedStays` exempts a delete of a row reconciled before it, and
  `RedoReturns` a delete that redo made of a reconciled row. These take four
  undos or redos; the properties were found wrong without the exemptions on
  larger instances than the run's, when their proof was attempted.
- Register. `BankSourced` in `Ledger` takes a row for the bank's by its id alone,
  while `domain/merging.py` also looks at its source (`BankSync` does too). `repair_transfers` with a date
  tolerance depends on the order of its rows; the model has one date.
  `_create_transfer` itself does not refuse equal accounts.
- Sync. A posting may claim a row that is linked to another hold of the same
  amount which the feed still reports. Two reviews may name one row. A row a
  person typed and a run linked to a hold is judged by its typed date. A
  rejected match can still be accepted through the API.
  Three cases the properties exempt, each with a seeded ledger in the run that
  reaches it. A run offers the postings it created as partners for the rows it
  unlinks (`simplefin_service.py:1596`), also one that `try_match` has merged
  away since (`simplefin_service.py:1110`): the review is then never shown
  (`transaction_match_repo.py:13`), and the row is not listed as missing either
  (`UnlinkedIsTold`). A scan pairs any two rows, and may make a row linked to a
  hold and ticked off the person's side of a review (`find_duplicate_candidate_pairs`
  asks for `MATCHABLE_ROW` alone, and orders one day's rows by their random
  ids); `IN_REVIEW_CLEARED` leaves such a row out, its comment says that none is
  paired (`txn_filters.py:382`), and `finish` then locks both rows (`LockedOnce`).
  The same kind of row counts as a posted one when its hold posts under another
  id with another amount (`posted_bank_link`): the bank's row is put beside it,
  and if it is older than the feed's oldest posting nothing is said of it
  (`ImportsAsk` speaks of rows without a bank link). A run may ask about a hold
  that it removes later in the same run, as vanished: the review is rejected with
  the hold, and the row beside it stands unasked (`ImportsAsk`, `Raised`).
- Schedules. `enter_now` beside the nightly run, or beside another `enter_now`,
  posts one occurrence twice (`raced`).

### Bounds

Queue: three rows let a bank row, a row made by a read and the row of a second
attempt coexist; two attempts give a retry and a last attempt; one crash may
fall anywhere; five user steps give submit, a deletion of the row, its
restoration or a reprocess, a placement and a further edit. With two jobs
(`ai_jobs_serial`) three user steps are the limit of the machine; the proofs
cover the rest.

Cache: two transactions suffice for every interleaving of a writer with a
reader, three writes let each query of a rebuild miss a different one, three
generations let a rebuild be invalidated and redone.

Change log: two envelopes and a list of two moves let a move's figure chain
through another's; four to seven rows of the log hold a batch with a change on
each side of it (three, where a sync's two imports and one assignment meet); two undos give undo then redo, two undos, or undo of a
redone change. `Figures` has a changed and an unchanged amount.

Register: two operations follow each seeded ledger, and each ledger is one that
several requests reach: the seeds stand for the first steps. The seeds are
states the operations produce.

Sync: with two purchases one may take the other's row; the third, of the same
price elsewhere, is told apart by name alone. The days 0, 1, 4 and 9 fall
inside and outside the windows of 1, 2, 3, 5 and 10 days the code uses. One step
more everywhere (2.6 million states, 12 minutes) showed no violation either.

Schedules: the nights are 31 January, 4 March 2024 (after the 29th) and
28 February 2025, so monthly, twice-monthly and yearly schedules meet short
months and a non-leap year, and each night has several occurrences to catch up.
People do not work ahead of the last night (`Horizon`).

Bounds are guards of the actions they bound (`MaxUserSteps`, `MaxCrashes`,
`MaxRebuilds`, `MaxUndos`, `scope.rows`, `steps`). `CHECK_DEADLOCK FALSE` is set
because people's steps are bounded and a quiet system is a legal end. In
`SnapshotCache` the one wait that is not legal is stated as `NoWaitCycle`.

### Fairness

`AIJobs!FairSpec` asks for weak fairness of the worker loop as a whole (it polls
for ever, its model calls time out, and every outcome of a step is a way on), of
each request that has begun (a handler runs to its end, in success or error) and
of the end of each backoff (the clock). Nothing is asked of people, of the
nightly passes or of crashes. With the `record` window open `QueuedIsRead`
does not hold until a restart: a failure that cannot be recorded leaves the row
`processing`.

`ScheduledPosting!Spec` asks for weak fairness of midnight (the clock), of the
start after a crash (the container's restart policy) and of each run (the
scheduler's loop); none of people. `DuePosts` therefore says that schedules are
caught up again and again, while the register refuses none.

The other modules have no liveness property: nothing in them runs by itself
but the sync, whose success is the bank's.

## What is proved

Every theorem holds for all values of the constants that meet the named
assumptions of the module: any jobs, rows, bounds and windows, any
transactions and writes.

### The queue

Every safety property the runs check but `PhotoKept`, which stays with TLC
(`LostByRollback` says more, with no assumption).

| Theorem | Property | Assumes |
|---|---|---|
| `TypeCorrect`, `AttachmentCorrect` | `TypeOK`, `AttachmentHasFile` | - |
| `GoneCorrect` | `GoneJobsMakeNothing` | - |
| `LossCorrect` | `LostByRollback` | - |
| `UnplacedCorrect`, `AttemptsCorrect` | `UnplacedHasNoRow`, `AttemptsBounded` | `SerialRequests` |
| `FinishedCorrect` | `FinishedHasRow` | `SerialRequests`, no window `stub` |
| `OneRowCorrect` | `OneRowPerJob` | `SerialRequests` |
| `ProcessingCorrect` | `ProcessingIsHeld` | no window `record` |
| `FinishedPhotoCorrect` | `FinishedHasPhoto` | `SerialRequests`, none of the windows `commit`, `stub`, `sweep` |

`SerialRequests` is at most one request in flight, beside the worker, sweeps
and crashes: with two, a request may commit a status decided from a row it read
long before. Each assumption excludes a race the code has (see the known
exceptions), and a theorem without it would be false.

- `AttachmentHasFile` is not inductive: the file sweep removes files no
  committed row names. The strengthening adds that what any session is about to
  commit is on disk (`UploadsOnDisk`), which the sweep's `InFlight` exemption
  preserves.
- `SerialInv`: the worker's copy of a row agrees with the table on what it
  decides from (`Held`, `WorkerFresh`), its verdict and row match (`Verdict`), a
  request's copy was true when it began and nothing else can have changed it
  (`RequestFresh`, `FreshRequest`), at most one of them holds the row
  (`OneLock`), and retention has selected only rows that exist (`AgingExists`).
  Needed because what is committed was computed from a copy taken steps earlier.
- `HoldInv` (processing): nobody is about to write `processing`
  (`SettlesRows`), and a session that found its row settled cannot find it
  unsettled later (`SettledStays`). The claim alone makes a row `processing`.
- `RowInv` (one row): a live row made for a job is the one the job names
  (`RowNamed`), a committed job names no undecided row (`NamedSettled`), and the
  row a session is about to name is its own, and replaces no live one
  (`WorkerRow`, `RequestRow`).
- `NamesInv` (loss): an attachment that a job names, or named when a session
  loaded it, is committed, and only a session between its flush and its commit
  has another in hand. With `UploadsOnDisk`, whoever empties a staging directory
  leaves the photo attached, or on disk and about to be, or deletes the job
  (`StagedTaken`), and attachment rows are never taken back
  (`AttachmentsStay`); so a photo that was found and is not any more was in the
  hands of a handler that is gone. No crash, sweep, window or number of requests
  is excluded.
- `PhotoInv` (photos): an entry's photo is staged, attached, or about to be
  attached by the one session that took it from staging (`EntriesKept`); what a
  job names as its attachment is committed (`NamedAttached`); a submission
  stages before it inserts (`SubmitsStaged`).
- `FiledInv` adds that the row a session is about to name carries the photo,
  when it decodes, for every way of placing, stubbing and waiting.
- `FateInv` (fate): a session about to commit holds the lock of a row that
  exists and whose transaction is its own (`WorkerFate`, `RequestFate`), a
  committed job names no undecided row (`NamesDecided`).

### The cache

For any transactions and writes: `SnapshotTypeCorrect`, `HonestCorrect`,
`WalkCorrect`, `RebuildCorrect` and the step property `ReadCorrect`. The
inductive invariant has four parts:

- `LockInv`: whoever has found the cache invalid under the advisory lock holds
  it to its end, so while it rebuilds nobody else can commit a meta row; the
  committed row is absent, or it has deleted it itself.
- `RowsInv`: a read that no commit overlapped counts what its transaction sees;
  when the committed rows are valid and not raced, every transaction that has
  begun to write has deleted the meta row or waits to (`WillDelete`).
- `GenInv`: generations are never reused, and the generation a walk reads under
  cannot be committed by another transaction.
- `WalkInv`: what a stored walk counts while the rebuild it belongs to is not
  committed, and what a walk in progress has read.

`CacheHonest` needs all of it: at a commit, the rows that become visible were
computed statements ago by one transaction and are compared with writes of all.
The theorem says exactly when the cache may lie: only if a write was open, or
committed, during the read that rebuilt it.

### The change log

For any envelopes, figures, lists of moves, legs and number of requests:
`ChangeLogTypeOK`, `ChangeLogAssignedIsReplay`, `ChangeLogMoveAudit` and the
step property `ChangeLogLocksHold`.
`ScopesAssumption` says that an envelope is no leg and not To Be Assigned, and
`MovesAssumption` what `move_money_many` refuses (an amount that is not
positive, a move from an envelope to itself). No assumption is made on how
requests interleave, nor on the order of undos and redos: `raced` and `forced`
mark what the code leaves open.

The inductive invariant, `LogKept`, has besides the two promises:

- `LogSound`: a row is about an entity of the budget, before and after are of
  its kind, an envelope's row is an update; the rows of one move are two
  neighbours, about two envelopes, in one batch (`MovesWhole`); a batch is all
  moves or has none (`BatchesPure`); the open sync's rows are about legs
  (`SyncApart`). These are what undo by batch relies on: if it comes to one row
  of a move, it comes to the other.
- `InFlight`: what a request holds between its reading and its writing, in
  particular that an undo of a move holds all the rows the move still has.
- `Listed`: a move is listed while its rows are live. `MoveAudit` follows: the
  two rows of a move are then alive or not together.

The argument is about what the rows of a set add up to (`WorthOf`), and how a
request changes both that set and the table:

- `WorthUnfolds`, `WorthDiffers`, `WorthSame`, and one lemma for each way the
  set changes (a row taken, a row put back, a log grown).
- `UndoneIs`, `RedoneIs`: an envelope's row is written back to the recorded
  figure. A row that is fresh holds the recorded other side, so what is written
  changes the envelope by exactly the row's share; by induction along the sweep
  or the replay, the whole request does. A move undone by difference changes it
  by the row's share whatever has been written since, which is why the code may
  undo an older move and may not restore `before` there (the mutant of
  `AssignedIsReplay`).
- `TakeBackKeeps` and `GrowKeeps` are the two steps requests share, rows taken
  back and rows appended; one lemma per request (`UndoChangeKeeps`, ...,
  `FinishMovesKeeps`) shows that the request is one of them or `RedoKeeps`.

`ChangeLogLocksHold` says that no undo or redo, forced or not, touches the money
of a reconciled row, unless a reconciliation of that row, or under redo a delete
of it, is among the records it turns. A row written back keeps its locked fields
(`WrittenMoney`), so each record undone or replayed does (`UndoneMoney`,
`RedoneMoney`), so by induction a whole pass or replay does (`SweepMoney`,
`ReplayMoney`); no record of the past has to be known for that. `LockedStays` says
more, namely which deletes redo may reach.

### The register

For any accounts, amounts, bank ids and number of requests, from any ledger that
keeps the rules (`BooksAssumption`): `LedgerTypeOK`, `LedgerSplitIntegrity`,
`LedgerTransferIntegrity`, `LedgerGuardedPlacement`, `LedgerStatementHolds`.

They are one theorem, `LedgerKeepsRules`: the inductive invariant `IInv` is all
the rules at once (`Good`), with one more, `NoZeros`: no amount is zero but a
line's. No rule is inductive alone. A merge of two legs of one transfer would
leave a row that is its own partner; what forbids it is that the amounts must be
equal and, the legs being paired, opposite, so zero. A locked sum is kept by an
edit of a leg's amount because the pair's sum and the partner's lock are both
known; a split's total by a merge because the adopted lines still add up.

The argument is about two tables, the one a request reads and the one it writes:

- `TotalUnfolds`, `TotalDiffers`, `TotalSame` say what `Total` is by induction
  over the table (`Induction`); everything about sums rests on them.
- `GoodFrame`: legs, splits, locks and categories outside a set of rows keep
  what makes them right (`LegsFit`, `SplitsFit`, `LocksFit`, `FilesFit`).
- From it, one lemma per way of rewriting a table: `AppendGood` (a row is
  entered), `RewriteGood` (a row changes, its partner and lines follow),
  `ChangeGood` (rows apart from the others are written anew), `DivideGood`,
  `CollapseGood`, `LinkAllGood`, `ReclearGood`, `GoneGood`, `LeftGood`.
- One lemma per request (`CreateKeeps`, ..., `MergeKeeps`, `FinishKeeps`) shows
  that the request is one of those rewritings.

### The schedules

For any calendar, nights, schedules, budgets and number of transactions under
way: `SchedulesTypeOK`, `SchedulesOnItsDays`, `SchedulesNoneMissed`,
`SchedulesPostedOnce`, `SchedulesForecastPosts`. `ScheduleAssumption` asks that
months have 28 to 31 days and that the calendar goes on for a year after the
last night (a yearly schedule steps that far); `ScenariosAssumption`, that the
schedules a run starts from have just been set up. Neither a fairness condition
nor an assumption on how writers interleave is used: `raced` marks the one race
the code has, and the theorems say what survives it.

First the calendar, which nothing else in the argument looks into:

- `StartGrows`, `OneMonth`, `SomeMonth`, `MonthIs`, `DayInIs`: a day is in one
  month, and the n-th day of a month, clamped, is in that month.
- `EveryNext`, `MonthNext`, `TwiceNext`, put together in `StepsOn`: from a day
  of `Falls` each frequency steps to the next day of `Falls`, and over none.
  `Falls` counts from the start, the code from the date before: this is where
  they meet.
- `Reckoning`, `UpcomingIs`: the recursive function in `Upcoming` exists (the
  days every closed set has), and up to the last night it gives each later day
  of `Falls` before the end.

Then the invariant, `Promise`, whose parts need each other:

- `RowsFine`: a row stands on one of its days and none is left behind it; unless
  it was raced, each day was had once and all of them lie behind it. That is
  what makes the next posting the first of its day.
- `PlansFine` and `RequestsFine`: what a run or a person has read was the row
  once (`Kin`): nobody edits its start or frequency, and whatever happens to the
  row meanwhile, the days behind the date that was read stay had. So a commit
  may move the stored date back, but never over a day that was not had. What a
  run has worked out (`Turn`) leaves out no day before the date it will write.
- `TurnKeeps` is the step all writers share: `CommitDue`, `CommitEnter` and
  `CommitSkip` are a turn of the schedule, taken for several days or for one.
  `KinStays` is why the others' reads outlive it.

### The sync

For any purchases, any set of days, any tip, any feed order and answer, and any
number of steps: `BankTypes`, `TypedRowsStay`, `UnlinkedRowsTold`,
`BankIdsSound`, the step properties `ReviewsLockOnce` and `ImportsAreAsked`, and
the refinement `SyncKeepsBook`. `BankAssumption` says that days are numbers, the
purchases finitely many and NULL is no bank id; `ScenariosAssumption` that the
registers a run starts from are sound, their ids included, and that a live row
of the bank's has its id. TLC checks both of the seeds.

The inductive invariant, `BankInv`, is `TypeOK` (rows as `SoundRow` says, one
live row for an id, matches and absences between rows that exist) and `AllTold`:
a live row that came from the bank and has no link is listed as missing, or a
match mentions it. `UnlinkedIsTold` alone would not do: a match whose other row
a run is about to merge away counts as told before that step and as the
exempted case after it.

- A run is one step of the model, so its proof is an induction of its own:
  `SoundRun` holds of the run before the first record and after each. `PassRun`
  is that induction (`PassUnfolds` shows that the pass's recursive function is
  what it says), `PostFeedRowRun` the step, with one lemma for each rung of the
  ladder: `TakenRun`, `IdentifiedRun`, `ActedRun`, `TryMatchRun`. `RunStep` says
  what each owes: the reviews of a row it takes away are cancelled, and a row it
  leaves without a link is mentioned.
- The ladder and the tie-breaks answer with one of the rows they were given
  (`FirstIn`, `BestIn`, `DecisionIn`, `ReidentifiedIn`): scores are whole numbers
  and a finite set of them has a greatest one.
- Ids: a record that takes over a row brings an id no other live row has
  (`TakingSound`); in a merge the loser has left before the survivor takes its
  record (`AbsorbedSound`). That order is what the index over live rows needs.
- Holds: only a `pending` row is removed, and no row of a person's is pending
  (`SoundRow`, kept by `PostingSound`, `RestoredSound`), so `TypedRowsStay`.
- `Steady` says of a step that it locks no row. Every action but `Reconcile` is
  steady, and two rows locked before cannot merge (`SteadyLocksOnce`); for
  `Reconcile` the second query of `finish` is what decides (`ReconcileSound`).

The refinement needs to know which rows have borne an id since the bank gave it
out. `BookInv` adds `SoundIds` to `BankInv`: an id on a row, live or gone, was
given out; a row that is gone and has one was merged or deleted by a person, so
no run's removal is ever read as a decision; and next to the live row of an id
only merged rows carry it.

- Within a run, `Follows` compares the register with the one the run found:
  rows that were gone stay as they were, a live id is one a live row had or a
  record brought whose id no row carried, and a row that goes with an id on it
  was merged by a record that has found its row. `Handled` says what a record of
  the feed owes: it is done, or waits for the second pass, which takes every
  record (`PassFollows`, `PostedFollows`). `JudgedRows` adds that the judging
  unlinks and removes rows the feed left out and no others. Together they give
  `Served`, the register after a run in terms of the one before and the feed.
- `BookServe` reads a step of `BankBook` off `Served`, purchase by purchase;
  `AsksAnswered` is why a purchase the book counts as asked for is in every
  answer, also when the wider fetch fails. The bank's steps, the person's and
  the merge of a review have lemmas of their own (`BookBankSteps`,
  `BookReissue`, `BookDelete`, `BookMerge`); every other step leaves the book as
  it is (`BookQuiet`).

`ImportsAreAsked` rests on `Asking`, said of the register after each record: a
row of the register the run has used up and left without a link is in one of its
reviews, and no row it imported stands beside a rival that is not (`Put`).
`NoRivalLeft` is the heart of it: where the ladder decides to import without a
question, no row without a link was near enough, because `Candidates` reads the
same amount and the same days the property does. `TryMatchAsks` shows that the
review is raised or the two rows are merged, `JudgedAsks` that the judging keeps
the reviews, or rejects one with the hold it removes, the case `Raised` names.

### Only model-checked

`QueuedIsRead` and `DuePosts`, because liveness and ENABLED are outside TLAPS
1.4.5.

`PairsWhole` and `RedoReturns` of `ChangeLog`, and which deletes redo may reach
in `LockedStays`: they depend on the order in which undos, redos and edits of a
bank row may follow each other (which recorded sides a row can meet when it is
written back), which `LogKept` says nothing of; `AssignedIsReplay`, `MoveAudit`
and `LocksHold` are true of undos in any order. Larger instances than the run's
showed no violation of the three: one row with five log rows and five undos and
redos, forced or not, and a synced pair with seven log rows and four, explored
in full (9 and 2 minutes); two envelopes with five log rows and four in part
(6.7 million states).

Induction over data: the library's induction theorems take an operator as a
parameter, which the provers cannot instantiate. `Induction` proves the same for
a set of numbers (`Nat \subseteq S`), from the least element of a set, and the
proofs define the set they need: what `Total` computes is proved that way.

## Not modelled

- Accounts' hygiene, categories, targets, plans, tags, views, notifications:
  one-row edits and validation inside one transaction.
- Carryover and card envelopes, reports, liabilities, amortization, runway, plan
  against spent: arithmetic over one reading of the tables. To Be Assigned, which mixes
  readings of several statements, is listed as a hazard without a property.
- Imports: one transaction over a parsed file.
- Snapshots and backups: bulk copies in one transaction and files on disk.
- Of the sync: the quota's counters (having headroom is a choice), the opening
  anchor and the drift check, pairing inside a run (its effect is in
  `ChangeLog` and `Ledger`), several accounts, records without an id, the limit
  of five candidates.
- Chat, tools, MCP and prompts: text exchanged with a language model.
- Credentials, settings, the guide, the web client, migrations and deployment:
  no protocol of their own.

The modules cover a small share of the implementation's lines: the protocols
are in a few services, and most of the repository is queries, reports, forms,
schemas and sample data, where a state machine would say nothing that a unit
test does not.

## What could come next

1. The quota, the anchor and several accounts in `BankSync`, and an import
   beside a sync.
2. Undo of the other entity types in `ChangeLog`, and two requests in flight.
3. To Be Assigned as a sum over statements, in `SnapshotCache`.
4. Retention of snapshots as a function, against a reference definition.
