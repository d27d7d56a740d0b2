--------------------------- MODULE SnapshotCache ---------------------------
(* The category balance cache of one budget: the rows of                   *)
(* category_month_snapshots, the budget_snapshot_meta row whose presence   *)
(* says they are valid, the hooks of db/invalidation.py that delete it,    *)
(* BudgetService._snapshot_balances and _rebuild_snapshots behind the      *)
(* advisory lock of db/locks.py, and the card walk kept in process under   *)
(* the meta row's generation (services/walk_cache.py).                     *)
(*                                                                         *)
(* A process is one database transaction: a request, or a scheduler job.   *)
(* The engine leaves PostgreSQL at READ COMMITTED, so each statement sees  *)
(* what is committed when it starts and the transaction's own writes; one  *)
(* statement is one action here.  A write stands for any change to a       *)
(* column the caches read, told apart by which query of a rebuild or of a  *)
(* walk reads it; a figure is the set of writes it counts.                 *)
EXTENDS Naturals

CONSTANTS
  Txs,            \* transactions that may be open at once
  Categories,     \* writes that category_repo.get_all reads, before all else
  Activity,       \* writes that sum_all_categories_by_month reads
  Assigned,       \* writes that get_all_for_budget reads
  None,
  MaxRebuilds     \* bound: generations handed out

ASSUME TxsAssumption == None \notin Txs
ASSUME WritesAssumption ==
  Categories \cap Activity = {} /\ Categories \cap Assigned = {} /\ Activity \cap Assigned = {}
ASSUME RebuildsAssumption == MaxRebuilds \in Nat

VARIABLES
  committed,      \* the writes every transaction sees
  rows,           \* the committed snapshot rows: the writes they count
  meta,           \* the committed meta row's generation, NoGen when there is none
  metaLock,       \* the transaction that has deleted that row and not ended
  lock,           \* the holder of the budget's advisory lock
  lastGen,        \* generations handed out (gen_random_uuid: never one twice)
  walk,           \* the in-process entry: its generation and what it counts;
                  \* history: a commit fell between its categories and it
  tx,             \* each transaction's own view and position
  raced           \* history: a write was open, or committed, during the
                  \* read that rebuilt the committed rows

vars == <<committed, rows, meta, metaLock, lock, lastGen, walk, tx, raced>>

Writes == Categories \cup Activity \cup Assigned
NoGen == 0

Positions == {
  "idle",         \* no transaction
  "open",         \* between two statements of the handler
  "blocked",      \* the hook's DELETE waits for another DELETE of the row
  "flush",        \* the hook has run, the write has not
  "check",        \* has read the categories, about to read the meta row
  "lock",         \* found the cache invalid, wants the advisory lock
  "recheck",      \* holds it
  "activity",     \* rebuilding: about to read the transactions
  "assigned",     \* rebuilding: about to read the assignments
  "replace",      \* rebuilding: about to swap the rows in
  "latest",       \* about to read the rows
  "walk",         \* about to read the generation for the card walk,
                  \* after the categories
  "legs",         \* walking: about to read the transactions
  "store"}        \* walking: about to read the assignments and store

Rebuilding == {"activity", "assigned", "replace"}

(* After the categories, up to the generation the walk is stored under.    *)
Gathering == {"check", "lock", "recheck", "latest", "walk"} \cup Rebuilding

Idle == [pc |-> "idle", wrote |-> {}, ownRows |-> {}, rebuilt |-> FALSE,
         ownMeta |-> NoGen, cats |-> {}, act |-> {}, asg |-> {}, gen |-> NoGen,
         began |-> {}, served |-> {}, late |-> FALSE, raced |-> FALSE]

Tx == [
  pc : Positions,
  wrote : SUBSET Writes,       \* its own uncommitted writes
  ownRows : SUBSET Writes,     \* the rows it has swapped in, when rebuilt
  rebuilt : BOOLEAN,
  ownMeta : Nat,               \* the meta row it has inserted
  cats : SUBSET Writes,        \* what the categories query returned
  act : SUBSET Writes,         \* what the transactions query returned
  asg : SUBSET Writes,         \* what the assignments query returned
  gen : Nat,                   \* the generation a DELETE or a walk started from
  began : SUBSET Writes,       \* history: committed when the read began
  served : SUBSET Writes,      \* the balances the last read returned
  late : BOOLEAN,              \* history: another commit while it was Gathering
  raced : BOOLEAN]             \* history: another commit since the read that
                               \* swapped its rows in began

TypeOK ==
  /\ committed \subseteq Writes
  /\ rows \subseteq Writes
  /\ meta \in Nat
  /\ metaLock \in Txs \cup {None}
  /\ lock \in Txs \cup {None}
  /\ lastGen \in Nat
  /\ walk \in [gen : Nat, legs : SUBSET Writes, late : BOOLEAN]
  /\ tx \in [Txs -> Tx]
  /\ raced \in BOOLEAN

(* A budget that is open in a browser or was just restored: valid or not,  *)
(* nothing in process yet.                                                 *)
Init ==
  /\ committed = {}
  /\ rows = {}
  /\ meta \in {NoGen, 1}
  /\ metaLock = None
  /\ lock = None
  /\ lastGen = 1
  /\ walk = [gen |-> NoGen, legs |-> {}, late |-> FALSE]
  /\ tx = [t \in Txs |-> Idle]
  /\ raced = FALSE

-----------------------------------------------------------------------------
(* What a statement of t sees.                                             *)
Seen(t) == committed \cup tx[t].wrote

(* Two ways to get the meta row wrong: a deleted row that reads as another *)
(* value than none, and a reader on a session of its own, which does not   *)
(* see the transaction's DELETE.                                           *)
GenerationNull(t) ==
  IF tx[t].ownMeta # NoGen THEN tx[t].ownMeta
  ELSE IF metaLock = t THEN None
  ELSE meta

GenerationShared(t) == IF tx[t].ownMeta # NoGen THEN tx[t].ownMeta ELSE meta

Generation(t) ==
  IF tx[t].ownMeta # NoGen THEN tx[t].ownMeta
  ELSE IF metaLock = t THEN NoGen
  ELSE meta

SeenRows(t) == IF tx[t].rebuilt THEN tx[t].ownRows ELSE rows

(* t has run an invalidation hook, or has started to, and has not ended.   *)
Dirty(t) == tx[t].wrote # {} \/ tx[t].pc \in {"blocked", "flush"}

At(t, pc) == tx[t].pc = pc

(* t's view after a statement.                                             *)
Becomes(t, r) == tx' = [tx EXCEPT ![t] = r]

Goto(t, pc) == Becomes(t, [tx[t] EXCEPT !.pc = pc])

-----------------------------------------------------------------------------
Begin(t) ==
  /\ At(t, "idle")
  /\ Goto(t, "open")
  /\ UNCHANGED <<committed, rows, meta, metaLock, lock, lastGen, walk, raced>>

(* A hook that drops only the row its own transaction inserted.            *)
InvalidateOwn(t) ==
  /\ At(t, "open")
  /\ Becomes(t, [tx[t] EXCEPT !.pc = "flush", !.ownMeta = NoGen])
  /\ UNCHANGED <<committed, rows, meta, metaLock, lock, lastGen, walk, raced>>

(* The hook's DELETE of every meta row.  It removes the transaction's own  *)
(* row, and the committed one if it sees it: a row another rebuild has     *)
(* inserted and not committed is not seen.  A row that another DELETE has  *)
(* removed and not committed makes it wait.                                *)
Invalidate(t) ==
  /\ At(t, "open")
  /\ \/ /\ tx[t].ownMeta = NoGen
        /\ meta # NoGen
        /\ metaLock \notin {None, t}
        /\ Becomes(t, [tx[t] EXCEPT !.pc = "blocked", !.gen = meta])
        /\ UNCHANGED metaLock
     \/ /\ tx[t].ownMeta # NoGen \/ meta = NoGen \/ metaLock \in {None, t}
        /\ Becomes(t, [tx[t] EXCEPT !.pc = "flush", !.ownMeta = NoGen])
        /\ metaLock' = IF meta # NoGen THEN t ELSE metaLock
  /\ UNCHANGED <<committed, rows, meta, lock, lastGen, walk, raced>>

(* The other DELETE ended.  Rolled back, the row is still there and is     *)
(* deleted now; committed, the row is gone, and one inserted since is not  *)
(* in the waiting statement's snapshot.                                    *)
Unblock(t) ==
  /\ At(t, "blocked")
  /\ metaLock = None
  /\ metaLock' = IF meta = tx[t].gen THEN t ELSE None
  /\ Becomes(t, [tx[t] EXCEPT !.pc = "flush", !.gen = NoGen])
  /\ UNCHANGED <<committed, rows, meta, lock, lastGen, walk, raced>>

Write(t, w) ==
  /\ At(t, "flush")
  /\ w \notin committed
  /\ \A u \in Txs : w \notin tx[u].wrote
  /\ Becomes(t, [tx[t] EXCEPT !.pc = "open", !.wrote = @ \cup {w}])
  /\ UNCHANGED <<committed, rows, meta, metaLock, lock, lastGen, walk, raced>>

(* get_budget_summary reads the categories and then the balances and the   *)
(* walk; card_walk called alone reads them and goes on to the walk.        *)
Read(t) ==
  /\ At(t, "open")
  /\ \E next \in {"check", "walk"} :
       Becomes(t, [tx[t] EXCEPT !.pc = next, !.cats = Seen(t) \cap Categories,
                                !.began = committed, !.late = FALSE])
  /\ UNCHANGED <<committed, rows, meta, metaLock, lock, lastGen, walk, raced>>

(* _snapshot_balances: is_valid, and the lock when it is not.              *)
CheckValid(t) ==
  /\ At(t, "check")
  /\ Goto(t, IF Generation(t) # NoGen THEN "latest" ELSE "lock")
  /\ UNCHANGED <<committed, rows, meta, metaLock, lock, lastGen, walk, raced>>

TakeLock(t) ==
  /\ At(t, "lock")
  /\ lock \in {None, t}
  /\ lock' = t
  /\ Goto(t, "recheck")
  /\ UNCHANGED <<committed, rows, meta, metaLock, lastGen, walk, raced>>

(* The lock without the second look behind it.                             *)
RecheckNothing(t) ==
  /\ At(t, "recheck")
  /\ Goto(t, "activity")
  /\ UNCHANGED <<committed, rows, meta, metaLock, lock, lastGen, walk, raced>>

Recheck(t) ==
  /\ At(t, "recheck")
  /\ Goto(t, IF Generation(t) # NoGen THEN "latest" ELSE "activity")
  /\ UNCHANGED <<committed, rows, meta, metaLock, lock, lastGen, walk, raced>>

ReadActivity(t) ==
  /\ At(t, "activity")
  /\ Becomes(t, [tx[t] EXCEPT !.pc = "assigned", !.act = Seen(t) \cap Activity])
  /\ UNCHANGED <<committed, rows, meta, metaLock, lock, lastGen, walk, raced>>

ReadAssigned(t) ==
  /\ At(t, "assigned")
  /\ Becomes(t, [tx[t] EXCEPT !.pc = "replace", !.asg = Seen(t) \cap Assigned])
  /\ UNCHANGED <<committed, rows, meta, metaLock, lock, lastGen, walk, raced>>

(* replace_for_budget: the budget's rows are deleted and inserted, then    *)
(* the meta row is upserted with a new generation.                         *)
Replace(t) ==
  /\ At(t, "replace")
  /\ lastGen < MaxRebuilds
  /\ lastGen' = lastGen + 1
  /\ Becomes(t, [tx[t] EXCEPT !.pc = "latest",
                  !.rebuilt = TRUE,
                  !.ownRows = tx[t].cats \cup tx[t].act \cup tx[t].asg,
                  !.ownMeta = lastGen + 1,
                  !.act = {}, !.asg = {},
                  !.raced = tx[t].late])
  /\ UNCHANGED <<committed, rows, meta, metaLock, lock, walk, raced>>

(* latest_per_category: the balances the summary is built from.            *)
ReadLatest(t) ==
  /\ At(t, "latest")
  /\ Becomes(t, [tx[t] EXCEPT !.pc = "walk", !.served = SeenRows(t)])
  /\ UNCHANGED <<committed, rows, meta, metaLock, lock, lastGen, walk, raced>>

(* card_walk: the generation first, then the entry stored under it or the  *)
(* walk's own reads.                                                       *)
ReadGeneration(t) ==
  /\ At(t, "walk")
  /\ LET g == Generation(t)
         hit == g # NoGen /\ walk.gen = g
         read == [tx[t] EXCEPT !.gen = g, !.began = {}, !.served = {}]
     IN  \/ hit /\ Becomes(t, [read EXCEPT !.pc = "open", !.gen = NoGen, !.cats = {},
                                                !.late = FALSE])
         \/ ~ hit /\ Becomes(t, [read EXCEPT !.pc = "legs"])
  /\ UNCHANGED <<committed, rows, meta, metaLock, lock, lastGen, walk, raced>>

ReadLegs(t) ==
  /\ At(t, "legs")
  /\ Becomes(t, [tx[t] EXCEPT !.pc = "store", !.act = Seen(t) \cap Activity])
  /\ UNCHANGED <<committed, rows, meta, metaLock, lock, lastGen, walk, raced>>

(* The entry stored under the generation read after its inputs.            *)
StoreWalkLate(t) ==
  /\ At(t, "store")
  /\ walk' = IF Generation(t) = NoGen THEN walk
             ELSE [gen |-> Generation(t),
                   legs |-> tx[t].cats \cup tx[t].act \cup (Seen(t) \cap Assigned),
                   late |-> tx[t].late]
  /\ Becomes(t, [tx[t] EXCEPT !.pc = "open", !.cats = {}, !.act = {}, !.gen = NoGen,
                            !.late = FALSE])
  /\ UNCHANGED <<committed, rows, meta, metaLock, lock, lastGen, raced>>

StoreWalk(t) ==
  /\ At(t, "store")
  /\ walk' = IF tx[t].gen = NoGen THEN walk
             ELSE [gen |-> tx[t].gen,
                   legs |-> tx[t].cats \cup tx[t].act \cup (Seen(t) \cap Assigned),
                   late |-> tx[t].late]
  /\ Becomes(t, [tx[t] EXCEPT !.pc = "open", !.cats = {}, !.act = {}, !.gen = NoGen,
                            !.late = FALSE])
  /\ UNCHANGED <<committed, rows, meta, metaLock, lock, lastGen, raced>>

-----------------------------------------------------------------------------
Released(t, holder) == IF holder = t THEN None ELSE holder

(* u's view after t commits: what u has read may miss what t wrote.        *)
Overlapped(u, t) ==
  IF tx[t].wrote # {}
    THEN [tx[u] EXCEPT !.late = tx[u].late \/ tx[u].pc \in Gathering,
                       !.raced = tx[u].raced \/ tx[u].rebuilt]
    ELSE tx[u]

(* CommitRoute commits before the response is sent: the writes, the rows   *)
(* and the meta row appear at once, and both locks go.                     *)
Commit(t) ==
  /\ At(t, "open")
  /\ committed' = Seen(t)
  /\ rows' = SeenRows(t)
  /\ meta' = Generation(t)
  /\ metaLock' = Released(t, metaLock)
  /\ lock' = Released(t, lock)
  /\ raced' = IF tx[t].rebuilt
              THEN tx[t].raced \/ \E u \in Txs \ {t} : Dirty(u)
              ELSE raced
  /\ tx' = [u \in Txs |-> IF u = t THEN Idle ELSE Overlapped(u, t)]
  /\ UNCHANGED <<lastGen, walk>>

(* An error, a disconnect, or PostgreSQL ending one side of a deadlock.    *)
Rollback(t) ==
  /\ ~ At(t, "idle")
  /\ metaLock' = Released(t, metaLock)
  /\ lock' = Released(t, lock)
  /\ Becomes(t, Idle)
  /\ UNCHANGED <<committed, rows, meta, lastGen, walk, raced>>

Next ==
  \E t \in Txs :
    \/ Begin(t)
    \/ Invalidate(t)
    \/ Unblock(t)
    \/ \E w \in Writes : Write(t, w)
    \/ Read(t)
    \/ CheckValid(t)
    \/ TakeLock(t)
    \/ Recheck(t)
    \/ ReadActivity(t)
    \/ ReadAssigned(t)
    \/ Replace(t)
    \/ ReadLatest(t)
    \/ ReadGeneration(t)
    \/ ReadLegs(t)
    \/ StoreWalk(t)
    \/ Commit(t)
    \/ Rollback(t)

Spec == Init /\ [][Next]_vars

-----------------------------------------------------------------------------
(* The cache lies only after a write was open during the read that rebuilt *)
(* it: rows that say they are valid count exactly the committed writes.    *)
CacheHonest == meta # NoGen /\ ~ raced => rows = committed

(* Whether a write overlapped the read that rebuilt the rows t sees.       *)
RowsRaced(t) == IF tx[t].rebuilt THEN tx[t].raced ELSE raced

(* A read shows nothing that is not committed or its own, and, unless the  *)
(* rows come from a read that a write overlapped, misses nothing that was  *)
(* committed when it began and nothing of its own.                         *)
ReadBounds ==
  [][\A t \in Txs : At(t, "latest") /\ tx'[t].pc = "walk" =>
       /\ tx'[t].served \subseteq Seen(t)
       /\ ~ RowsRaced(t) => tx[t].began \cup tx[t].wrote \subseteq tx'[t].served]_vars

(* A walk found under the valid generation counts what a cold walk would,  *)
(* unless a commit fell between the categories it read and the generation  *)
(* it is stored under, or a write overlapped the rebuild: no entry         *)
(* outlives the write that outdated it, or a rollback.                     *)
WalkCurrent ==
  meta # NoGen /\ walk.gen = meta /\ ~ raced /\ ~ walk.late => walk.legs = committed

(* Whoever is rebuilding sees no valid cache until it has written one, and *)
(* is alone: a burst of readers rebuilds once.                             *)
RebuildIsNeeded ==
  \A t \in Txs : tx[t].pc \in Rebuilding =>
    /\ Generation(t) = NoGen
    /\ \A u \in Txs \ {t} : tx[u].pc \notin Rebuilding /\ tx[u].ownMeta = NoGen

-----------------------------------------------------------------------------
(* A waiter for the advisory lock wakes when its holder commits            *)
(* (services/budget_service.py:1716), so the holder is not itself waiting  *)
(* for that waiter.                                                        *)
NoWaitCycle ==
  \A t, u \in Txs :
    ~ (At(t, "blocked") /\ metaLock = u /\ At(u, "lock") /\ lock = t)
=============================================================================
