----------------------------- MODULE ChangeLog -----------------------------
(***************************************************************************)
(* The change log of one budget and everything that reads it back: undo of *)
(* the latest change, of one, of a batch, of a sync run, of everything     *)
(* newer, of one budget move, and redo (services/undo_service.py,          *)
(* repositories/change_log_repo.py), over the rows that feed it: envelopes *)
(* assigned and moved between (services/budget_service.py), and the two    *)
(* bank rows of one movement of money, imported and paired by a sync,      *)
(* edited, deleted and reconciled (services/transaction_service.py,        *)
(* services/reconciliation_service.py).                                    *)
(*                                                                         *)
(* A request that computes what it writes from what it read is two steps,  *)
(* its reading and its writing, because nothing locks the rows between.    *)
(* Requests of one statement, and undo and redo, are one step each.        *)
(***************************************************************************)
EXTENDS Integers, Sequences, FiniteSets

CONSTANTS
  Scopes,     \* what the budget may have: its envelopes, the legs a sync
              \* will bring, whether a first sync has brought and linked them
              \* already, and how many rows the log may reach (the bound)
  MoveLists,  \* what one request may ask move_money_many to do
  Figures,    \* amounts a person may type into an envelope
  Forces,     \* values of the force parameter
  TBA,        \* To Be Assigned: the NULL side of a move
  None,
  MaxUndos    \* bound: undo and redo requests

Legs == {"out", "in"}

ASSUME ScopesAssumption ==
  \A s \in Scopes : /\ s.legs \subseteq Legs
                    /\ s.envelopes \cap (Legs \cup {TBA}) = {}
                    /\ s.rows \in Nat
                    /\ s.arrived \in BOOLEAN
                    /\ s.arrived => s.legs = Legs /\ s.rows >= 4

\* move_money_many refuses an amount that is not positive, and a move from
\* an envelope to itself.
ASSUME MovesAssumption ==
  \A list \in MoveLists :
    /\ list \in Seq({list[n] : n \in 1 .. Len(list)})
    /\ \A n \in 1 .. Len(list) : /\ list[n].amount \in Nat \ {0}
                               /\ list[n].from # list[n].to

ASSUME BoundsAssumption ==
  MaxUndos \in Nat /\ Forces \subseteq BOOLEAN /\ Figures \subseteq Int
ASSUME NoneAssumption == None \notin Int \cup {"assign", "move", "undo move"}

VARIABLES
  scope,     \* the member of Scopes this behaviour is about
  db,        \* the current row of each entity
  log,       \* change_log in the order of seq
  moves,     \* ids of the budget_moves rows
  syncing,   \* the batch of the sync whose transaction is open, or None
  inflight,  \* the request between its reading and its writing
  undoSeq,   \* the last change_log_undo_seq handed out
  undos,     \* undo and redo requests so far
  batches,   \* batch and move ids handed out
  did,       \* history: the kind of the last step
  prior,     \* history: db before the last step, when it was a whole undo
  raced,     \* history: a request wrote from a reading that had changed
  forced,    \* history: force took a row that had changed since
  torn       \* history: a sync's undo passed over a row of its batch

vars == <<scope, db, log, moves, syncing, inflight, undoSeq, undos, batches,
          did, prior, raced, forced, torn>>

Partner(l) == CHOOSE m \in Legs : m # l

----------------------------------------------------------------------------
(* Rows *)

(* BudgetAssignment: one envelope in one month. *)
Assignment == [assigned : Int]

(* Transaction, down to what the properties tell apart: amount and cleared *)
(* are locked by reconciliation, memo and linked are bookkeeping.          *)
Transaction == [live : BOOLEAN,
                amount : {1, 2},
                cleared : {"uncleared", "cleared", "reconciled"},
                memo : {0, 1},
                linked : BOOLEAN]

Entities == scope.envelopes \cup scope.legs

NoRow == [live |-> FALSE, amount |-> 1, cleared |-> "uncleared", memo |-> 0,
          linked |-> FALSE]

(* ChangeLog. undone is the row's undo_seq, 0 while it is live. *)
LogRow(e, action, before, after, move, batch, source) ==
  [entity |-> e, action |-> action, before |-> before, after |-> after,
   move |-> move, batch |-> batch, source |-> source, undone |-> 0]

Idle == [kind |-> None]

Imported == [NoRow EXCEPT !.live = TRUE, !.cleared = "cleared"]
Linked(row) == [row EXCEPT !.linked = TRUE]

LinkSourceSystem == "system"
LinkSource == "manual"

(* What a first sync that brought both legs and linked them left behind.   *)
FirstSync ==
  LET import(l) == LogRow(l, "import", NoRow, Imported, None, 1, "system")
      link(l) == LogRow(l, "update", Imported, Linked(Imported), None, 1, LinkSource)
  IN <<import("out"), import("in"), link("out"), link("in")>>

Init ==
  /\ scope \in Scopes
  /\ db = [e \in Entities |-> IF e \notin Legs THEN [assigned |-> 0]
                              ELSE IF scope.arrived THEN Linked(Imported) ELSE NoRow]
  /\ log = IF scope.arrived THEN FirstSync ELSE <<>>
  /\ moves = {}
  /\ syncing = None
  /\ inflight = Idle
  /\ undoSeq = 0
  /\ undos = 0
  /\ batches = IF scope.arrived THEN 1 ELSE 0
  /\ did = "begin"
  /\ prior = None
  /\ raced = FALSE
  /\ forced = FALSE
  /\ torn = FALSE

Rows == 1 .. Len(log)

(* READ COMMITTED: the rows of an open sync are in the sequence already and *)
(* no other session sees them.                                             *)
Visible == {i \in Rows : log[i].batch # syncing \/ syncing = None}
IsLive(i) == log[i].undone = 0
Live == {i \in Visible : IsLive(i)}

BatchOf(i) == IF log[i].batch = None THEN {i}
              ELSE {k \in Visible : log[k].batch = log[i].batch}

MoveRows(m) == {i \in Visible : log[i].move = m}

Newest(S) == CHOOSE i \in S : \A k \in S : k <= i
Oldest(S) == CHOOSE i \in S : \A k \in S : i <= k

----------------------------------------------------------------------------
(* The inverse and the replay of one recorded change *)

LockedFields == {"amount", "cleared"}

Reconciled(row) == row.cleared = "reconciled"

(* _reconciled_skip: on a reconciled row the locked fields are passed over, *)
(* and a change that moved one is refused.                                 *)
MovesLock(r) == \E f \in LockedFields : r.before[f] # r.after[f]

SameFields(x, y, skip) == \A f \in (DOMAIN x \ {"live"}) \ skip : x[f] = y[f]

SkipNone(x) == {}
Skip(x) == IF "cleared" \in DOMAIN x /\ Reconciled(x) THEN LockedFields ELSE {}

(* _restore_fields, one side of a record written back. *)
WrittenBack(x, side) ==
  [f \in DOMAIN x |-> IF f = "live" \/ f \in Skip(x) THEN x[f] ELSE side[f]]

(* What no force overrides, then the staleness check it does override. *)
UndoAllowed(i, d) ==
  LET r == log[i]
      x == d[r.entity] IN
  CASE r.action = "update"    -> "live" \in DOMAIN x =>
                                   x.live /\ (Reconciled(x) => ~MovesLock(r))
    [] r.action = "import"    -> x.live /\ ~Reconciled(x)
    [] r.action = "delete"    -> ~x.live
    [] r.action = "reconcile" -> TRUE

UndoFresh(i, d) ==
  LET r == log[i]
      x == d[r.entity] IN
  r.action \in {"update", "import"} => SameFields(x, r.after, Skip(x))

(* _undo_update, _undo_create, _undo_delete, _undo_reconcile. *)
Undone(i, d) ==
  LET r == log[i] IN
  CASE r.action = "update"    -> [d EXCEPT ![r.entity] = WrittenBack(@, r.before)]
    [] r.action = "import"    -> [d EXCEPT ![r.entity].live = FALSE]
    [] r.action = "delete"    -> [d EXCEPT ![r.entity] = [r.before EXCEPT !.live = TRUE]]
    [] r.action = "reconcile" -> IF Reconciled(d[r.entity])
                                   THEN [d EXCEPT ![r.entity].cleared = "cleared"] ELSE d

RedoAllowed(i, d) ==
  LET r == log[i]
      x == d[r.entity] IN
  CASE r.action = "update"    -> "live" \in DOMAIN x => (Reconciled(x) => ~MovesLock(r))
    [] r.action = "import"    -> ~x.live
    [] r.action = "delete"    -> x.live
    [] r.action = "reconcile" -> TRUE

RedoFresh(i, d) ==
  LET r == log[i]
      x == d[r.entity] IN
  r.action = "update" => SameFields(x, r.before, Skip(x))

Redone(i, d) ==
  LET r == log[i] IN
  CASE r.action = "update"    -> [d EXCEPT ![r.entity] = WrittenBack(@, r.after)]
    [] r.action = "import"    -> [d EXCEPT ![r.entity].live = TRUE]
    [] r.action = "delete"    -> [d EXCEPT ![r.entity].live = FALSE]
    [] r.action = "reconcile" -> IF d[r.entity].cleared = "cleared"
                                   THEN [d EXCEPT ![r.entity].cleared = "reconciled"] ELSE d

----------------------------------------------------------------------------
(* Several changes in one request *)

TakeFresh(i, d) == UndoAllowed(i, d) /\ UndoFresh(i, d)

(* _undo_move_groups: a move is taken whole or left whole, judged before   *)
(* any of its rows is written.                                             *)
TakeRow(i, d, took) == UndoFresh(i, d)
TakeMove(i, d, took) ==
  LET group == {k \in MoveRows(log[i].move) : IsLive(k)} IN
  IF i = Newest(group) THEN \A k \in group : UndoFresh(k, d)
                       ELSE Newest(group) \in took

(* Whether a pass takes row i, having come to the rows d and taken took.   *)
Takes(pass, i, d, took) ==
  CASE pass = "allowed" -> UndoAllowed(i, d)
    [] pass = "fresh"   -> TakeFresh(i, d)
    [] pass = "moves"   -> TakeMove(i, d, took)

(* The rows of S from the newest down: each one the pass takes is undone   *)
(* on what the rows above it left.                                         *)
Sweep(S, pass) ==
  LET past[n \in 0 .. Len(log)] ==
        IF n = 0 THEN [db |-> db, took |-> {}]
        ELSE LET i == Len(log) + 1 - n
                 was == past[n - 1] IN
             IF i \in S /\ Takes(pass, i, was.db, was.took)
               THEN [db |-> Undone(i, was.db), took |-> was.took \cup {i}]
               ELSE was
  IN past[Len(log)]

(* _move_groups: only rows of moves, and of more than one. *)
IsMoveBatch(S) == /\ \A i \in S : log[i].move # None
                  /\ Cardinality({log[i].move : i \in S}) > 1

(* _mark_undone, in the order of the sweep. *)
MarkedPast(S) ==
  [i \in Rows |-> IF i \in S THEN [log[i] EXCEPT !.undone = undoSeq + 1 + Cardinality(S)] ELSE log[i]]
Marked(S) ==
  [i \in Rows |->
     IF i \in S THEN [log[i] EXCEPT !.undone = undoSeq + Cardinality({k \in S : i <= k})]
     ELSE log[i]]

(* The rows of S are taken back, with the audit rows of their moves. *)
TakeBack(S, d) ==
  /\ db' = d
  /\ log' = Marked(S)
  /\ moves' = moves \ {log[i].move : i \in S}
  /\ undoSeq' = undoSeq + Cardinality(S)
  /\ undos' = undos + 1

Undoing == undos < MaxUndos

(* The redo stack's promise is about a change undone whole, with no live   *)
(* row above the first of its own: redo counts from that one, so an edit   *)
(* that fell between two rows of a sync's batch closes it.                 *)
PriorOf(S) ==
  IF /\ S # {}
     /\ \A i \in S : BatchOf(i) = S
     /\ \A k \in Live \ S : k < Oldest(S)
    THEN db ELSE None

(* undo_batch, for the rows of a batch that are live. *)
UndoBatchOfHead(i) == Live \cap {i}
UndoBatchOf(i) == Live \cap BatchOf(i)

UndoPending(pending, force, kind) ==
  /\ Undoing
  /\ pending # {}
  /\ IF IsMoveBatch(pending) /\ ~force
       THEN LET s == Sweep(pending, "moves") IN
            /\ s.took # {}
            /\ TakeBack(s.took, s.db)
            /\ prior' = PriorOf(s.took)
            /\ UNCHANGED forced
       ELSE LET s == Sweep(pending, "allowed")
                fresh == Sweep(pending, "fresh") IN
            /\ s.took = pending
            /\ force \/ fresh.took = pending
            /\ TakeBack(pending, s.db)
            /\ prior' = PriorOf(pending)
            /\ forced' = (forced \/ fresh.took # pending)
  /\ did' = kind
  /\ UNCHANGED <<scope, syncing, inflight, batches, raced, torn>>

(* undo_change, and undo_batch of the same rows. *)
UndoChange(i, force) ==
  /\ i \in Visible
  /\ UndoPending(UndoBatchOf(i), force, "undo")

(* latest_live_undoable, then undo_change: the undo key. *)
KeyRows == {i \in Live : log[i].source = "manual"}
UndoLatest ==
  /\ KeyRows # {}
  /\ UndoPending(UndoBatchOf(Newest(KeyRows)), FALSE, "key")

(* undo_batch_leniently, for a sync run: each row on its own. *)
SyncBatches == {log[i].batch : i \in {k \in Rows : log[k].action = "import"}}
UndoBatchLeniently(i) ==
  LET s == Sweep(UndoBatchOf(i), "fresh") IN
  /\ Undoing
  /\ i \in Visible
  /\ log[i].batch \in SyncBatches
  /\ UndoBatchOf(i) # {}
  /\ TakeBack(s.took, s.db)
  /\ prior' = PriorOf(s.took)
  /\ did' = "lenient"
  /\ torn' = (torn \/ s.took # UndoBatchOf(i))
  /\ UNCHANGED <<scope, syncing, inflight, batches, raced, forced>>

(* undo_newer: everything live above the end of the target's batch. *)
UndoNewer(i, force) ==
  LET pending == {k \in Live : k > Newest(BatchOf(i))}
      s == Sweep(pending, "allowed")
      fresh == Sweep(pending, "fresh") IN
  /\ Undoing
  /\ i \in Visible
  /\ pending # {}
  /\ s.took = pending
  /\ force \/ fresh.took = pending
  /\ TakeBack(pending, s.db)
  /\ prior' = PriorOf(pending)
  /\ did' = "newer"
  /\ forced' = (forced \/ fresh.took # pending)
  /\ UNCHANGED <<scope, syncing, inflight, batches, raced, torn>>

(* redo_latest: the row undone last, and what of its batch is undone,      *)
(* replayed oldest first on what the rows before it left.                  *)
Undoed == {i \in Visible : ~IsLive(i)}
Candidate == CHOOSE i \in Undoed : \A k \in Undoed : log[k].undone <= log[i].undone

RedoRowsAlone == {Candidate}
RedoRows == {k \in BatchOf(Candidate) : ~IsLive(k)}

Replayed(S) ==
  LET upto[i \in 0 .. Len(log)] ==
        IF i = 0 THEN [db |-> db, ok |-> TRUE, fresh |-> TRUE]
        ELSE IF i \notin S THEN upto[i - 1]
        ELSE LET d == upto[i - 1].db IN
             [db |-> Redone(i, d),
              ok |-> upto[i - 1].ok /\ RedoAllowed(i, d),
              fresh |-> upto[i - 1].fresh /\ RedoFresh(i, d)]
  IN upto[Len(log)]

NothingNewer == \A k \in Live : k <= Candidate

RedoLatest(force) ==
  LET s == Replayed(RedoRows) IN
  /\ Undoing
  /\ Undoed # {}
  /\ NothingNewer
  /\ s.ok
  /\ s.fresh \/ force
  /\ db' = s.db
  /\ log' = [i \in Rows |-> IF i \in RedoRows THEN [log[i] EXCEPT !.undone = 0] ELSE log[i]]
  /\ moves' = moves \cup ({log[i].move : i \in RedoRows} \ {None})
  /\ undos' = undos + 1
  /\ did' = "redo"
  /\ prior' = None
  /\ forced' = (forced \/ ~s.fresh)
  /\ UNCHANGED <<scope, syncing, inflight, undoSeq, batches, raced, torn>>

----------------------------------------------------------------------------
(* Envelopes: assign, move, undo a move.  Each reads amounts and writes    *)
(* absolute amounts.                                                       *)

Room(n) == Len(log) + n <= scope.rows
FreshBatch == batches + 1

Reads(es) == [e \in es |-> db[e].assigned]
Stale(read) == \E e \in DOMAIN read : db[e].assigned # read[e]
Write(new) == [e \in DOMAIN db |-> IF e \in DOMAIN new THEN [assigned |-> new[e]] ELSE db[e]]

BeginRequest(r) ==
  /\ inflight = Idle
  /\ inflight' = r
  /\ did' = "begin"
  /\ prior' = None
  /\ UNCHANGED <<scope, db, log, moves, syncing, undoSeq, undos, batches, raced, forced, torn>>

EndRequest ==
  /\ inflight' = Idle
  /\ did' = "edit"
  /\ prior' = None
  /\ UNCHANGED <<scope, syncing, forced, torn>>

(* set_assignments for one envelope. *)
BeginAssign(e, n) ==
  /\ Room(1)
  /\ BeginRequest([kind |-> "assign", read |-> Reads({e}), new |-> [x \in {e} |-> n]])

FinishAssign ==
  /\ inflight.kind = "assign"
  /\ Room(1)
  /\ LET e == CHOOSE x \in DOMAIN inflight.new : TRUE
         was == inflight.read[e]
         now == inflight.new[e] IN
     log' = IF was = now THEN log
            ELSE Append(log, LogRow(e, "update", [assigned |-> was], [assigned |-> now],
                                    None, None, "manual"))
  /\ db' = Write(inflight.new)
  /\ raced' = (raced \/ Stale(inflight.read))
  /\ EndRequest
  /\ UNCHANGED <<moves, undoSeq, undos, batches>>

(* The two sides of each move, in order: who, by how much, and which move. *)
SidesOf(list) ==
  LET side(e, by, n) == IF e = TBA THEN <<>> ELSE <<[who |-> e, by |-> by, nth |-> n]>>
      upto[n \in 0 .. Len(list)] ==
        IF n = 0 THEN <<>>
        ELSE upto[n - 1] \o side(list[n].from, 0 - list[n].amount, n)
                         \o side(list[n].to, list[n].amount, n)
  IN upto[Len(list)]

(* The figure an envelope holds after the first k sides. *)
Running(read, sides, e, k) ==
  LET after[j \in 0 .. Len(sides)] ==
        IF j = 0 THEN read[e]
        ELSE after[j - 1] + (IF sides[j].who = e THEN sides[j].by ELSE 0)
  IN after[k]

Touched(list) == {s.who : s \in {SidesOf(list)[k] : k \in DOMAIN SidesOf(list)}}

(* move_money_many: the amounts are read once and chained in memory. *)
BeginMoves(list) ==
  /\ Touched(list) \subseteq scope.envelopes
  /\ Room(Len(SidesOf(list)))
  /\ BeginRequest([kind |-> "move", read |-> Reads(Touched(list)), list |-> list])

FinishMoves ==
  /\ inflight.kind = "move"
  /\ LET sides == SidesOf(inflight.list)
         n == Len(sides)
         figure(e, k) == Running(inflight.read, sides, e, k)
         row(k) == LogRow(sides[k].who, "update",
                          [assigned |-> figure(sides[k].who, k - 1)],
                          [assigned |-> figure(sides[k].who, k)],
                          batches + sides[k].nth, FreshBatch, "manual") IN
     /\ Room(n)
     /\ log' = log \o [k \in 1 .. n |-> row(k)]
     /\ db' = Write([e \in DOMAIN inflight.read |-> figure(e, n)])
     /\ moves' = moves \cup {batches + k : k \in 1 .. Len(inflight.list)}
     /\ batches' = batches + Len(inflight.list)
  /\ raced' = (raced \/ Stale(inflight.read))
  /\ EndRequest
  /\ UNCHANGED <<undoSeq, undos>>

(* undo_move: by delta from the amounts it has loaded. *)
BeginUndoMove(m) ==
  /\ Undoing
  /\ m \in moves
  /\ LET rows == {i \in MoveRows(m) : IsLive(i)} IN
     BeginRequest([kind |-> "undo move", read |-> Reads({log[i].entity : i \in rows}),
                   rows |-> rows, move |-> m])

Gain(r) == r.after.assigned - r.before.assigned

ByBefore(read, rows) ==
  [e \in DOMAIN read |-> log[CHOOSE i \in rows : log[i].entity = e].before.assigned]
ByDelta(read, rows) ==
  [e \in DOMAIN read |-> read[e] - Gain(log[CHOOSE i \in rows : log[i].entity = e])]

FinishUndoMove ==
  /\ Undoing
  /\ inflight.kind = "undo move"
  /\ db' = Write(ByDelta(inflight.read, inflight.rows))
  /\ log' = Marked(inflight.rows)
  /\ moves' = moves \ {inflight.move}
  /\ undoSeq' = undoSeq + Cardinality(inflight.rows)
  /\ undos' = undos + 1
  /\ raced' = (raced \/ Stale(inflight.read) \/ \E i \in inflight.rows : ~IsLive(i))
  /\ prior' = IF \A i \in inflight.rows : IsLive(i) /\ UndoFresh(i, db)
                THEN PriorOf(inflight.rows) ELSE None
  /\ inflight' = Idle
  /\ did' = "move undone"
  /\ UNCHANGED <<scope, syncing, batches, forced, torn>>

----------------------------------------------------------------------------
(* The bank's rows *)

Edited == /\ did' = "edit"
          /\ prior' = None
          /\ UNCHANGED <<scope, moves, syncing, inflight, undoSeq, undos, raced, forced, torn>>

SyncMayImport(l) ==
  /\ \A i \in Rows : ~(log[i].action = "import" /\ log[i].entity = l)
  /\ Room(1)

(* simplefin_service.sync: one transaction and one batch, its rows flushed  *)
(* as they are written.                                                    *)
SyncImport(l) ==
  LET batch == IF syncing = None THEN FreshBatch ELSE syncing IN
  /\ SyncMayImport(l)
  /\ log' = Append(log, LogRow(l, "import", NoRow, Imported, None, batch, "system"))
  /\ syncing' = batch
  /\ batches' = IF syncing = None THEN batches + 1 ELSE batches
  /\ did' = "begin"
  /\ prior' = None
  /\ UNCHANGED <<scope, db, moves, inflight, undoSeq, undos, raced, forced, torn>>

Arrived == {log[i].entity : i \in {k \in Rows : log[k].batch = syncing}}
WithArrivals == [e \in DOMAIN db |-> IF e \in Arrived THEN Imported ELSE db[e]]

Pairable(d) == \A l \in Legs : l \in DOMAIN d /\ d[l].live /\ ~d[l].linked

(* The end of a run: _pair_transfer_legs links the two sides when it is    *)
(* sure of them (link_legs records with its default source), and commits.  *)
SyncCommit ==
  LET d == WithArrivals
      link(l) == LogRow(l, "update", d[l], Linked(d[l]), None, syncing, LinkSource) IN
  /\ syncing # None
  /\ \/ /\ Pairable(d)
        /\ d["out"].amount = d["in"].amount
        /\ Room(2)
        /\ log' = log \o <<link("out"), link("in")>>
        /\ db' = [e \in DOMAIN d |-> IF e \in Legs THEN Linked(d[e]) ELSE d[e]]
     \/ db' = d /\ UNCHANGED log
  /\ syncing' = None
  /\ did' = "edit"
  /\ prior' = None
  /\ UNCHANGED <<scope, moves, inflight, undoSeq, undos, batches, raced, forced, torn>>

(* No other session writes a row the sync has open, so people edit what is *)
(* there when it is not running.                                           *)
MayEdit(l) == /\ syncing = None
              /\ l \in DOMAIN db
              /\ db[l].live

Pair(l) == IF db[l].linked /\ Partner(l) \in DOMAIN db /\ db[Partner(l)].live
             THEN <<Partner(l), l>> ELSE <<l>>

RangeOf(s) == {s[k] : k \in DOMAIN s}

(* Every leg of the pair becomes what now says, one row each, in one batch. *)
WritePair(pair, action, now) ==
  /\ Room(Len(pair))
  /\ log' = log \o [k \in DOMAIN pair |->
                      LogRow(pair[k], action, db[pair[k]], now[pair[k]], None,
                             FreshBatch, "manual")]
  /\ db' = [e \in DOMAIN db |-> IF e \in RangeOf(pair) THEN now[e] ELSE db[e]]
  /\ batches' = batches + 1
  /\ Edited

(* update with a new memo: bookkeeping, reconciled or not. *)
EditMemo(l) ==
  /\ MayEdit(l)
  /\ WritePair(<<l>>, "update", [m \in {l} |-> [db[m] EXCEPT !.memo = 1 - @]])

(* update with a new amount: both sides of a linked pair, unless either is *)
(* reconciled.                                                             *)
EditAmount(l) ==
  /\ MayEdit(l)
  /\ \A m \in RangeOf(Pair(l)) : ~Reconciled(db[m])
  /\ WritePair(Pair(l), "update",
               [m \in RangeOf(Pair(l)) |-> [db[m] EXCEPT !.amount = 3 - @]])

(* update with cleared: this row only. *)
ToggleCleared(l) ==
  /\ MayEdit(l)
  /\ ~Reconciled(db[l])
  /\ WritePair(<<l>>, "update",
       [m \in {l} |-> [db[m] EXCEPT !.cleared =
                                    IF @ = "cleared" THEN "uncleared" ELSE "cleared"]])

(* delete: soft, with the partner; refused while either is reconciled. *)
Delete(l) ==
  /\ MayEdit(l)
  /\ \A m \in RangeOf(Pair(l)) : ~Reconciled(db[m])
  /\ WritePair(Pair(l), "delete",
               [m \in RangeOf(Pair(l)) |-> [db[m] EXCEPT !.live = FALSE]])

(* unreconcile. *)
Unreconcile(l) ==
  /\ MayEdit(l)
  /\ Reconciled(db[l])
  /\ WritePair(<<l>>, "update", [m \in {l} |-> [db[m] EXCEPT !.cleared = "cleared"]])

(* finish, on the account of l, whose statement agrees: the cleared row is *)
(* locked, and the record names it.                                        *)
Finish(l) ==
  /\ MayEdit(l)
  /\ db[l].cleared = "cleared"
  /\ WritePair(<<l>>, "reconcile", [m \in {l} |-> [db[m] EXCEPT !.cleared = "reconciled"]])

----------------------------------------------------------------------------
Next ==
  \/ \E e \in scope.envelopes, n \in Figures : BeginAssign(e, n)
  \/ \E list \in MoveLists : BeginMoves(list)
  \/ \E m \in moves : BeginUndoMove(m)
  \/ FinishAssign \/ FinishMoves \/ FinishUndoMove
  \/ \E l \in scope.legs : SyncImport(l)
  \/ SyncCommit
  \/ \E l \in scope.legs :
       \/ EditMemo(l) \/ EditAmount(l) \/ ToggleCleared(l)
       \/ Delete(l) \/ Unreconcile(l) \/ Finish(l)
  \/ UndoLatest
  \/ \E i \in Rows, force \in Forces : UndoChange(i, force) \/ UndoNewer(i, force)
  \/ \E i \in Rows : UndoBatchLeniently(i)
  \/ \E force \in Forces : RedoLatest(force)

Spec == Init /\ [][Next]_vars

----------------------------------------------------------------------------
(* Properties *)

Source == {"manual", "system"}

(* Everything stays in its type. *)
TypeOK ==
  /\ scope \in Scopes
  /\ DOMAIN db = Entities
  /\ \A e \in Entities : db[e] \in IF e \in Legs THEN Transaction ELSE Assignment
  /\ \A i \in Rows : /\ log[i].entity \in Entities
                     /\ log[i].source \in Source
                     /\ log[i].undone \in 0 .. undoSeq
  /\ Len(log) <= scope.rows
  /\ moves \subseteq 1 .. batches
  /\ undos \in 0 .. MaxUndos
  /\ syncing \in {None} \cup 1 .. batches
  /\ raced \in BOOLEAN /\ forced \in BOOLEAN /\ torn \in BOOLEAN

(* What the rows S of a log add up to for one envelope, and what the live  *)
(* rows say it holds.                                                      *)
WorthOf(L, e, S) ==
  LET upto[i \in 0 .. Len(L)] ==
        IF i = 0 THEN 0
        ELSE upto[i - 1] + IF i \in S /\ L[i].entity = e THEN Gain(L[i]) ELSE 0
  IN upto[Len(L)]
Replay(e) == WorthOf(log, e, {i \in Rows : IsLive(i)})

(* However changes, moves, undos by snapshot, undos by delta and redos     *)
(* follow each other, an envelope holds what the live rows of the log add  *)
(* up to: no undo invents or loses money. Only a request that wrote from a *)
(* stale reading, or force, can break it.                                  *)
AssignedIsReplay ==
  ~raced /\ ~forced => \A e \in scope.envelopes : db[e].assigned = Replay(e)

(* The month's list of moves shows a move exactly when its rows are live,  *)
(* and the two rows of a move are live or undone together, whether taken   *)
(* back alone, with its batch, or in a batch of which a part was skipped.  *)
MoveAudit ==
  ~raced =>
    \A i \in Rows : log[i].move # None =>
      /\ IsLive(i) <=> log[i].move \in moves
      /\ \A k \in MoveRows(log[i].move) : IsLive(k) <=> IsLive(i)

(* A pair linked by a sync or edited as one stays a pair: both sides name  *)
(* each other, both are there, and they cancel. Only the undo of a sync run,    *)
(* which may pass over one side, and force are exempt.                     *)
Whole(l) == db[l].linked => /\ Partner(l) \in DOMAIN db
                            /\ db[Partner(l)].linked
                            /\ db[l].live <=> db[Partner(l)].live
                            /\ db[l].amount = db[Partner(l)].amount
PairsWhole == ~forced /\ ~torn => \A l \in scope.legs : Whole(l)

(* Undo and redo, forced or not, leave the money of a reconciled row alone: *)
(* only the record of a reconciliation itself unlocks it, and a row that    *)
(* was reconciled after its delete was undone is not deleted by redo. Redo  *)
(* does not look whether the row it deletes is locked (_reapply_delete), so *)
(* a row reconciled before it was deleted is exempt: when its lock comes    *)
(* back with another change, redo deletes a reconciled row.                 *)
Turned == {i \in Rows : IsLive(i) # (log'[i].undone = 0)}
Lockings(l) == {i \in Rows : log[i].entity = l /\ log[i].action = "reconcile"}
Deletes(l) == {i \in Rows : log[i].entity = l /\ log[i].action = "delete"}
Untouched(l) == /\ db'[l].live = db[l].live
                /\ db'[l].amount = db[l].amount
                /\ db'[l].cleared = db[l].cleared
LockedStays ==
  [][did' \in {"undo", "key", "newer", "lenient", "redo"} =>
       \A l \in scope.legs :
         \/ ~(Reconciled(db[l]) /\ db[l].live)
         \/ Turned \cap Lockings(l) # {}
         \/ did' = "redo" /\ \E i \in Turned \cap Deletes(l), k \in Lockings(l) : k < i
         \/ Untouched(l)]_vars

(* Right after a change has been undone whole, with nothing live above its *)
(* first row, redo is accepted and gives back the rows as they were. The   *)
(* exceptions are an edit that itself moved a lock, which may only be      *)
(* retraced by hand, a reconciliation whose lock was off already when it   *)
(* was undone, and a delete that redo made of a reconciled row: its undo   *)
(* gives the row back without the lock.                                    *)
TouchesLock(r) == /\ r.entity \in Legs
                  /\ \/ r.action = "update" /\ MovesLock(r)
                     \/ r.action = "reconcile" /\ ~Reconciled(prior[r.entity])
                     \/ r.action = "delete" /\ Reconciled(prior[r.entity])
RedoReturns ==
  (prior # None /\ ~forced /\ ~raced) =>
    LET s == Replayed(RedoRows) IN
    \/ NothingNewer /\ s.ok /\ s.fresh /\ s.db = prior
    \/ \E i \in RedoRows : TouchesLock(log[i])

(* simplefin_service says the undo key never reaches what a sync wrote.    *)
KeySparesSync ==
  [][did' = "key" => \A i \in Turned : log[i].batch \notin SyncBatches]_vars
=============================================================================
