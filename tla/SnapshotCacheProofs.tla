------------------------ MODULE SnapshotCacheProofs ------------------------
(***************************************************************************)
(* Machine-checked proofs about SnapshotCache, for every set of            *)
(* transactions and writes.                                                *)
(***************************************************************************)
EXTENDS SnapshotCache, TLAPS

USE TxsAssumption, WritesAssumption, RebuildsAssumption DEF NoGen

-----------------------------------------------------------------------------
(* Who holds what.  Whoever has found the cache invalid under the lock     *)
(* holds it to the end, and no other transaction's valid meta row can      *)
(* appear meanwhile: the row is absent, or it deleted it itself.           *)
Holder(t) == tx[t].pc \in Rebuilding \cup {"recheck"} \/ tx[t].rebuilt

LockInv ==
  /\ \A t \in Txs : Holder(t) => lock = t
  /\ metaLock # None => meta # NoGen
  /\ \A t \in Txs :
       /\ tx[t].ownMeta # NoGen => tx[t].rebuilt
       /\ tx[t].pc \in Rebuilding \cup {"blocked", "flush"} => tx[t].ownMeta = NoGen
       /\ tx[t].pc = "blocked" => tx[t].gen # NoGen
       /\ tx[t].pc \in Rebuilding \/ tx[t].rebuilt => meta = NoGen \/ metaLock = t

(* What the rows count.  A read that no commit overlapped counts what   *)
(* its transaction sees; the committed rows, when they say they are valid  *)
(* and no write overlapped their rebuild, count what is committed, and     *)
(* then whoever has begun to write has deleted the meta row, or waits to.  *)
Counts(t) ==
  /\ tx[t].cats \cup tx[t].act \cup tx[t].asg \subseteq Seen(t)
  /\ tx[t].ownRows \subseteq Seen(t)
  /\ tx[t].pc \in Gathering /\ ~ tx[t].late => tx[t].cats = Seen(t) \cap Categories
  /\ tx[t].pc \in {"assigned", "replace"} /\ ~ tx[t].late =>
       tx[t].act = Seen(t) \cap Activity
  /\ tx[t].pc = "replace" /\ ~ tx[t].late => tx[t].asg = Seen(t) \cap Assigned
  /\ tx[t].ownMeta # NoGen /\ ~ tx[t].raced => tx[t].ownRows = Seen(t)
  /\ tx[t].rebuilt /\ ~ tx[t].raced => committed \subseteq tx[t].ownRows

WillDelete(t) == metaLock = t \/ (tx[t].pc = "blocked" /\ tx[t].gen = meta)

Reading == {"check", "lock", "recheck", "latest"} \cup Rebuilding

RowsInv ==
  /\ rows \subseteq committed
  /\ \A t \in Txs : Counts(t)
  /\ CacheHonest
  /\ \A t \in Txs : meta # NoGen /\ ~ raced /\ Dirty(t) => WillDelete(t)
  /\ \A t \in Txs : tx[t].pc \in Reading => tx[t].began \subseteq committed
  /\ \A t \in Txs : tx[t].pc = "latest" /\ ~ RowsRaced(t) =>
       tx[t].began \cup tx[t].wrote \subseteq SeenRows(t)

(* Whose generation is whose.  No generation is handed out twice, and a    *)
(* walk in progress reads under one that no other transaction may commit.  *)
GenInv ==
  /\ lastGen >= 1 /\ meta <= lastGen /\ walk.gen <= lastGen
  /\ \A t \in Txs :
       /\ tx[t].ownMeta <= lastGen /\ tx[t].gen <= lastGen
       /\ tx[t].ownMeta # NoGen => tx[t].ownMeta # meta
       /\ tx[t].pc \in {"legs", "store"} /\ tx[t].gen # NoGen =>
            /\ tx[t].gen = meta => metaLock # t
            /\ \A u \in Txs \ {t} : tx[u].ownMeta # tx[t].gen

(* What the stored walk counts, while its rebuild is not committed too,    *)
(* and what a walk in progress has read under the generation it holds.     *)
Legs(t, seen) ==
  /\ tx[t].cats = seen \cap Categories
  /\ tx[t].pc = "store" => tx[t].act = seen \cap Activity

WalkInv ==
  /\ WalkCurrent
  /\ \A t \in Txs :
       /\ tx[t].ownMeta # NoGen /\ walk.gen = tx[t].ownMeta
          /\ ~ tx[t].raced /\ ~ walk.late
          => walk.legs = Seen(t)
       /\ tx[t].pc \in {"legs", "store"} /\ tx[t].gen # NoGen /\ ~ tx[t].late =>
            /\ tx[t].gen = meta /\ ~ raced => Legs(t, committed)
            /\ tx[t].gen = tx[t].ownMeta /\ ~ tx[t].raced => Legs(t, Seen(t))

-----------------------------------------------------------------------------
(* A transaction that has not begun is well typed.                         *)
LEMMA IdleType == Idle \in Tx
BY DEF Idle, Tx, Positions

(* A statement moves one transaction's view and no other's.                *)
LEMMA Frame ==
  ASSUME tx \in [Txs -> Tx], NEW t \in Txs, NEW r \in Tx, Becomes(t, r)
  PROVE  /\ tx' \in [Txs -> Tx]
         /\ tx'[t] = r
         /\ \A u \in Txs \ {t} : tx'[u] = tx[u]
BY DEF Becomes

(* What a transaction sees is well typed.                                  *)
LEMMA SeenType ==
  ASSUME TypeOK, NEW t \in Txs
  PROVE  /\ tx[t] \in Tx
         /\ Seen(t) \subseteq Writes
         /\ SeenRows(t) \subseteq Writes
         /\ Generation(t) \in Nat
         /\ committed \subseteq Writes
         /\ meta \in Nat
         /\ lastGen \in Nat
BY DEF TypeOK, Tx, Seen, SeenRows, Generation

(* No generation is visible: none was inserted, and the committed row is   *)
(* absent or deleted.                                                      *)
LEMMA NoneVisible ==
  ASSUME NEW t \in Txs, TypeOK
  PROVE  Generation(t) = NoGen <=>
           tx[t].ownMeta = NoGen /\ (metaLock = t \/ meta = NoGen)
BY DEF Generation

(* A commit leaves the others' views well typed.                           *)
LEMMA OverlappedType ==
  ASSUME TypeOK, NEW u \in Txs, NEW t \in Txs
  PROVE  Overlapped(u, t) \in Tx
<1>1. tx[u] \in Tx
  BY DEF TypeOK
<1> DEFINE late == tx[u].late \/ tx[u].pc \in Gathering
           race == tx[u].raced \/ tx[u].rebuilt
<1>2. late \in BOOLEAN /\ race \in BOOLEAN
  BY <1>1 DEF Tx
<1> HIDE DEF late, race
<1>3. [tx[u] EXCEPT !.late = late, !.raced = race] \in Tx
  BY <1>1, <1>2 DEF Tx
<1>4. Overlapped(u, t) \in {tx[u], [tx[u] EXCEPT !.late = late, !.raced = race]}
  BY Zenon DEF Overlapped, late, race
<1> QED
  BY <1>1, <1>3, <1>4

(* The initial state is well typed.                                        *)
LEMMA TypeInit == Init => TypeOK
<1> SUFFICES ASSUME Init PROVE TypeOK
  OBVIOUS
<1>1. walk \in [gen : Nat, legs : SUBSET Writes, late : BOOLEAN]
  BY DEF Init
<1>2. tx \in [Txs -> Tx]
  BY IdleType DEF Init
<1>3. raced \in BOOLEAN
  BY DEF Init
<1>4. meta \in Nat
  BY DEF Init
<1> QED
  BY <1>1, <1>2, <1>3, <1>4 DEF Init, TypeOK

(* Every statement keeps the state well typed.                             *)
LEMMA TypeStep == TypeOK /\ [Next]_vars => TypeOK'
<1> SUFFICES ASSUME TypeOK, [Next]_vars PROVE TypeOK'
  OBVIOUS
<1>1. CASE UNCHANGED vars
  BY <1>1 DEF vars, TypeOK
<1>2. ASSUME NEW t \in Txs, Begin(t) PROVE TypeOK'
  <2>1. [tx[t] EXCEPT !.pc = "open"] \in Tx
    BY SeenType DEF Tx, Positions
  <2> QED
    BY <1>2, <2>1, Frame DEF Begin, Goto, TypeOK
<1>3. ASSUME NEW t \in Txs, Invalidate(t) PROVE TypeOK'
  <2>1. /\ [tx[t] EXCEPT !.pc = "blocked", !.gen = meta] \in Tx
        /\ [tx[t] EXCEPT !.pc = "flush", !.ownMeta = NoGen] \in Tx
    BY SeenType DEF Tx, Positions
  <2> QED
    BY <1>3, <2>1, Frame DEF Invalidate, TypeOK
<1>4. ASSUME NEW t \in Txs, Unblock(t) PROVE TypeOK'
  <2>1. [tx[t] EXCEPT !.pc = "flush", !.gen = NoGen] \in Tx
    BY SeenType DEF Tx, Positions
  <2> QED
    BY <1>4, <2>1, Frame DEF Unblock, TypeOK
<1>5. ASSUME NEW t \in Txs, NEW w \in Writes, Write(t, w) PROVE TypeOK'
  <2>1. [tx[t] EXCEPT !.pc = "open", !.wrote = @ \cup {w}] \in Tx
    BY SeenType DEF Tx, Positions
  <2> QED
    BY <1>5, <2>1, Frame DEF Write, TypeOK
<1>6. ASSUME NEW t \in Txs, Read(t) PROVE TypeOK'
  <2>1. \A next \in {"check", "walk"} :
          [tx[t] EXCEPT !.pc = next, !.cats = Seen(t) \cap Categories,
                        !.began = committed, !.late = FALSE] \in Tx
    BY SeenType DEF Tx, Positions
  <2> QED
    BY <1>6, <2>1, Frame DEF Read, TypeOK
<1>18. ASSUME NEW t \in Txs, CheckValid(t) PROVE TypeOK'
  <2>1. /\ [tx[t] EXCEPT !.pc = "latest"] \in Tx
        /\ [tx[t] EXCEPT !.pc = "lock"] \in Tx
    BY SeenType DEF Tx, Positions
  <2> QED
    BY <1>18, <2>1, Frame DEF CheckValid, Goto, TypeOK
<1>7. ASSUME NEW t \in Txs, TakeLock(t) PROVE TypeOK'
  <2>1. [tx[t] EXCEPT !.pc = "recheck"] \in Tx
    BY SeenType DEF Tx, Positions
  <2> QED
    BY <1>7, <2>1, Frame DEF TakeLock, Goto, TypeOK
<1>8. ASSUME NEW t \in Txs, Recheck(t) PROVE TypeOK'
  <2>1. /\ [tx[t] EXCEPT !.pc = "latest"] \in Tx
        /\ [tx[t] EXCEPT !.pc = "activity"] \in Tx
    BY SeenType DEF Tx, Positions
  <2> QED
    BY <1>8, <2>1, Frame DEF Recheck, Goto, TypeOK
<1>9. ASSUME NEW t \in Txs, ReadActivity(t) PROVE TypeOK'
  <2>1. [tx[t] EXCEPT !.pc = "assigned", !.act = Seen(t) \cap Activity] \in Tx
    BY SeenType DEF Tx, Positions
  <2> QED
    BY <1>9, <2>1, Frame DEF ReadActivity, TypeOK
<1>10. ASSUME NEW t \in Txs, ReadAssigned(t) PROVE TypeOK'
  <2>1. [tx[t] EXCEPT !.pc = "replace", !.asg = Seen(t) \cap Assigned] \in Tx
    BY SeenType DEF Tx, Positions
  <2> QED
    BY <1>10, <2>1, Frame DEF ReadAssigned, TypeOK
<1>11. ASSUME NEW t \in Txs, Replace(t) PROVE TypeOK'
  <2>1. [tx[t] EXCEPT !.pc = "latest", !.rebuilt = TRUE,
                 !.ownRows = tx[t].cats \cup tx[t].act \cup tx[t].asg,
                 !.ownMeta = lastGen + 1, !.act = {}, !.asg = {},
                 !.raced = tx[t].late] \in Tx
    <3>1. tx[t].cats \cup tx[t].act \cup tx[t].asg \subseteq Writes /\ lastGen + 1 \in Nat
      BY SeenType DEF Tx
    <3> QED
      BY <3>1, SeenType DEF Tx, Positions
  <2> QED
    BY <1>11, <2>1, Frame DEF Replace, TypeOK
<1>12. ASSUME NEW t \in Txs, ReadLatest(t) PROVE TypeOK'
  <2>1. [tx[t] EXCEPT !.pc = "walk", !.served = SeenRows(t)] \in Tx
    BY SeenType DEF Tx, Positions
  <2> QED
    BY <1>12, <2>1, Frame DEF ReadLatest, TypeOK
<1>13. ASSUME NEW t \in Txs, ReadGeneration(t) PROVE TypeOK'
  <2> DEFINE read == [tx[t] EXCEPT !.gen = Generation(t), !.began = {}, !.served = {}]
  <2>1. /\ [read EXCEPT !.pc = "open", !.gen = NoGen, !.cats = {}, !.late = FALSE] \in Tx
        /\ [read EXCEPT !.pc = "legs"] \in Tx
    BY SeenType DEF Tx, Positions
  <2> QED
    BY <1>13, <2>1, Frame DEF ReadGeneration, TypeOK
<1>14. ASSUME NEW t \in Txs, ReadLegs(t) PROVE TypeOK'
  <2>1. [tx[t] EXCEPT !.pc = "store", !.act = Seen(t) \cap Activity] \in Tx
    BY SeenType DEF Tx, Positions
  <2> QED
    BY <1>14, <2>1, Frame DEF ReadLegs, TypeOK
<1>15. ASSUME NEW t \in Txs, StoreWalk(t) PROVE TypeOK'
  <2>1. [tx[t] EXCEPT !.pc = "open", !.cats = {}, !.act = {}, !.gen = NoGen,
                 !.late = FALSE] \in Tx
    BY SeenType DEF Tx, Positions
  <2>2. walk' \in [gen : Nat, legs : SUBSET Writes, late : BOOLEAN]
    BY <1>15, SeenType DEF StoreWalk, TypeOK, Tx, Writes
  <2> QED
    BY <1>15, <2>1, <2>2, Frame DEF StoreWalk, TypeOK
<1>16. ASSUME NEW t \in Txs, Commit(t) PROVE TypeOK'
  <2>1. \A u \in Txs : Overlapped(u, t) \in Tx
    BY OverlappedType
  <2>2. tx' \in [Txs -> Tx]
    BY <1>16, <2>1, IdleType DEF Commit
  <2>3. raced' \in BOOLEAN
    <3>1. tx[t].raced \in BOOLEAN
      BY DEF TypeOK, Tx
    <3> QED
      BY <1>16, <3>1 DEF Commit, TypeOK
  <2> QED
    BY <1>16, <2>2, <2>3, SeenType DEF Commit, Released, TypeOK
<1>17. ASSUME NEW t \in Txs, Rollback(t) PROVE TypeOK'
  BY <1>17, IdleType, Frame DEF Rollback, Released, TypeOK
<1> QED
  BY <1>1, <1>2, <1>3, <1>4, <1>5, <1>6, <1>7, <1>8, <1>9, <1>10, <1>11,
     <1>12, <1>13, <1>14, <1>15, <1>16, <1>17, <1>18 DEF Next

(* The DELETE waits, or it goes through.                                   *)
LEMMA InvalidateEffect ==
  ASSUME NEW t \in Txs, Invalidate(t)
  PROVE  \/ /\ tx' = [tx EXCEPT ![t] = [tx[t] EXCEPT !.pc = "blocked", !.gen = meta]]
            /\ tx[t].ownMeta = NoGen /\ meta # NoGen
            /\ metaLock \notin {None, t} /\ metaLock' = metaLock
         \/ /\ tx' = [tx EXCEPT ![t] = [tx[t] EXCEPT !.pc = "flush", !.ownMeta = NoGen]]
            /\ tx[t].ownMeta # NoGen \/ meta = NoGen \/ metaLock \in {None, t}
            /\ metaLock' = IF meta # NoGen THEN t ELSE metaLock
BY DEF Invalidate, Becomes

(* The second look finds valid rows, or that there are none.               *)
LEMMA RecheckEffect ==
  ASSUME TypeOK, NEW t \in Txs, Recheck(t)
  PROVE  /\ \A u \in Txs \ {t} : tx'[u] = tx[u]
         /\ \/ Generation(t) # NoGen /\ tx'[t].pc = "latest"
            \/ /\ tx[t].ownMeta = NoGen /\ (metaLock = t \/ meta = NoGen)
               /\ tx'[t].pc = "activity"
         /\ tx'[t].wrote = tx[t].wrote /\ tx'[t].ownRows = tx[t].ownRows
         /\ tx'[t].rebuilt = tx[t].rebuilt /\ tx'[t].ownMeta = tx[t].ownMeta
         /\ tx'[t].cats = tx[t].cats /\ tx'[t].act = tx[t].act
         /\ tx'[t].asg = tx[t].asg /\ tx'[t].gen = tx[t].gen
         /\ tx'[t].began = tx[t].began /\ tx'[t].late = tx[t].late
         /\ tx'[t].raced = tx[t].raced
<1> DEFINE next == IF Generation(t) # NoGen THEN "latest" ELSE "activity"
           r == [tx[t] EXCEPT !.pc = next]
<1>1. tx[t] \in Tx /\ tx \in [Txs -> Tx]
  BY DEF TypeOK
<1>2. /\ r.pc = next /\ r.wrote = tx[t].wrote
      /\ r.ownRows = tx[t].ownRows /\ r.rebuilt = tx[t].rebuilt
      /\ r.ownMeta = tx[t].ownMeta /\ r.cats = tx[t].cats /\ r.act = tx[t].act
      /\ r.asg = tx[t].asg /\ r.gen = tx[t].gen /\ r.began = tx[t].began
      /\ r.late = tx[t].late /\ r.raced = tx[t].raced
  BY <1>1 DEF Tx
<1>3. tx'[t] = r /\ \A u \in Txs \ {t} : tx'[u] = tx[u]
  BY <1>1 DEF Recheck, Goto, Becomes
<1>4. Generation(t) = NoGen => tx[t].ownMeta = NoGen /\ (metaLock = t \/ meta = NoGen)
  BY NoneVisible
<1>5. \/ Generation(t) # NoGen /\ next = "latest"
      \/ Generation(t) = NoGen /\ next = "activity"
  BY Zenon
<1> HIDE DEF r, next
<1> QED
  BY <1>2, <1>3, <1>4, <1>5

(* A walk's generation is the one it sees first; a hit ends the read.      *)
LEMMA ReadGenerationEffect ==
  ASSUME TypeOK, NEW t \in Txs, ReadGeneration(t)
  PROVE  /\ \A u \in Txs \ {t} : tx'[u] = tx[u]
         /\ \/ tx'[t].pc = "open" /\ tx'[t].gen = NoGen /\ tx'[t].cats = {}
            \/ /\ tx'[t].pc = "legs" /\ tx'[t].gen = Generation(t)
               /\ tx'[t].cats = tx[t].cats /\ tx'[t].late = tx[t].late
         /\ tx'[t].wrote = tx[t].wrote /\ tx'[t].ownRows = tx[t].ownRows
         /\ tx'[t].rebuilt = tx[t].rebuilt /\ tx'[t].ownMeta = tx[t].ownMeta
         /\ tx'[t].act = tx[t].act /\ tx'[t].asg = tx[t].asg
         /\ tx'[t].raced = tx[t].raced
<1> DEFINE read == [tx[t] EXCEPT !.gen = Generation(t), !.began = {}, !.served = {}]
           hit == [read EXCEPT !.pc = "open", !.gen = NoGen, !.cats = {}, !.late = FALSE]
           miss == [read EXCEPT !.pc = "legs"]
           Kept(r) == /\ r.wrote = tx[t].wrote /\ r.ownRows = tx[t].ownRows
                      /\ r.rebuilt = tx[t].rebuilt /\ r.ownMeta = tx[t].ownMeta
                      /\ r.act = tx[t].act /\ r.asg = tx[t].asg
                      /\ r.raced = tx[t].raced
<1>1. tx[t] \in Tx /\ tx \in [Txs -> Tx]
  BY DEF TypeOK
<1>2. Kept(hit) /\ hit.pc = "open" /\ hit.gen = NoGen /\ hit.cats = {}
  BY <1>1 DEF Tx
<1>3. /\ Kept(miss) /\ miss.pc = "legs" /\ miss.gen = Generation(t)
      /\ miss.cats = tx[t].cats /\ miss.late = tx[t].late
  BY <1>1 DEF Tx
<1>4. Becomes(t, hit) \/ Becomes(t, miss)
  BY DEF ReadGeneration
<1> HIDE DEF hit, miss
<1>5. \A u \in Txs \ {t} : tx'[u] = tx[u]
  BY <1>1, <1>4 DEF Becomes
<1>6. tx'[t] = hit \/ tx'[t] = miss
  BY <1>1, <1>4 DEF Becomes
<1> QED
  BY <1>2, <1>3, <1>5, <1>6

(* What another transaction's commit leaves alone.                         *)
Kept(u) ==
  /\ tx'[u].pc = tx[u].pc /\ tx'[u].wrote = tx[u].wrote
  /\ tx'[u].ownRows = tx[u].ownRows /\ tx'[u].rebuilt = tx[u].rebuilt
  /\ tx'[u].ownMeta = tx[u].ownMeta /\ tx'[u].gen = tx[u].gen
  /\ tx'[u].cats = tx[u].cats /\ tx'[u].act = tx[u].act
  /\ tx'[u].asg = tx[u].asg /\ tx'[u].began = tx[u].began

(* A commit ends one transaction; the others keep what they have read, and *)
(* know that the commit overlapped it when something was written.          *)
LEMMA CommitEffect ==
  ASSUME TypeOK, NEW t \in Txs, Commit(t)
  PROVE  /\ tx'[t] = Idle
         /\ \A u \in Txs \ {t} :
              /\ Kept(u)
              /\ \/ /\ tx[t].wrote = {}
                    /\ tx'[u].late = tx[u].late /\ tx'[u].raced = tx[u].raced
                 \/ /\ tx[t].wrote # {}
                    /\ tx'[u].late <=> tx[u].late \/ tx[u].pc \in Gathering
                    /\ tx[u].raced \/ tx[u].rebuilt => tx'[u].raced
<1>1. tx'[t] = Idle /\ \A u \in Txs \ {t} : tx'[u] = Overlapped(u, t)
  BY DEF Commit, TypeOK
<1>2. ASSUME NEW u \in Txs \ {t}
      PROVE  /\ Kept(u)
             /\ \/ /\ tx[t].wrote = {}
                   /\ tx'[u].late = tx[u].late /\ tx'[u].raced = tx[u].raced
                \/ /\ tx[t].wrote # {}
                   /\ tx'[u].late <=> tx[u].late \/ tx[u].pc \in Gathering
                   /\ tx[u].raced \/ tx[u].rebuilt => tx'[u].raced
  <2>1. tx[u] \in Tx
    BY DEF TypeOK
  <2>2. CASE tx[t].wrote = {}
    BY <1>1, <2>2 DEF Overlapped, Kept
  <2>3. CASE tx[t].wrote # {}
    <3> DEFINE late == tx[u].late \/ tx[u].pc \in Gathering
               race == tx[u].raced \/ tx[u].rebuilt
    <3>1. tx'[u] = [tx[u] EXCEPT !.late = late, !.raced = race]
      BY <1>1, <2>3 DEF Overlapped
    <3>2. late <=> tx[u].late \/ tx[u].pc \in Gathering
      OBVIOUS
    <3>3. race <=> tx[u].raced \/ tx[u].rebuilt
      OBVIOUS
    <3> HIDE DEF late, race
    <3>4. Kept(u) /\ tx'[u].late = late /\ tx'[u].raced = race
      BY <2>1, <3>1 DEF Tx, Kept
    <3> QED
      BY <2>3, <3>2, <3>3, <3>4
  <2> QED
    BY <2>2, <2>3
<1> QED
  BY <1>1, <1>2

(* Nobody holds anything at the start.                                     *)
LEMMA LockInit == Init => LockInv
BY DEF Init, LockInv, Holder, Rebuilding, Idle

(* Every statement keeps who holds what.                                   *)
LEMMA LockStep == TypeOK /\ LockInv /\ [Next]_vars => LockInv'
<1> SUFFICES ASSUME TypeOK, LockInv, [Next]_vars PROVE LockInv'
  OBVIOUS
<1> USE DEF TypeOK, Tx, Positions, LockInv, Holder, Rebuilding, At, Goto,
        Becomes, Generation
<1>1. CASE UNCHANGED vars
  BY <1>1 DEF vars
<1>2. ASSUME NEW t \in Txs, Begin(t) PROVE LockInv'
  BY <1>2 DEF Begin
<1>3. ASSUME NEW t \in Txs, Invalidate(t) PROVE LockInv'
  <2>1. CASE tx' = [tx EXCEPT ![t] = [tx[t] EXCEPT !.pc = "blocked", !.gen = meta]]
               /\ tx[t].ownMeta = NoGen /\ meta # NoGen
               /\ metaLock \notin {None, t} /\ metaLock' = metaLock
    BY <1>3, <2>1 DEF Invalidate
  <2>2. CASE tx' = [tx EXCEPT ![t] = [tx[t] EXCEPT !.pc = "flush", !.ownMeta = NoGen]]
               /\ (tx[t].ownMeta # NoGen \/ meta = NoGen \/ metaLock \in {None, t})
               /\ metaLock' = IF meta # NoGen THEN t ELSE metaLock
    BY <1>3, <2>2 DEF Invalidate
  <2> QED
    BY <1>3, <2>1, <2>2, InvalidateEffect
<1>4. ASSUME NEW t \in Txs, Unblock(t) PROVE LockInv'
  BY <1>4 DEF Unblock
<1>5. ASSUME NEW t \in Txs, NEW w \in Writes, Write(t, w) PROVE LockInv'
  BY <1>5 DEF Write
<1>6. ASSUME NEW t \in Txs, Read(t) PROVE LockInv'
  BY <1>6 DEF Read
<1>18. ASSUME NEW t \in Txs, CheckValid(t) PROVE LockInv'
  BY <1>18 DEF CheckValid
<1>7. ASSUME NEW t \in Txs, TakeLock(t) PROVE LockInv'
  BY <1>7 DEF TakeLock
<1>8. ASSUME NEW t \in Txs, Recheck(t) PROVE LockInv'
  <2>1. tx[t].pc = "recheck"
        /\ UNCHANGED <<committed, rows, meta, metaLock, lock, lastGen, walk, raced>>
    BY <1>8 DEF Recheck
  <2> QED
    BY <1>8, <2>1, RecheckEffect
<1>9. ASSUME NEW t \in Txs, ReadActivity(t) PROVE LockInv'
  BY <1>9 DEF ReadActivity
<1>10. ASSUME NEW t \in Txs, ReadAssigned(t) PROVE LockInv'
  BY <1>10 DEF ReadAssigned
<1>11. ASSUME NEW t \in Txs, Replace(t) PROVE LockInv'
  BY <1>11 DEF Replace
<1>12. ASSUME NEW t \in Txs, ReadLatest(t) PROVE LockInv'
  BY <1>12 DEF ReadLatest
<1>13. ASSUME NEW t \in Txs, ReadGeneration(t) PROVE LockInv'
  <2>1. tx[t].pc = "walk"
        /\ UNCHANGED <<committed, rows, meta, metaLock, lock, lastGen, walk, raced>>
    BY <1>13 DEF ReadGeneration
  <2> QED
    BY <1>13, <2>1, ReadGenerationEffect, SeenType
<1>14. ASSUME NEW t \in Txs, ReadLegs(t) PROVE LockInv'
  BY <1>14 DEF ReadLegs
<1>15. ASSUME NEW t \in Txs, StoreWalk(t) PROVE LockInv'
  BY <1>15 DEF StoreWalk
<1>16. ASSUME NEW t \in Txs, Commit(t) PROVE LockInv'
  <2>1. /\ At(t, "open")
        /\ committed' = Seen(t)
        /\ rows' = SeenRows(t)
        /\ meta' = Generation(t)
        /\ metaLock' = Released(t, metaLock)
        /\ lock' = Released(t, lock)
        /\ raced' = IF tx[t].rebuilt
                    THEN tx[t].raced \/ \E u \in Txs \ {t} : Dirty(u)
                    ELSE raced
        /\ UNCHANGED <<lastGen, walk>>
    BY <1>16 DEF Commit
  <2> QED
    BY <1>16, <2>1, CommitEffect DEF Kept, Released, Idle
<1>17. ASSUME NEW t \in Txs, Rollback(t) PROVE LockInv'
  BY <1>17 DEF Rollback, Released, Idle
<1> QED
  BY <1>1, <1>2, <1>3, <1>4, <1>5, <1>6, <1>7, <1>8, <1>9, <1>10, <1>11,
     <1>12, <1>13, <1>14, <1>15, <1>16, <1>17, <1>18 DEF Next

(* Generations stay apart.                                                 *)
LEMMA GenStep == TypeOK /\ LockInv /\ GenInv /\ [Next]_vars => GenInv'
<1> SUFFICES ASSUME TypeOK, LockInv, GenInv, [Next]_vars PROVE GenInv'
  OBVIOUS
<1> USE DEF TypeOK, Tx, Positions, LockInv, GenInv, Holder, Rebuilding, At,
        Goto, Becomes, Generation
<1>1. CASE UNCHANGED vars
  BY <1>1 DEF vars
<1>2. ASSUME NEW t \in Txs, Begin(t) PROVE GenInv'
  BY <1>2 DEF Begin
<1>3. ASSUME NEW t \in Txs, Invalidate(t) PROVE GenInv'
  <2>1. CASE tx' = [tx EXCEPT ![t] = [tx[t] EXCEPT !.pc = "blocked", !.gen = meta]]
               /\ tx[t].ownMeta = NoGen /\ meta # NoGen
               /\ metaLock \notin {None, t} /\ metaLock' = metaLock
    BY <1>3, <2>1 DEF Invalidate
  <2>2. CASE tx' = [tx EXCEPT ![t] = [tx[t] EXCEPT !.pc = "flush", !.ownMeta = NoGen]]
               /\ (tx[t].ownMeta # NoGen \/ meta = NoGen \/ metaLock \in {None, t})
               /\ metaLock' = IF meta # NoGen THEN t ELSE metaLock
    BY <1>3, <2>2 DEF Invalidate
  <2> QED
    BY <1>3, <2>1, <2>2, InvalidateEffect
<1>4. ASSUME NEW t \in Txs, Unblock(t) PROVE GenInv'
  BY <1>4 DEF Unblock
<1>5. ASSUME NEW t \in Txs, NEW w \in Writes, Write(t, w) PROVE GenInv'
  BY <1>5 DEF Write
<1>6. ASSUME NEW t \in Txs, Read(t) PROVE GenInv'
  BY <1>6 DEF Read
<1>18. ASSUME NEW t \in Txs, CheckValid(t) PROVE GenInv'
  BY <1>18 DEF CheckValid
<1>7. ASSUME NEW t \in Txs, TakeLock(t) PROVE GenInv'
  BY <1>7 DEF TakeLock
<1>8. ASSUME NEW t \in Txs, Recheck(t) PROVE GenInv'
  <2>1. tx[t].pc = "recheck"
        /\ UNCHANGED <<committed, rows, meta, metaLock, lock, lastGen, walk, raced>>
    BY <1>8 DEF Recheck
  <2> QED
    BY <1>8, <2>1, RecheckEffect
<1>9. ASSUME NEW t \in Txs, ReadActivity(t) PROVE GenInv'
  BY <1>9 DEF ReadActivity
<1>10. ASSUME NEW t \in Txs, ReadAssigned(t) PROVE GenInv'
  BY <1>10 DEF ReadAssigned
<1>11. ASSUME NEW t \in Txs, Replace(t) PROVE GenInv'
  BY <1>11 DEF Replace
<1>12. ASSUME NEW t \in Txs, ReadLatest(t) PROVE GenInv'
  BY <1>12 DEF ReadLatest
<1>13. ASSUME NEW t \in Txs, ReadGeneration(t) PROVE GenInv'
  <2>1. tx[t].pc = "walk"
        /\ UNCHANGED <<committed, rows, meta, metaLock, lock, lastGen, walk, raced>>
    BY <1>13 DEF ReadGeneration
  <2> QED
    BY <1>13, <2>1, ReadGenerationEffect, SeenType
<1>14. ASSUME NEW t \in Txs, ReadLegs(t) PROVE GenInv'
  BY <1>14 DEF ReadLegs
<1>15. ASSUME NEW t \in Txs, StoreWalk(t) PROVE GenInv'
  BY <1>15 DEF StoreWalk
<1>16. ASSUME NEW t \in Txs, Commit(t) PROVE GenInv'
  <2>1. /\ At(t, "open")
        /\ committed' = Seen(t)
        /\ rows' = SeenRows(t)
        /\ meta' = Generation(t)
        /\ metaLock' = Released(t, metaLock)
        /\ lock' = Released(t, lock)
        /\ raced' = IF tx[t].rebuilt
                    THEN tx[t].raced \/ \E u \in Txs \ {t} : Dirty(u)
                    ELSE raced
        /\ UNCHANGED <<lastGen, walk>>
    BY <1>16 DEF Commit
  <2> QED
    BY <1>16, <2>1, CommitEffect DEF Kept, Released, Idle
<1>17. ASSUME NEW t \in Txs, Rollback(t) PROVE GenInv'
  BY <1>17 DEF Rollback, Released, Idle
<1> QED
  BY <1>1, <1>2, <1>3, <1>4, <1>5, <1>6, <1>7, <1>8, <1>9, <1>10, <1>11,
     <1>12, <1>13, <1>14, <1>15, <1>16, <1>17, <1>18 DEF Next

(* The rows keep counting what they say.                                   *)
LEMMA RowsStep == TypeOK /\ LockInv /\ RowsInv /\ [Next]_vars => RowsInv'
<1> SUFFICES ASSUME TypeOK, LockInv, RowsInv, [Next]_vars PROVE RowsInv'
  OBVIOUS
<1> USE DEF TypeOK, Tx, Positions, LockInv, RowsInv, Counts, WillDelete,
        Gathering, Reading, Dirty, RowsRaced, Seen, SeenRows, CacheHonest, Writes,
        Holder, Rebuilding, At, Goto, Becomes, Generation
<1>1. CASE UNCHANGED vars
  BY <1>1 DEF vars
<1>2. ASSUME NEW t \in Txs, Begin(t) PROVE RowsInv'
  BY <1>2 DEF Begin
<1>3. ASSUME NEW t \in Txs, Invalidate(t) PROVE RowsInv'
  <2>1. CASE tx' = [tx EXCEPT ![t] = [tx[t] EXCEPT !.pc = "blocked", !.gen = meta]]
               /\ tx[t].ownMeta = NoGen /\ meta # NoGen
               /\ metaLock \notin {None, t} /\ metaLock' = metaLock
    BY <1>3, <2>1 DEF Invalidate
  <2>2. CASE tx' = [tx EXCEPT ![t] = [tx[t] EXCEPT !.pc = "flush", !.ownMeta = NoGen]]
               /\ (tx[t].ownMeta # NoGen \/ meta = NoGen \/ metaLock \in {None, t})
               /\ metaLock' = IF meta # NoGen THEN t ELSE metaLock
    BY <1>3, <2>2 DEF Invalidate
  <2> QED
    BY <1>3, <2>1, <2>2, InvalidateEffect
<1>4. ASSUME NEW t \in Txs, Unblock(t) PROVE RowsInv'
  BY <1>4 DEF Unblock
<1>5. ASSUME NEW t \in Txs, NEW w \in Writes, Write(t, w) PROVE RowsInv'
  BY <1>5 DEF Write
<1>6. ASSUME NEW t \in Txs, Read(t) PROVE RowsInv'
  BY <1>6 DEF Read
<1>18. ASSUME NEW t \in Txs, CheckValid(t) PROVE RowsInv'
  BY <1>18 DEF CheckValid
<1>7. ASSUME NEW t \in Txs, TakeLock(t) PROVE RowsInv'
  BY <1>7 DEF TakeLock
<1>8. ASSUME NEW t \in Txs, Recheck(t) PROVE RowsInv'
  <2>1. tx[t].pc = "recheck"
        /\ UNCHANGED <<committed, rows, meta, metaLock, lock, lastGen, walk, raced>>
    BY <1>8 DEF Recheck
  <2>2. CASE Generation(t) # NoGen /\ tx'[t].pc = "latest"
    BY <1>8, <2>1, <2>2, RecheckEffect
  <2>3. CASE tx'[t].pc = "activity"
    BY <1>8, <2>1, <2>3, RecheckEffect
  <2> QED
    BY <1>8, <2>2, <2>3, RecheckEffect
<1>9. ASSUME NEW t \in Txs, ReadActivity(t) PROVE RowsInv'
  BY <1>9 DEF ReadActivity
<1>10. ASSUME NEW t \in Txs, ReadAssigned(t) PROVE RowsInv'
  BY <1>10 DEF ReadAssigned
<1>11. ASSUME NEW t \in Txs, Replace(t) PROVE RowsInv'
  BY <1>11 DEF Replace
<1>12. ASSUME NEW t \in Txs, ReadLatest(t) PROVE RowsInv'
  BY <1>12 DEF ReadLatest
<1>13. ASSUME NEW t \in Txs, ReadGeneration(t) PROVE RowsInv'
  <2>1. tx[t].pc = "walk"
        /\ UNCHANGED <<committed, rows, meta, metaLock, lock, lastGen, walk, raced>>
    BY <1>13 DEF ReadGeneration
  <2> QED
    BY <1>13, <2>1, ReadGenerationEffect, SeenType
<1>14. ASSUME NEW t \in Txs, ReadLegs(t) PROVE RowsInv'
  BY <1>14 DEF ReadLegs
<1>15. ASSUME NEW t \in Txs, StoreWalk(t) PROVE RowsInv'
  BY <1>15 DEF StoreWalk
<1>16. ASSUME NEW t \in Txs, Commit(t) PROVE RowsInv'
  <2>1. /\ At(t, "open")
        /\ committed' = Seen(t)
        /\ rows' = SeenRows(t)
        /\ meta' = Generation(t)
        /\ metaLock' = Released(t, metaLock)
        /\ lock' = Released(t, lock)
        /\ raced' = IF tx[t].rebuilt
                    THEN tx[t].raced \/ \E u \in Txs \ {t} : Dirty(u)
                    ELSE raced
        /\ UNCHANGED <<lastGen, walk>>
    BY <1>16 DEF Commit
  <2> QED
    BY <1>16, <2>1, CommitEffect DEF Kept, Released, Idle
<1>17. ASSUME NEW t \in Txs, Rollback(t) PROVE RowsInv'
  BY <1>17 DEF Rollback, Released, Idle
<1> QED
  BY <1>1, <1>2, <1>3, <1>4, <1>5, <1>6, <1>7, <1>8, <1>9, <1>10, <1>11,
     <1>12, <1>13, <1>14, <1>15, <1>16, <1>17, <1>18 DEF Next

(* The stored walk keeps counting what its generation says.                *)
LEMMA WalkStep == TypeOK /\ LockInv /\ RowsInv /\ GenInv /\ WalkInv /\ [Next]_vars => WalkInv'
<1> SUFFICES ASSUME TypeOK, LockInv, RowsInv, GenInv, WalkInv, [Next]_vars PROVE WalkInv'
  OBVIOUS
<1> USE DEF TypeOK, Tx, Positions, LockInv, RowsInv, GenInv, WalkInv,
        WalkCurrent, WillDelete, Counts, Gathering, Legs, Dirty, Seen, Writes, Holder, Rebuilding, At,
        Goto, Becomes, Generation
<1>1. CASE UNCHANGED vars
  BY <1>1 DEF vars
<1>2. ASSUME NEW t \in Txs, Begin(t) PROVE WalkInv'
  BY <1>2 DEF Begin
<1>3. ASSUME NEW t \in Txs, Invalidate(t) PROVE WalkInv'
  <2>1. CASE tx' = [tx EXCEPT ![t] = [tx[t] EXCEPT !.pc = "blocked", !.gen = meta]]
               /\ tx[t].ownMeta = NoGen /\ meta # NoGen
               /\ metaLock \notin {None, t} /\ metaLock' = metaLock
    BY <1>3, <2>1 DEF Invalidate
  <2>2. CASE tx' = [tx EXCEPT ![t] = [tx[t] EXCEPT !.pc = "flush", !.ownMeta = NoGen]]
               /\ (tx[t].ownMeta # NoGen \/ meta = NoGen \/ metaLock \in {None, t})
               /\ metaLock' = IF meta # NoGen THEN t ELSE metaLock
    BY <1>3, <2>2 DEF Invalidate
  <2> QED
    BY <1>3, <2>1, <2>2, InvalidateEffect
<1>4. ASSUME NEW t \in Txs, Unblock(t) PROVE WalkInv'
  BY <1>4 DEF Unblock
<1>5. ASSUME NEW t \in Txs, NEW w \in Writes, Write(t, w) PROVE WalkInv'
  BY <1>5 DEF Write
<1>6. ASSUME NEW t \in Txs, Read(t) PROVE WalkInv'
  BY <1>6 DEF Read
<1>18. ASSUME NEW t \in Txs, CheckValid(t) PROVE WalkInv'
  BY <1>18 DEF CheckValid
<1>7. ASSUME NEW t \in Txs, TakeLock(t) PROVE WalkInv'
  BY <1>7 DEF TakeLock
<1>8. ASSUME NEW t \in Txs, Recheck(t) PROVE WalkInv'
  <2>1. tx[t].pc = "recheck"
        /\ UNCHANGED <<committed, rows, meta, metaLock, lock, lastGen, walk, raced>>
    BY <1>8 DEF Recheck
  <2> QED
    BY <1>8, <2>1, RecheckEffect
<1>9. ASSUME NEW t \in Txs, ReadActivity(t) PROVE WalkInv'
  BY <1>9 DEF ReadActivity
<1>10. ASSUME NEW t \in Txs, ReadAssigned(t) PROVE WalkInv'
  BY <1>10 DEF ReadAssigned
<1>11. ASSUME NEW t \in Txs, Replace(t) PROVE WalkInv'
  BY <1>11 DEF Replace
<1>12. ASSUME NEW t \in Txs, ReadLatest(t) PROVE WalkInv'
  BY <1>12 DEF ReadLatest
<1>13. ASSUME NEW t \in Txs, ReadGeneration(t) PROVE WalkInv'
  <2>1. tx[t].pc = "walk"
        /\ UNCHANGED <<committed, rows, meta, metaLock, lock, lastGen, walk, raced>>
    BY <1>13 DEF ReadGeneration
  <2> QED
    BY <1>13, <2>1, ReadGenerationEffect, SeenType
<1>14. ASSUME NEW t \in Txs, ReadLegs(t) PROVE WalkInv'
  BY <1>14 DEF ReadLegs
<1>15. ASSUME NEW t \in Txs, StoreWalk(t) PROVE WalkInv'
  BY <1>15 DEF StoreWalk
<1>16. ASSUME NEW t \in Txs, Commit(t) PROVE WalkInv'
  <2>1. /\ At(t, "open")
        /\ committed' = Seen(t)
        /\ rows' = SeenRows(t)
        /\ meta' = Generation(t)
        /\ metaLock' = Released(t, metaLock)
        /\ lock' = Released(t, lock)
        /\ raced' = IF tx[t].rebuilt
                    THEN tx[t].raced \/ \E u \in Txs \ {t} : Dirty(u)
                    ELSE raced
        /\ UNCHANGED <<lastGen, walk>>
    BY <1>16 DEF Commit
  <2> QED
    BY <1>16, <2>1, CommitEffect DEF Kept, Released, Idle
<1>17. ASSUME NEW t \in Txs, Rollback(t) PROVE WalkInv'
  BY <1>17 DEF Rollback, Released, Idle
<1> QED
  BY <1>1, <1>2, <1>3, <1>4, <1>5, <1>6, <1>7, <1>8, <1>9, <1>10, <1>11,
     <1>12, <1>13, <1>14, <1>15, <1>16, <1>17, <1>18 DEF Next

-----------------------------------------------------------------------------
(* Only latest_per_category moves a read on to the walk.                   *)
LEMMA ServedByRead ==
  ASSUME TypeOK, [Next]_vars, NEW u \in Txs, tx[u].pc = "latest", tx'[u].pc = "walk"
  PROVE  ReadLatest(u)
<1> USE DEF TypeOK, Tx, At, Goto, Becomes
<1>1. CASE UNCHANGED vars
  BY <1>1 DEF vars
<1>2. ASSUME NEW t \in Txs, Begin(t) PROVE ReadLatest(u)
  BY <1>2 DEF Begin
<1>3. ASSUME NEW t \in Txs, Invalidate(t) PROVE ReadLatest(u)
  BY <1>3, InvalidateEffect DEF Invalidate
<1>4. ASSUME NEW t \in Txs, Unblock(t) PROVE ReadLatest(u)
  BY <1>4 DEF Unblock
<1>5. ASSUME NEW t \in Txs, NEW w \in Writes, Write(t, w) PROVE ReadLatest(u)
  BY <1>5 DEF Write
<1>6. ASSUME NEW t \in Txs, Read(t) PROVE ReadLatest(u)
  BY <1>6 DEF Read
<1>18. ASSUME NEW t \in Txs, CheckValid(t) PROVE ReadLatest(u)
  BY <1>18 DEF CheckValid
<1>7. ASSUME NEW t \in Txs, TakeLock(t) PROVE ReadLatest(u)
  BY <1>7 DEF TakeLock
<1>8. ASSUME NEW t \in Txs, Recheck(t) PROVE ReadLatest(u)
  BY <1>8, RecheckEffect DEF Recheck
<1>9. ASSUME NEW t \in Txs, ReadActivity(t) PROVE ReadLatest(u)
  BY <1>9 DEF ReadActivity
<1>10. ASSUME NEW t \in Txs, ReadAssigned(t) PROVE ReadLatest(u)
  BY <1>10 DEF ReadAssigned
<1>11. ASSUME NEW t \in Txs, Replace(t) PROVE ReadLatest(u)
  BY <1>11 DEF Replace
<1>12. ASSUME NEW t \in Txs, ReadLatest(t) PROVE ReadLatest(u)
  BY <1>12 DEF ReadLatest
<1>13. ASSUME NEW t \in Txs, ReadGeneration(t) PROVE ReadLatest(u)
  BY <1>13, ReadGenerationEffect DEF ReadGeneration
<1>14. ASSUME NEW t \in Txs, ReadLegs(t) PROVE ReadLatest(u)
  BY <1>14 DEF ReadLegs
<1>15. ASSUME NEW t \in Txs, StoreWalk(t) PROVE ReadLatest(u)
  BY <1>15 DEF StoreWalk
<1>16. ASSUME NEW t \in Txs, Commit(t) PROVE ReadLatest(u)
  BY <1>16 DEF Commit, Overlapped, Idle
<1>17. ASSUME NEW t \in Txs, Rollback(t) PROVE ReadLatest(u)
  BY <1>17 DEF Rollback, Released, Idle
<1> QED
  BY <1>1, <1>2, <1>3, <1>4, <1>5, <1>6, <1>7, <1>8, <1>9, <1>10, <1>11,
     <1>12, <1>13, <1>14, <1>15, <1>16, <1>17, <1>18 DEF Next

(* The whole invariant holds at the start.                                 *)
LEMMA InvInit == Init => TypeOK /\ LockInv /\ RowsInv /\ GenInv /\ WalkInv
<1> SUFFICES ASSUME Init PROVE TypeOK /\ LockInv /\ RowsInv /\ GenInv /\ WalkInv
  OBVIOUS
<1>1. TypeOK /\ LockInv
  BY TypeInit, LockInit
<1>2. \A t \in Txs : tx[t] = Idle
  BY DEF Init
<1>3. RowsInv
  BY <1>2 DEF Init, RowsInv, Counts, WillDelete, Gathering, Reading, Rebuilding, Dirty,
     RowsRaced,
     Seen, SeenRows, CacheHonest, Idle
<1>4. GenInv
  BY <1>2 DEF Init, GenInv, Idle
<1>5. WalkInv
  BY <1>2 DEF Init, WalkInv, WalkCurrent, Idle
<1> QED
  BY <1>1, <1>3, <1>4, <1>5

(* Every conjunct of the invariant holds of every reachable state.          *)
LEMMA InvAlways == Spec => [](TypeOK /\ LockInv /\ RowsInv /\ GenInv /\ WalkInv)
<1> DEFINE Inv == TypeOK /\ LockInv /\ RowsInv /\ GenInv /\ WalkInv
<1>1. Init => Inv
  BY InvInit
<1>2. Inv /\ [Next]_vars => Inv'
  BY TypeStep, LockStep, RowsStep, GenStep, WalkStep
<1> QED
  BY <1>1, <1>2, PTL DEF Spec

(* Every reachable state of the cache is well typed.                        *)
THEOREM SnapshotTypeCorrect == Spec => []TypeOK
BY InvAlways, PTL

(* Rows whose meta row is there count exactly what is committed, unless a   *)
(* write was open or committed during the rebuild they come from: the       *)
(* hooks, the locks and PostgreSQL's visibility leave no other way for the  *)
(* cache to lie, whatever rolls back and in whatever order.                 *)
THEOREM HonestCorrect == Spec => []CacheHonest
<1>1. RowsInv => CacheHonest
  BY DEF RowsInv
<1> QED
  BY <1>1, InvAlways, PTL

(* A card walk found under the valid generation counts what is committed,   *)
(* under the same condition: no entry survives the write that outdated it,  *)
(* and none is left by a transaction that rolled back.                      *)
THEOREM WalkCorrect == Spec => []WalkCurrent
<1>1. WalkInv => WalkCurrent
  BY DEF WalkInv
<1> QED
  BY <1>1, InvAlways, PTL

(* A rebuild is alone, and nothing valid is there for it to see: behind the *)
(* advisory lock and the second look, a burst of readers rebuilds once.     *)
THEOREM RebuildCorrect == Spec => []RebuildIsNeeded
<1>1. TypeOK /\ LockInv => RebuildIsNeeded
  BY DEF TypeOK, Tx, LockInv, Holder, RebuildIsNeeded, Generation
<1> QED
  BY <1>1, InvAlways, PTL

(* A read shows nothing uncommitted but its own, and misses nothing that    *)
(* was committed when it began, nor its own writes, unless the rows it read *)
(* come from a rebuild that a write overlapped.                             *)
THEOREM ReadCorrect == Spec => ReadBounds
<1> DEFINE Bound == \A t \in Txs : At(t, "latest") /\ tx'[t].pc = "walk" =>
       /\ tx'[t].served \subseteq Seen(t)
       /\ ~ RowsRaced(t) => tx[t].began \cup tx[t].wrote \subseteq tx'[t].served
<1>1. TypeOK /\ RowsInv /\ [Next]_vars => [Bound]_vars
  <2> SUFFICES ASSUME TypeOK, RowsInv, [Next]_vars,
                      NEW t \in Txs, tx[t].pc = "latest", tx'[t].pc = "walk"
               PROVE  /\ tx'[t].served \subseteq Seen(t)
                      /\ ~ RowsRaced(t) => tx[t].began \cup tx[t].wrote \subseteq tx'[t].served
    BY DEF At
  <2>1. ReadLatest(t)
    BY ServedByRead
  <2>2. tx'[t].served = SeenRows(t)
    <3> DEFINE r == [tx[t] EXCEPT !.pc = "walk", !.served = SeenRows(t)]
    <3>1. tx[t] \in Tx /\ tx \in [Txs -> Tx]
      BY DEF TypeOK
    <3>2. r.served = SeenRows(t)
      BY <3>1 DEF Tx
    <3>3. tx'[t] = r
      BY <2>1, <3>1 DEF ReadLatest, Becomes
    <3> QED
      BY <3>2, <3>3
  <2>3. SeenRows(t) \subseteq Seen(t)
    BY DEF RowsInv, Counts, SeenRows, Seen
  <2>4. ~ RowsRaced(t) => tx[t].began \cup tx[t].wrote \subseteq SeenRows(t)
    BY DEF RowsInv
  <2> QED
    BY <2>2, <2>3, <2>4
<1> QED
  BY <1>1, InvAlways, PTL DEF Spec, ReadBounds
=============================================================================
