-------------------------- MODULE ChangeLogProofs ---------------------------
(***************************************************************************)
(* What the change log keeps, for every set of envelopes, amounts and      *)
(* moves and for as many requests as one likes: every row is well formed,  *)
(* a move is one thing, and the envelopes hold what the live rows add up   *)
(* to. The rules are said of a log, so that a request is a lemma about two *)
(* logs: the one it reads and the one it writes.                           *)
(***************************************************************************)
EXTENDS ChangeLog, Induction, SequenceTheorems

-----------------------------------------------------------------------------
(* What a row of the log may be. *)

Names == (UNION {s.envelopes : s \in Scopes}) \cup Legs
Actions == {"update", "import", "delete", "reconcile"}
LogRecords ==
  [entity : Names, action : Actions, before : Transaction \cup Assignment,
   after : Transaction \cup Assignment, move : {None} \cup Nat,
   batch : {None} \cup Nat, source : Source, undone : Nat]

\* The row of an entity of budget sc, given the ids handed out so far.
Kind(sc, e) == IF e \in Legs THEN Transaction ELSE Assignment
Sound(r, sc, top) ==
  /\ r.entity \in sc.envelopes \cup sc.legs
  /\ r.before \in Kind(sc, r.entity) /\ r.after \in Kind(sc, r.entity)
  /\ r.entity \notin Legs => r.action = "update"
  /\ r.entity \in Legs => r.move = None
  /\ r.move # None => r.move \in 1 .. top /\ r.batch # None
  /\ r.batch # None => r.batch \in 1 .. top

\* Rows of one move are neighbours of two envelopes, in one batch; and a
\* batch is all moves or has none.
Twins(L, i, k) ==
  /\ L[i].batch = L[k].batch /\ L[i].entity # L[k].entity
  /\ k = i + 1 \/ i = k + 1
MovesWhole(L) ==
  \A i, k \in 1 .. Len(L) : L[i].move # None /\ L[k].move = L[i].move /\ i # k => Twins(L, i, k)
BatchesPure(L) ==
  \A i, k \in 1 .. Len(L) :
    L[i].batch # None /\ L[k].batch = L[i].batch => (L[i].move = None <=> L[k].move = None)
SyncApart(L, batch) ==
  \A i \in 1 .. Len(L) : batch # None /\ L[i].batch = batch => L[i].entity \in Legs

Tables(sc) == {d \in [sc.envelopes \cup sc.legs -> Transaction \cup Assignment] :
                  \A e \in sc.envelopes \cup sc.legs : d[e] \in Kind(sc, e)}

LogSound ==
  /\ scope \in Scopes
  /\ db \in Tables(scope)
  /\ log \in Seq(LogRecords)
  /\ Len(log) <= scope.rows
  /\ \A i \in Rows : Sound(log[i], scope, batches) /\ log[i].undone <= undoSeq
  /\ MovesWhole(log) /\ BatchesPure(log) /\ SyncApart(log, syncing)
  /\ moves \subseteq 1 .. batches
  /\ undos \in 0 .. MaxUndos /\ undoSeq \in Nat /\ batches \in Nat
  /\ syncing \in {None} \cup 1 .. batches
  /\ raced \in BOOLEAN /\ forced \in BOOLEAN /\ torn \in BOOLEAN

\* What a request holds between its reading and its writing.
Assigning(r) ==
  \E e \in scope.envelopes, was, now \in Int :
    r = [kind |-> "assign", read |-> [x \in {e} |-> was], new |-> [x \in {e} |-> now]]
Moving(r) ==
  \E list \in MoveLists : \E read \in [Touched(list) -> Int] :
    /\ Touched(list) \subseteq scope.envelopes
    /\ r = [kind |-> "move", read |-> read, list |-> list]
UndoingMove(r) ==
  \E m \in 1 .. batches, rows \in SUBSET Rows :
    \E read \in [{log[i].entity : i \in rows} -> Int] :
      /\ r = [kind |-> "undo move", read |-> read, rows |-> rows, move |-> m]
      /\ \A i \in rows : log[i].move = m
      /\ ~raced => \A i \in Rows : log[i].move = m => i \in rows
InFlight == inflight = Idle \/ Assigning(inflight) \/ Moving(inflight) \/ UndoingMove(inflight)

\* A move is listed while its rows are live.
Listed == ~raced => \A i \in Rows : log[i].move # None => (IsLive(i) <=> log[i].move \in moves)

LogKept == LogSound /\ InFlight /\ Listed /\ AssignedIsReplay
-----------------------------------------------------------------------------
(* What the rows of a set of them add up to, for one envelope.              *)

Share(L, e, S, n) == IF n \in S /\ n \in 1..Len(L) /\ L[n].entity = e THEN Gain(L[n]) ELSE 0
Priced(L, e) ==
  Len(L) \in Nat /\ \A n \in 1..Len(L) : L[n].entity = e => Gain(L[n]) \in Int
Summed(L, e, S, f) ==
  f = [n \in 0..Len(L) |->
         IF n = 0 THEN 0
         ELSE f[n - 1] + IF n \in S /\ L[n].entity = e THEN Gain(L[n]) ELSE 0]

(* A total is the last of its partial sums.                                *)
LEMMA WorthUnfolds ==
    ASSUME NEW L, NEW e, NEW S, Priced(L, e)
    PROVE  \E f \in [0..Len(L) -> Int] :
              /\ f[0] = 0 /\ WorthOf(L, e, S) = f[Len(L)]
              /\ \A n \in 1..Len(L) : f[n] = f[n - 1] + Share(L, e, S, n)
<1> DEFINE N == Len(L)
<1> DEFINE step == [p \in (1..N) \X Int |-> p[2] + Share(L, e, S, p[1])]
<1>1. N \in Nat /\ 0 \in Int /\ \A n \in 1..N : Share(L, e, S, n) \in Int BY DEF Share, Priced
<1> HIDE DEF N
<1>2. step \in [(1..N) \X Int -> Int] BY <1>1
<1> HIDE DEF step
<1>3. PICK f \in [0..N -> Int] : Unfolds(f, N, 0, step) BY <1>1, <1>2, RecursionExists
<1>4. f[0] = 0 /\ \A n \in 1..N : f[n] = f[n - 1] + Share(L, e, S, n)
    <2>1. ASSUME NEW n \in 1..N PROVE f[n] = f[n - 1] + Share(L, e, S, n)
        <3>1. n - 1 \in 0..N BY <1>1
        <3>2. f[n - 1] \in Int BY <3>1
        <3>3. step[<<n, f[n - 1]>>] = f[n - 1] + Share(L, e, S, n) BY <3>2 DEF step
        <3> QED BY <3>3, <1>3 DEF Unfolds
    <2> QED BY <2>1, <1>3 DEF Unfolds
<1>5. Summed(L, e, S, f)
    <2>1. \A n \in 1..N : Share(L, e, S, n) = IF n \in S /\ L[n].entity = e THEN Gain(L[n]) ELSE 0
        BY DEF Share, N
    <2>2. \A n \in 0..N : f[n] = IF n = 0 THEN 0
                                 ELSE f[n - 1] + IF n \in S /\ L[n].entity = e THEN Gain(L[n]) ELSE 0
        BY <1>4, <2>1, <1>1
    <2> QED BY <2>2 DEF Summed, N
<1> DEFINE u == CHOOSE g : Summed(L, e, S, g)
<1>6. Summed(L, e, S, u) BY <1>5
<1>7. WorthOf(L, e, S) = u[N] BY DEF WorthOf, Summed, N
<1> HIDE DEF u
<1>8. u[0] = 0 /\ \A n \in 1..N : u[n] = u[n - 1] + Share(L, e, S, n)
    BY <1>6, <1>1 DEF Summed, N, Share
<1>9. \A n \in 0..N : u[n] = f[n]
    <2> DEFINE T == {n \in Nat : n <= N => u[n] = f[n]}
    <2>1. 0 \in T BY <1>4, <1>8
    <2>2. ASSUME NEW n \in Nat, n \in T PROVE n + 1 \in T
        <3>1. SUFFICES ASSUME n + 1 <= N PROVE u[n + 1] = f[n + 1] OBVIOUS
        <3>2. n + 1 \in 1..N /\ (n + 1) - 1 = n BY <3>1
        <3>3. u[n] = f[n] BY <2>2, <3>1, <1>1
        <3> QED BY <3>2, <3>3, <1>4, <1>8
    <2> HIDE DEF T
    <2>3. Nat \subseteq T BY <2>1, <2>2, Induct
    <2> QED BY <2>3 DEF T
<1>10. u[N] = f[N] BY <1>9, <1>1
<1> QED BY <1>4, <1>7, <1>10 DEF N

(* Two logs, the second as long at least, whose rows share alike but for *)
(* one, which shares d more.                                               *)
LEMMA WorthDiffers ==
    ASSUME NEW L, NEW e, NEW S, Priced(L, e), NEW L2, NEW S2, Priced(L2, e), Len(L) <= Len(L2),
           NEW m \in 1..Len(L2), NEW d \in Int,
           Share(L2, e, S2, m) = Share(L, e, S, m) + d,
           \A n \in 1..Len(L2) : n # m => Share(L2, e, S2, n) = Share(L, e, S, n)
    PROVE  WorthOf(L2, e, S2) = WorthOf(L, e, S) + d
<1> DEFINE N == Len(L)
<1> DEFINE M == Len(L2)
<1>1. N \in Nat /\ M \in Nat /\ N <= M BY DEF Priced
<1>2. PICK f \in [0..N -> Int] :
              /\ f[0] = 0 /\ WorthOf(L, e, S) = f[N]
              /\ \A n \in 1..N : f[n] = f[n - 1] + Share(L, e, S, n) BY WorthUnfolds
<1>3. PICK g \in [0..M -> Int] :
              /\ g[0] = 0 /\ WorthOf(L2, e, S2) = g[M]
              /\ \A n \in 1..M : g[n] = g[n - 1] + Share(L2, e, S2, n) BY WorthUnfolds
<1> DEFINE low(n) == IF n <= N THEN f[n] ELSE f[N]
<1> DEFINE T == {n \in Nat : n <= M => g[n] = low(n) + IF m <= n THEN d ELSE 0}
<1>4. \A n \in 1..M : /\ Share(L, e, S, n) \in Int
                      /\ n > N => Share(L, e, S, n) = 0
    BY <1>1 DEF Share, Priced
<1>5. 0 \in T BY <1>1, <1>2, <1>3
<1>6. ASSUME NEW n \in Nat, n \in T PROVE n + 1 \in T
    <2>1. SUFFICES ASSUME n + 1 <= M
                   PROVE  g[n + 1] = low(n + 1) + IF m <= n + 1 THEN d ELSE 0
        OBVIOUS
    <2>2. n + 1 \in 1..M /\ (n + 1) - 1 = n /\ n <= M BY <2>1, <1>1
    <2>3. g[n] = low(n) + IF m <= n THEN d ELSE 0 BY <1>6, <2>2
    <2>4. g[n + 1] = g[n] + Share(L2, e, S2, n + 1) BY <2>2, <1>3
    <2>5. low(n) \in Int BY <1>1
    <2>6. low(n + 1) = low(n) + Share(L, e, S, n + 1)
        <3>1. CASE n + 1 <= N
            <4>1. n + 1 \in 1..N /\ n <= N BY <3>1, <1>1
            <4>2. f[n + 1] = f[n] + Share(L, e, S, n + 1) BY <4>1, <2>2, <1>2
            <4> QED BY <3>1, <4>1, <4>2
        <3>2. CASE ~(n + 1 <= N)
            <4>1. Share(L, e, S, n + 1) = 0 BY <3>2, <1>4, <2>2, <1>1
            <4>2. low(n) = f[N] /\ low(n + 1) = f[N] BY <3>2, <1>1
            <4>3. f[N] \in Int BY <1>1
            <4> QED BY <4>1, <4>2, <4>3
        <3> QED BY <3>1, <3>2
    <2>7. Share(L, e, S, n + 1) \in Int BY <2>2, <1>4
    <2> HIDE DEF low
    <2>8. CASE m = n + 1
        <3>1. Share(L2, e, S2, n + 1) = Share(L, e, S, n + 1) + d BY <2>8
        <3>2. ~(m <= n) BY <2>8
        <3> QED BY <3>1, <3>2, <2>3, <2>4, <2>5, <2>6, <2>7, <2>8
    <2>9. CASE m # n + 1
        <3>1. Share(L2, e, S2, n + 1) = Share(L, e, S, n + 1) BY <2>9, <2>2
        <3>2. (m <= n) = (m <= n + 1) BY <2>9
        <3> QED BY <3>1, <3>2, <2>3, <2>4, <2>5, <2>6, <2>7
    <2> QED BY <2>8, <2>9
<1> HIDE DEF T
<1>7. Nat \subseteq T BY <1>5, <1>6, Induct
<1>8. g[M] = low(M) + d BY <1>7, <1>1 DEF T
<1>9. low(M) = f[N]
    <2>1. CASE M = N BY <2>1
    <2>2. CASE M # N BY <2>2, <1>1
    <2> QED BY <2>1, <2>2
<1> QED BY <1>2, <1>3, <1>8, <1>9

(* Rows that share alike have one total.                                   *)
LEMMA WorthSame ==
    ASSUME NEW L, NEW e, NEW S, Priced(L, e), NEW L2, NEW S2, Priced(L2, e), Len(L) <= Len(L2),
           \A n \in 1..Len(L2) : Share(L2, e, S2, n) = Share(L, e, S, n)
    PROVE  WorthOf(L2, e, S2) = WorthOf(L, e, S)
<1>1. CASE Len(L2) = 0
    <2>1. Len(L) = 0 BY <1>1 DEF Priced
    <2> QED BY <1>1, <2>1, WorthUnfolds
<1>2. CASE Len(L2) # 0
    <2>1. 1 \in 1..Len(L2) BY <1>2 DEF Priced
    <2>2. Share(L, e, S, 1) \in Int BY DEF Share, Priced
    <2>3. Share(L2, e, S2, 1) = Share(L, e, S, 1) + 0 BY <2>1, <2>2
    <2>4. WorthOf(L2, e, S2) = WorthOf(L, e, S) + 0 BY <2>1, <2>3, WorthDiffers
    <2>5. WorthOf(L, e, S) \in Int BY WorthUnfolds DEF Priced
    <2> QED BY <2>4, <2>5
<1> QED BY <1>1, <1>2

-----------------------------------------------------------------------------
(* One recorded change, taken back or replayed.                            *)

(* A figure written back is the recorded one.                              *)
LEMMA WrittenFigure ==
    ASSUME NEW x \in Assignment, NEW side \in Assignment
    PROVE  WrittenBack(x, side) = side /\ "live" \notin DOMAIN x /\ Skip(x) = {}
<1>1. DOMAIN x = {"assigned"} /\ DOMAIN side = {"assigned"} BY DEF Assignment
<1>2. Skip(x) = {} BY <1>1 DEF Skip
<1>3. WrittenBack(x, side) = [f \in {"assigned"} |-> side[f]] BY <1>1, <1>2 DEF WrittenBack
<1>4. side = [f \in {"assigned"} |-> side[f]] BY <1>1 DEF Assignment
<1> QED BY <1>1, <1>2, <1>3, <1>4

(* A bank row written back is a bank row.                                  *)
LEMMA WrittenRow ==
    ASSUME NEW x \in Transaction, NEW side \in Transaction
    PROVE  WrittenBack(x, side) \in Transaction
<1> DEFINE fields == {"live", "amount", "cleared", "memo", "linked"}
<1> DEFINE y == WrittenBack(x, side)
<1>1. DOMAIN x = fields BY DEF Transaction
<1>2. \A f \in fields : y[f] \in {x[f], side[f]} BY <1>1 DEF WrittenBack
<1>3. y = [f \in fields |-> y[f]] BY <1>1 DEF WrittenBack
<1> HIDE DEF y
<1>4. y = [live |-> y.live, amount |-> y.amount, cleared |-> y.cleared, memo |-> y.memo,
           linked |-> y.linked]
    BY <1>3
<1>5. y.live \in BOOLEAN /\ y.amount \in {1, 2} /\ y.cleared \in {"uncleared", "cleared", "reconciled"}
      /\ y.memo \in {0, 1} /\ y.linked \in BOOLEAN
    BY <1>2 DEF Transaction
<1> QED BY <1>4, <1>5 DEF Transaction, y

(* A log row in a sound state.                                             *)
LEMMA RowIs ==
    ASSUME LogSound, NEW i \in Rows
    PROVE  /\ Len(log) \in Nat /\ i \in 1 .. Len(log) /\ i \in Int
           /\ log[i] \in LogRecords /\ log[i].entity \in Entities
           /\ Sound(log[i], scope, batches)
           /\ log[i].before \in Kind(scope, log[i].entity)
           /\ log[i].after \in Kind(scope, log[i].entity)
<1>1. log \in Seq(LogRecords) BY DEF LogSound
<1>2. Len(log) \in Nat /\ i \in 1 .. Len(log) BY <1>1 DEF Rows
<1>3. log[i] \in LogRecords BY <1>1, <1>2
<1>4. Sound(log[i], scope, batches) BY DEF LogSound
<1> QED BY <1>2, <1>3, <1>4 DEF Sound, Entities

(* Taking a change back touches the row it is about, and an envelope gets  *)
(* the figure it had before.                                               *)
LEMMA UndoneIs ==
    ASSUME LogSound, NEW i \in Rows, NEW d \in Tables(scope)
    PROVE  /\ Undone(i, d) \in Tables(scope)
           /\ \A k \in Entities : k # log[i].entity => Undone(i, d)[k] = d[k]
           /\ log[i].entity \notin Legs => Undone(i, d)[log[i].entity] = log[i].before
<1> DEFINE e == log[i].entity
<1> DEFINE r == log[i]
<1>1. /\ e \in Entities /\ r.before \in Kind(scope, e) /\ r.action \in Actions
      /\ e \notin Legs => r.action = "update"
    BY RowIs DEF Sound, LogRecords
<1>2. d[e] \in Kind(scope, e) /\ e \in DOMAIN d BY <1>1 DEF Tables, Entities
<1>3. ASSUME NEW x \in Kind(scope, e), Undone(i, d) = [d EXCEPT ![e] = x]
      PROVE  /\ Undone(i, d) \in Tables(scope)
             /\ \A k \in Entities : k # e => Undone(i, d)[k] = d[k]
             /\ Undone(i, d)[e] = x
    <2> DEFINE g == Undone(i, d)
    <2>1. e \in Entities /\ x \in Kind(scope, e) /\ g = [d EXCEPT ![e] = x] BY <1>1, <1>3
    <2>2. d \in [Entities -> Transaction \cup Assignment] /\ \A k \in Entities : d[k] \in Kind(scope, k)
        BY DEF Tables, Entities
    <2> HIDE DEF e, g
    <2>3. x \in Transaction \cup Assignment BY <2>1 DEF Kind
    <2>4. g \in [Entities -> Transaction \cup Assignment] BY <2>1, <2>2, <2>3
    <2>5. \A k \in Entities : g[k] = IF k = e THEN x ELSE d[k] BY <2>1, <2>2
    <2>6. \A k \in Entities : g[k] \in Kind(scope, k) BY <2>1, <2>2, <2>5
    <2>7. g \in Tables(scope) BY <2>4, <2>6 DEF Tables, Entities
    <2> QED BY <2>1, <2>5, <2>7 DEF g
<1>4. CASE e \notin Legs
    <2>1. Undone(i, d) = [d EXCEPT ![e] = WrittenBack(d[e], r.before)] BY <1>1, <1>4 DEF Undone
    <2>2. WrittenBack(d[e], r.before) = r.before BY <1>1, <1>2, <1>4, WrittenFigure DEF Kind
    <2> QED BY <2>1, <2>2, <1>1, <1>3
<1>5. CASE e \in Legs
    <2>1. d[e] \in Transaction /\ r.before \in Transaction BY <1>1, <1>2, <1>5 DEF Kind
    <2>2. CASE r.action = "update"
        <3>1. Undone(i, d) = [d EXCEPT ![e] = WrittenBack(d[e], r.before)] BY <2>2 DEF Undone
        <3>2. WrittenBack(d[e], r.before) \in Kind(scope, e) BY <2>1, <1>5, WrittenRow DEF Kind
        <3> QED BY <3>1, <3>2, <1>3, <1>5
    <2>3. CASE r.action = "import"
        <3>1. Undone(i, d) = [d EXCEPT ![e] = [d[e] EXCEPT !.live = FALSE]] BY <2>3 DEF Undone
        <3>2. [d[e] EXCEPT !.live = FALSE] \in Kind(scope, e) BY <2>1, <1>5 DEF Kind, Transaction
        <3> QED BY <3>1, <3>2, <1>3, <1>5
    <2>4. CASE r.action = "delete"
        <3>1. Undone(i, d) = [d EXCEPT ![e] = [r.before EXCEPT !.live = TRUE]] BY <2>4 DEF Undone
        <3>2. [r.before EXCEPT !.live = TRUE] \in Kind(scope, e) BY <2>1, <1>5 DEF Kind, Transaction
        <3> QED BY <3>1, <3>2, <1>3, <1>5
    <2>5. CASE r.action = "reconcile" /\ Reconciled(d[e])
        <3>1. Undone(i, d) = [d EXCEPT ![e] = [d[e] EXCEPT !.cleared = "cleared"]] BY <2>5 DEF Undone
        <3>2. [d[e] EXCEPT !.cleared = "cleared"] \in Kind(scope, e) BY <2>1, <1>5 DEF Kind, Transaction
        <3> QED BY <3>1, <3>2, <1>3, <1>5
    <2>6. CASE r.action = "reconcile" /\ ~Reconciled(d[e])
        <3>1. Undone(i, d) = d BY <2>6 DEF Undone
        <3> QED BY <3>1, <1>5
    <2> QED BY <2>2, <2>3, <2>4, <2>5, <2>6, <1>1 DEF Actions
<1> QED BY <1>4, <1>5

(* So does replaying one, and an envelope gets the figure it got.          *)
LEMMA RedoneIs ==
    ASSUME LogSound, NEW i \in Rows, NEW d \in Tables(scope)
    PROVE  /\ Redone(i, d) \in Tables(scope)
           /\ \A k \in Entities : k # log[i].entity => Redone(i, d)[k] = d[k]
           /\ log[i].entity \notin Legs => Redone(i, d)[log[i].entity] = log[i].after
<1> DEFINE e == log[i].entity
<1> DEFINE r == log[i]
<1>1. /\ e \in Entities /\ r.after \in Kind(scope, e) /\ r.action \in Actions
      /\ e \notin Legs => r.action = "update"
    BY RowIs DEF Sound, LogRecords
<1>2. d[e] \in Kind(scope, e) /\ e \in DOMAIN d BY <1>1 DEF Tables, Entities
<1>3. ASSUME NEW x \in Kind(scope, e), Redone(i, d) = [d EXCEPT ![e] = x]
      PROVE  /\ Redone(i, d) \in Tables(scope)
             /\ \A k \in Entities : k # e => Redone(i, d)[k] = d[k]
             /\ Redone(i, d)[e] = x
    <2> DEFINE g == Redone(i, d)
    <2>1. e \in Entities /\ x \in Kind(scope, e) /\ g = [d EXCEPT ![e] = x] BY <1>1, <1>3
    <2>2. d \in [Entities -> Transaction \cup Assignment] /\ \A k \in Entities : d[k] \in Kind(scope, k)
        BY DEF Tables, Entities
    <2> HIDE DEF e, g
    <2>3. x \in Transaction \cup Assignment BY <2>1 DEF Kind
    <2>4. g \in [Entities -> Transaction \cup Assignment] BY <2>1, <2>2, <2>3
    <2>5. \A k \in Entities : g[k] = IF k = e THEN x ELSE d[k] BY <2>1, <2>2
    <2>6. \A k \in Entities : g[k] \in Kind(scope, k) BY <2>1, <2>2, <2>5
    <2>7. g \in Tables(scope) BY <2>4, <2>6 DEF Tables, Entities
    <2> QED BY <2>1, <2>5, <2>7 DEF g
<1>4. CASE e \notin Legs
    <2>1. Redone(i, d) = [d EXCEPT ![e] = WrittenBack(d[e], r.after)] BY <1>1, <1>4 DEF Redone
    <2>2. WrittenBack(d[e], r.after) = r.after BY <1>1, <1>2, <1>4, WrittenFigure DEF Kind
    <2> QED BY <2>1, <2>2, <1>1, <1>3
<1>5. CASE e \in Legs
    <2>1. d[e] \in Transaction /\ r.after \in Transaction BY <1>1, <1>2, <1>5 DEF Kind
    <2>2. CASE r.action = "update"
        <3>1. Redone(i, d) = [d EXCEPT ![e] = WrittenBack(d[e], r.after)] BY <2>2 DEF Redone
        <3>2. WrittenBack(d[e], r.after) \in Kind(scope, e) BY <2>1, <1>5, WrittenRow DEF Kind
        <3> QED BY <3>1, <3>2, <1>3, <1>5
    <2>3. CASE r.action = "import"
        <3>1. Redone(i, d) = [d EXCEPT ![e] = [d[e] EXCEPT !.live = TRUE]] BY <2>3 DEF Redone
        <3>2. [d[e] EXCEPT !.live = TRUE] \in Kind(scope, e) BY <2>1, <1>5 DEF Kind, Transaction
        <3> QED BY <3>1, <3>2, <1>3, <1>5
    <2>4. CASE r.action = "delete"
        <3>1. Redone(i, d) = [d EXCEPT ![e] = [d[e] EXCEPT !.live = FALSE]] BY <2>4 DEF Redone
        <3>2. [d[e] EXCEPT !.live = FALSE] \in Kind(scope, e) BY <2>1, <1>5 DEF Kind, Transaction
        <3> QED BY <3>1, <3>2, <1>3, <1>5
    <2>5. CASE r.action = "reconcile" /\ d[e].cleared = "cleared"
        <3>1. Redone(i, d) = [d EXCEPT ![e] = [d[e] EXCEPT !.cleared = "reconciled"]]
            BY <2>5 DEF Redone
        <3>2. [d[e] EXCEPT !.cleared = "reconciled"] \in Kind(scope, e)
            BY <2>1, <1>5 DEF Kind, Transaction
        <3> QED BY <3>1, <3>2, <1>3, <1>5
    <2>6. CASE r.action = "reconcile" /\ d[e].cleared # "cleared"
        <3>1. Redone(i, d) = d BY <2>6 DEF Redone
        <3> QED BY <3>1, <1>5
    <2> QED BY <2>2, <2>3, <2>4, <2>5, <2>6, <1>1 DEF Actions
<1> QED BY <1>4, <1>5

-----------------------------------------------------------------------------
(* A pass over the log, a row at a time.                                   *)

Passed == [db : Tables(scope), took : SUBSET Rows]
Begun == [db |-> db, took |-> {}]
After(S, pass, n, was) ==
  LET i == Len(log) + 1 - n IN
  IF i \in S /\ Takes(pass, i, was.db, was.took)
    THEN [db |-> Undone(i, was.db), took |-> was.took \cup {i}]
    ELSE was
Swept(S, pass, f) ==
  f = [n \in 0 .. Len(log) |-> IF n = 0 THEN Begun ELSE After(S, pass, n, f[n - 1])]

(* A pass ends with what it has after the last row.                        *)
LEMMA SweepUnfolds ==
    ASSUME LogSound, NEW S \in SUBSET Rows, NEW pass
    PROVE  \E past \in [0 .. Len(log) -> Passed] :
              /\ past[0] = Begun /\ Sweep(S, pass) = past[Len(log)]
              /\ \A n \in 1 .. Len(log) : past[n] = After(S, pass, n, past[n - 1])
<1> DEFINE N == Len(log)
<1> DEFINE V == Passed
<1> DEFINE step == [p \in (1..N) \X V |-> After(S, pass, p[1], p[2])]
<1>1. N \in Nat BY DEF LogSound
<1>2. Begun \in V BY DEF LogSound, Begun, Passed
<1>3. ASSUME NEW n \in 1..N, NEW was \in V PROVE After(S, pass, n, was) \in V
    <2> DEFINE i == N + 1 - n
    <2>1. i \in Rows BY <1>1 DEF Rows
    <2>2. was.db \in Tables(scope) /\ was.took \in SUBSET Rows BY DEF Passed
    <2>3. Undone(i, was.db) \in Tables(scope) BY <2>1, <2>2, UndoneIs
    <2>4. [db |-> Undone(i, was.db), took |-> was.took \cup {i}] \in V
        BY <2>1, <2>2, <2>3 DEF Passed
    <2> HIDE DEF V
    <2> QED BY <2>4 DEF After
<1> HIDE DEF N, V
<1>4. step \in [(1..N) \X V -> V] BY <1>3
<1> HIDE DEF step
<1>5. PICK f \in [0..N -> V] : Unfolds(f, N, Begun, step) BY <1>1, <1>2, <1>4, RecursionExists
<1>6. f[0] = Begun /\ \A n \in 1..N : f[n] = After(S, pass, n, f[n - 1])
    <2>1. ASSUME NEW n \in 1..N PROVE f[n] = After(S, pass, n, f[n - 1])
        <3>1. n - 1 \in 0..N BY <1>1
        <3>2. f[n - 1] \in V BY <3>1
        <3>3. step[<<n, f[n - 1]>>] = After(S, pass, n, f[n - 1]) BY <3>2 DEF step
        <3> QED BY <3>3, <1>5 DEF Unfolds
    <2> QED BY <2>1, <1>5 DEF Unfolds
<1>7. Swept(S, pass, f)
    <2>1. \A n \in 0..N : f[n] = IF n = 0 THEN Begun ELSE After(S, pass, n, f[n - 1])
        BY <1>6, <1>1
    <2> QED BY <2>1 DEF Swept, N
<1> DEFINE u == CHOOSE g : Swept(S, pass, g)
<1>8. Swept(S, pass, u) BY <1>7
<1>9. Sweep(S, pass) = u[N] BY DEF Sweep, Swept, Begun, After, N
<1> HIDE DEF u
<1>10. u[0] = Begun /\ \A n \in 1..N : u[n] = After(S, pass, n, u[n - 1])
    BY <1>8, <1>1 DEF Swept, N
<1>11. \A n \in 0..N : u[n] = f[n]
    <2> DEFINE T == {n \in Nat : n <= N => u[n] = f[n]}
    <2>1. 0 \in T BY <1>6, <1>10
    <2>2. ASSUME NEW n \in Nat, n \in T PROVE n + 1 \in T
        <3>1. SUFFICES ASSUME n + 1 <= N PROVE u[n + 1] = f[n + 1] OBVIOUS
        <3>2. n + 1 \in 1..N /\ (n + 1) - 1 = n BY <3>1
        <3>3. u[n] = f[n] BY <2>2, <3>1, <1>1
        <3> QED BY <3>2, <3>3, <1>6, <1>10
    <2> HIDE DEF T
    <2>3. Nat \subseteq T BY <2>1, <2>2, Induct
    <2> QED BY <2>3 DEF T
<1>12. u[N] = f[N] BY <1>11, <1>1
<1> QED BY <1>6, <1>9, <1>12 DEF N, V

(* A row that leaves the set takes its share with it.                      *)
LEMMA WorthDrop ==
    ASSUME NEW L, NEW e, NEW S, Priced(L, e), NEW i \in 1..Len(L), i \in S
    PROVE  WorthOf(L, e, S \ {i}) = WorthOf(L, e, S) - (IF L[i].entity = e THEN Gain(L[i]) ELSE 0)
<1> DEFINE c == IF L[i].entity = e THEN Gain(L[i]) ELSE 0
<1> DEFINE R == S \ {i}
<1>1. c \in Int BY DEF Priced
<1>2. Share(L, e, S, i) = Share(L, e, R, i) + c BY <1>1 DEF Share
<1>3. \A n \in 1..Len(L) : n # i => Share(L, e, S, n) = Share(L, e, R, n) BY DEF Share
<1>4. Len(L) <= Len(L) BY DEF Priced
<1>5. WorthOf(L, e, R) \in Int BY WorthUnfolds DEF Priced
<1> HIDE DEF c, R
<1>6. WorthOf(L, e, S) = WorthOf(L, e, R) + c BY <1>1, <1>2, <1>3, <1>4, WorthDiffers
<1>7. WorthOf(L, e, R) = WorthOf(L, e, S) - c BY <1>1, <1>5, <1>6
<1> QED BY <1>7 DEF c, R

LEMMA PricedLog ==
    ASSUME LogSound, NEW e \in scope.envelopes PROVE Priced(log, e) /\ e \notin Legs
<1>1. scope \in Scopes BY DEF LogSound
<1>2. e \notin Legs BY <1>1, ScopesAssumption
<1>3. Len(log) \in Nat BY DEF LogSound
<1>4. ASSUME NEW n \in 1..Len(log), log[n].entity = e PROVE Gain(log[n]) \in Int
    <2>1. n \in Rows BY DEF Rows
    <2>2. log[n].before \in Assignment /\ log[n].after \in Assignment
        BY <2>1, <1>2, <1>4, RowIs DEF Kind
    <2> QED BY <2>2 DEF Gain, Assignment
<1> QED BY <1>2, <1>3, <1>4 DEF Priced

(* A row that is not stale finds the figure it left.                       *)
LEMMA FreshFigure ==
    ASSUME LogSound, NEW i \in Rows, NEW d \in Tables(scope), log[i].entity \notin Legs
    PROVE  /\ UndoFresh(i, d) => d[log[i].entity].assigned = log[i].after.assigned
           /\ RedoFresh(i, d) => d[log[i].entity].assigned = log[i].before.assigned
           /\ log[i].before.assigned \in Int /\ log[i].after.assigned \in Int
<1> DEFINE e == log[i].entity
<1>1. e \in Entities /\ log[i].before \in Assignment /\ log[i].after \in Assignment
      /\ log[i].action = "update"
    BY RowIs DEF Kind, Sound
<1>2. d[e] \in Assignment BY <1>1 DEF Tables, Entities, Kind
<1>3. DOMAIN d[e] = {"assigned"} /\ Skip(d[e]) = {}
    BY <1>1, <1>2, WrittenFigure DEF Assignment
<1>4. "assigned" \in (DOMAIN d[e] \ {"live"}) \ Skip(d[e]) BY <1>3
<1>5. UndoFresh(i, d) => SameFields(d[e], log[i].after, Skip(d[e])) BY <1>1 DEF UndoFresh
<1>6. RedoFresh(i, d) => SameFields(d[e], log[i].before, Skip(d[e])) BY <1>1 DEF RedoFresh
<1>7. UndoFresh(i, d) => d[e]["assigned"] = log[i].after["assigned"]
    BY <1>4, <1>5 DEF SameFields
<1>8. RedoFresh(i, d) => d[e]["assigned"] = log[i].before["assigned"]
    BY <1>4, <1>6 DEF SameFields
<1> QED BY <1>1, <1>7, <1>8 DEF Assignment

(* The stages of a pass.                                                   *)
Stages(S, pass, past) ==
  /\ past \in [0 .. Len(log) -> Passed]
  /\ past[0] = Begun
  /\ \A n \in 1 .. Len(log) : past[n] = After(S, pass, n, past[n - 1])

(* A row is judged once, and what was taken stays taken.                   *)
LEMMA StageTook ==
    ASSUME LogSound, NEW S \in SUBSET Rows, NEW pass, NEW past, Stages(S, pass, past),
           NEW n \in 0 .. Len(log)
    PROVE  /\ \A k : k \in past[n].took <=> k \in past[Len(log)].took /\ k > Len(log) - n
           /\ past[n].took \subseteq S
<1> DEFINE N == Len(log)
<1>1. N \in Nat BY DEF LogSound
<1>3. ASSUME NEW m \in 1..N
      PROVE  /\ past[m - 1].took \subseteq past[m].took
             /\ past[m].took \subseteq past[m - 1].took \cup ({N + 1 - m} \cap S)
    <2>1. past[m] = After(S, pass, m, past[m - 1]) BY DEF Stages
    <2> QED BY <2>1 DEF After
<1> DEFINE T == {m \in Nat : m <= N => past[m].took \subseteq {i \in S : i > N - m}}
<1>4. 0 \in T BY DEF Stages, Begun
<1>5. ASSUME NEW m \in Nat, m \in T PROVE m + 1 \in T
    <2>1. SUFFICES ASSUME m + 1 <= N
                   PROVE  past[m + 1].took \subseteq {i \in S : i > N - (m + 1)}
        OBVIOUS
    <2>2. m + 1 \in 1..N /\ (m + 1) - 1 = m /\ m <= N BY <2>1, <1>1
    <2>3. past[m].took \subseteq {i \in S : i > N - m} BY <1>5, <2>2
    <2>4. past[m + 1].took \subseteq past[m].took \cup ({N + 1 - (m + 1)} \cap S) BY <2>2, <1>3
    <2>5. S \subseteq Int BY <1>1 DEF Rows
    <2>6. ASSUME NEW i \in S, i > N - m PROVE i > N - (m + 1) BY <2>5, <2>6, <1>1
    <2>7. N + 1 - (m + 1) > N - (m + 1) BY <1>1
    <2> QED BY <2>3, <2>4, <2>6, <2>7
<1> HIDE DEF T
<1>6. Nat \subseteq T BY <1>4, <1>5, Induct
<1> DEFINE U == {k \in Nat : n + k <= N => {i \in past[n + k].took : i > N - n} = past[n].took}
<1>7. 0 \in U
    <2>1. n \in Nat /\ n <= N /\ n + 0 = n BY <1>1
    <2>2. past[n].took \subseteq {i \in S : i > N - n} BY <2>1, <1>6 DEF T
    <2> QED BY <2>1, <2>2
<1>8. ASSUME NEW k \in Nat, k \in U PROVE k + 1 \in U
    <2>1. SUFFICES ASSUME n + (k + 1) <= N
                   PROVE  {i \in past[n + (k + 1)].took : i > N - n} = past[n].took
        OBVIOUS
    <2>2. n + (k + 1) \in 1..N /\ (n + (k + 1)) - 1 = n + k /\ n + k <= N BY <2>1, <1>1
    <2>3. {i \in past[n + k].took : i > N - n} = past[n].took BY <1>8, <2>2
    <2>4. /\ past[n + k].took \subseteq past[n + (k + 1)].took
          /\ past[n + (k + 1)].took \subseteq past[n + k].took \cup {N + 1 - (n + (k + 1))}
        BY <2>2, <1>3
    <2>5. ~(N + 1 - (n + (k + 1)) > N - n) BY <1>1
    <2> QED BY <2>3, <2>4, <2>5
<1> HIDE DEF U
<1>9. Nat \subseteq U BY <1>7, <1>8, Induct
<1>10. N - n \in Nat /\ n + (N - n) = N /\ n \in Nat /\ n <= N BY <1>1
<1>11. {i \in past[N].took : i > N - n} = past[n].took BY <1>9, <1>10 DEF U
<1>12. past[n].took \subseteq S BY <1>6, <1>10 DEF T
<1> QED BY <1>11, <1>12

(* Two passes that take all of S leave the same rows behind.               *)
LEMMA SweepAgree ==
    ASSUME LogSound, NEW S \in SUBSET Rows, NEW p, NEW q,
           Sweep(S, p).took = S, Sweep(S, q).took = S
    PROVE  Sweep(S, p).db = Sweep(S, q).db
<1> DEFINE N == Len(log)
<1>1. N \in Nat BY DEF LogSound
<1>2. PICK f : Stages(S, p, f) /\ Sweep(S, p) = f[N] BY SweepUnfolds DEF Stages
<1>3. PICK g : Stages(S, q, g) /\ Sweep(S, q) = g[N] BY SweepUnfolds DEF Stages
<1>9. f[N].took = S /\ g[N].took = S BY <1>2, <1>3
<1> DEFINE T == {n \in Nat : n <= N => f[n].db = g[n].db}
<1>4. 0 \in T BY <1>2, <1>3 DEF Stages
<1>5. ASSUME NEW n \in Nat, n \in T PROVE n + 1 \in T
    <2>1. SUFFICES ASSUME n + 1 <= N PROVE f[n + 1].db = g[n + 1].db OBVIOUS
    <2> DEFINE i == N + 1 - (n + 1)
    <2>2. n + 1 \in 1..N /\ (n + 1) - 1 = n /\ n + 1 \in 0..N /\ n \in 0..N BY <2>1, <1>1
    <2>3. f[n].db = g[n].db BY <1>5, <2>1, <1>1
    <2>4. /\ i \in f[n].took => i > N - n
          /\ i \in g[n].took => i > N - n
          /\ i \in S /\ i > N - (n + 1) => i \in f[n + 1].took /\ i \in g[n + 1].took
        BY <1>2, <1>3, <1>9, <2>2, StageTook
    <2>5. i > N - (n + 1) /\ ~(i > N - n) BY <1>1
    <2>6. /\ f[n + 1] = After(S, p, n + 1, f[n])
          /\ g[n + 1] = After(S, q, n + 1, g[n])
        BY <1>2, <1>3, <2>2 DEF Stages
    <2> HIDE DEF i
    <2>7. CASE i \in S
        <3>1. i \in f[n + 1].took /\ i \notin f[n].took /\ i \in g[n + 1].took /\ i \notin g[n].took
            BY <2>4, <2>5, <2>7
        <3>2. f[n + 1] # f[n] /\ g[n + 1] # g[n] BY <3>1
        <3>3. f[n + 1].db = Undone(i, f[n].db) /\ g[n + 1].db = Undone(i, g[n].db)
            BY <2>6, <3>2 DEF After, i
        <3> QED BY <3>3, <2>3
    <2>8. CASE i \notin S
        <3>1. f[n + 1] = f[n] /\ g[n + 1] = g[n] BY <2>6, <2>8 DEF After, i
        <3> QED BY <3>1, <2>3
    <2> QED BY <2>7, <2>8
<1> HIDE DEF T
<1>6. Nat \subseteq T BY <1>4, <1>5, Induct
<1>7. f[N].db = g[N].db BY <1>6, <1>1 DEF T
<1> QED BY <1>2, <1>3, <1>7

\* The row a stage is about.
RowAt(n) == Len(log) + 1 - n

(* What a stage of a pass does with its row.                               *)
LEMMA StageIs ==
    ASSUME LogSound, NEW S \in SUBSET Rows, NEW pass, NEW past, Stages(S, pass, past),
           NEW n \in 1 .. Len(log)
    PROVE  /\ RowAt(n) \in Rows /\ n - 1 \in 0 .. Len(log)
           /\ past[n - 1].db \in Tables(scope) /\ past[n].db \in Tables(scope)
           /\ RowAt(n) \notin past[n - 1].took
           /\ RowAt(n) \in past[n].took =>
                /\ RowAt(n) \in S /\ Takes(pass, RowAt(n), past[n - 1].db, past[n - 1].took)
                /\ past[n].db = Undone(RowAt(n), past[n - 1].db)
                /\ past[n].took = past[n - 1].took \cup {RowAt(n)}
           /\ RowAt(n) \notin past[n].took => past[n] = past[n - 1]
           /\ RowAt(n) \in past[Len(log)].took <=> RowAt(n) \in past[n].took
<1> DEFINE N == Len(log)
<1> DEFINE i == RowAt(n)
<1>1. N \in Nat BY DEF LogSound
<1>2. i \in Rows /\ n - 1 \in 0..N /\ n \in 0..N BY <1>1 DEF Rows, RowAt
<1>3. past[n - 1] \in Passed /\ past[n] \in Passed BY <1>2 DEF Stages
<1>4. past[n] = After(S, pass, n, past[n - 1]) BY DEF Stages
<1>5. /\ i \in past[n - 1].took => i > N - (n - 1)
      /\ i \in past[n].took <=> i \in past[N].took /\ i > N - n
    BY <1>2, StageTook
<1>6. ~(i > N - (n - 1)) /\ i > N - n BY <1>1 DEF RowAt
<1>7. i \notin past[n - 1].took /\ (i \in past[N].took <=> i \in past[n].took) BY <1>5, <1>6
<1>8. i \in past[n].took => past[n] # past[n - 1] BY <1>7
<1> QED BY <1>2, <1>3, <1>4, <1>7, <1>8 DEF After, Passed, RowAt

(* The greatest of some rows.                                              *)
LEMMA NewestIs ==
    ASSUME LogSound, NEW G \in SUBSET Rows, G # {}
    PROVE  Newest(G) \in G /\ \A k \in G : k <= Newest(G)
<1>1. Len(log) \in Nat BY DEF LogSound
<1>2. IsFiniteSet(Rows) /\ Rows \subseteq Int BY <1>1, FS_Interval DEF Rows
<1>3. IsFiniteSet(G) /\ G \in SUBSET Int BY <1>2, FS_Subset
<1>4. \E x \in G : \A k \in G : k <= x BY <1>3, GreatestLeast
<1> QED BY <1>4 DEF Newest

(* Staleness looks at the row the change is about.                         *)
LEMMA FreshLooks ==
    ASSUME NEW i, NEW d, NEW c, d[log[i].entity] = c[log[i].entity], UndoFresh(i, d)
    PROVE  UndoFresh(i, c)
BY DEF UndoFresh

(* A pass that looks for stale rows takes none of them. A move is judged   *)
(* before its first row is taken back, and its other row is next.          *)
LEMMA JudgedFresh ==
    ASSUME LogSound, NEW S \in SUBSET Live, NEW pass \in {"fresh", "moves"},
           pass = "moves" => \A i \in S : log[i].move # None,
           NEW past, Stages(S, pass, past),
           NEW n \in 1 .. Len(log), RowAt(n) \in past[n].took
    PROVE  UndoFresh(RowAt(n), past[n - 1].db)
<1> DEFINE i == RowAt(n)
<1> DEFINE N == Len(log)
<1>1. N \in Nat /\ MovesWhole(log) BY DEF LogSound
<1>2. S \in SUBSET Rows BY DEF Live, Visible
<1>3. i \in S /\ i \in Rows /\ Takes(pass, i, past[n - 1].db, past[n - 1].took)
    BY <1>2, StageIs
<1>6. \A m \in 1..N : RowAt(m) \in past[m].took =>
        /\ Takes(pass, RowAt(m), past[m - 1].db, past[m - 1].took)
        /\ past[m].db = Undone(RowAt(m), past[m - 1].db)
        /\ past[m - 1].db \in Tables(scope)
    <2>1. ASSUME NEW m \in 1..N, RowAt(m) \in past[m].took
          PROVE  past[m].db = Undone(RowAt(m), past[m - 1].db)
        <3>1. past[m] = After(S, pass, m, past[m - 1]) BY DEF Stages
        <3>2. RowAt(m) \notin past[m - 1].took BY <1>2, StageIs
        <3>3. past[m] # past[m - 1] BY <2>1, <3>2
        <3> QED BY <3>1, <3>3 DEF After, RowAt
    <2>2. ASSUME NEW m \in 1..N, RowAt(m) \in past[m].took
          PROVE  Takes(pass, RowAt(m), past[m - 1].db, past[m - 1].took)
        BY <1>2, <2>2, StageIs
    <2>3. ASSUME NEW m \in 1..N, RowAt(m) \in past[m].took
          PROVE  past[m - 1].db \in Tables(scope)
        BY <1>2, <2>3, StageIs
    <2> QED BY <2>1, <2>2, <2>3
<1> HIDE DEF i
<1>4. CASE pass = "fresh" BY <1>3, <1>4 DEF Takes, TakeFresh, i
<1>5. CASE pass = "moves"
    <2> DEFINE group == {k \in MoveRows(log[i].move) : IsLive(k)}
    <2>1. TakeMove(i, past[n - 1].db, past[n - 1].took) BY <1>3, <1>5 DEF Takes
    <2>2. i \in group /\ group \in SUBSET Rows BY <1>3 DEF MoveRows, Live, Visible
    <2>3. Newest(group) \in group /\ \A k \in group : k <= Newest(group)
        BY <2>2, NewestIs
    <2>4. CASE i = Newest(group) BY <2>1, <2>2, <2>4 DEF TakeMove, i
    <2>5. CASE i # Newest(group)
        <3> DEFINE j == Newest(group)
        <3>1. j \in past[n - 1].took BY <2>1, <2>5 DEF TakeMove
        <3>2. j \in Rows /\ log[j].move = log[i].move /\ log[i].move # None /\ i <= j /\ i # j
            BY <2>2, <2>3, <2>5, <1>3, <1>5 DEF MoveRows, Visible
        <3>3. Twins(log, i, j) BY <3>2, <1>1, <1>3 DEF MovesWhole, Rows
        <3>4. j = i + 1 /\ log[i].entity # log[j].entity
            BY <3>2, <3>3, <1>3, <1>1 DEF Twins, Rows
        <3> DEFINE m == n - 1
        <3>5. m \in 1..N /\ j = RowAt(m) BY <3>2, <3>4, <1>1 DEF Rows, RowAt, i
        <3> HIDE DEF j, m
        <3>14. RowAt(m) \in past[m].took BY <3>1, <3>5 DEF m
        <3>6. /\ Takes(pass, j, past[m - 1].db, past[m - 1].took)
              /\ past[m].db = Undone(j, past[m - 1].db) /\ past[m - 1].db \in Tables(scope)
            <4>1. /\ Takes(pass, RowAt(m), past[m - 1].db, past[m - 1].took)
                  /\ past[m].db = Undone(RowAt(m), past[m - 1].db)
                  /\ past[m - 1].db \in Tables(scope)
                BY <3>14, <3>5, <1>6
            <4> QED BY <4>1, <3>5
        <3>7. TakeMove(j, past[m - 1].db, past[m - 1].took) BY <3>6, <1>5 DEF Takes
        <3>8. group = {k \in MoveRows(log[j].move) : IsLive(k)} BY <3>2
        <3>9. j = Newest(group) BY DEF j
        <3>10. \A k \in group : UndoFresh(k, past[m - 1].db)
            BY <3>7, <3>8, <3>9 DEF TakeMove
        <3>11. UndoFresh(i, past[m - 1].db) BY <3>10, <2>2
        <3>12. past[m].db[log[i].entity] = past[m - 1].db[log[i].entity]
            <4>1. log[i].entity \in Entities BY <1>3, RowIs
            <4> QED BY <4>1, <3>2, <3>4, <3>6, UndoneIs
        <3>13. UndoFresh(i, past[m].db) BY <3>11, <3>12, FreshLooks
        <3> QED BY <3>13 DEF m, i
    <2> QED BY <2>4, <2>5
<1> QED BY <1>4, <1>5 DEF i

(* What a pass leaves is a table, and it takes only what it was given.     *)
LEMMA SweepTyped ==
    ASSUME LogSound, NEW S \in SUBSET Rows, NEW pass
    PROVE  Sweep(S, pass).db \in Tables(scope) /\ Sweep(S, pass).took \subseteq S
<1>1. Len(log) \in Nat BY DEF LogSound
<1>2. PICK past : Stages(S, pass, past) /\ Sweep(S, pass) = past[Len(log)]
    BY SweepUnfolds DEF Stages
<1>3. Len(log) \in 0 .. Len(log) BY <1>1
<1>4. past[Len(log)] \in Passed BY <1>2, <1>3 DEF Stages
<1>5. past[Len(log)].took \subseteq S BY <1>2, <1>3, StageTook
<1> QED BY <1>2, <1>4, <1>5 DEF Passed

LiveOf(L) == {i \in 1 .. Len(L) : L[i].undone = 0}

(* A pass that looks for stale rows takes from each envelope what the rows *)
(* it takes had added.                                                     *)
LEMMA SweepWorth ==
    ASSUME LogSound, NEW S \in SUBSET Live, NEW pass \in {"fresh", "moves"},
           pass = "moves" => \A i \in S : log[i].move # None,
           NEW e \in scope.envelopes, db[e].assigned = WorthOf(log, e, LiveOf(log))
    PROVE  Sweep(S, pass).db[e].assigned = WorthOf(log, e, LiveOf(log) \ Sweep(S, pass).took)
<1> DEFINE N == Len(log)
<1>1. N \in Nat /\ Priced(log, e) /\ e \notin Legs BY PricedLog DEF LogSound
<1>2. S \in SUBSET Rows /\ S \subseteq LiveOf(log) BY DEF Live, Visible, LiveOf, Rows, IsLive
<1>3. PICK past : Stages(S, pass, past) /\ Sweep(S, pass) = past[N]
    BY <1>2, SweepUnfolds DEF Stages
<1> DEFINE T == {n \in Nat : n <= N =>
                    past[n].db[e].assigned = WorthOf(log, e, LiveOf(log) \ past[n].took)}
<1>4. 0 \in T
    <2>1. past[0].db = db /\ past[0].took = {} BY <1>3 DEF Stages, Begun
    <2>2. LiveOf(log) \ {} = LiveOf(log) OBVIOUS
    <2> QED BY <2>1, <2>2
<1>5. ASSUME NEW n \in Nat, n \in T PROVE n + 1 \in T
    <2>1. SUFFICES ASSUME n + 1 <= N
                   PROVE  past[n + 1].db[e].assigned
                            = WorthOf(log, e, LiveOf(log) \ past[n + 1].took)
        OBVIOUS
    <2> DEFINE m == n + 1
    <2> DEFINE i == RowAt(m)
    <2> DEFINE left == LiveOf(log) \ past[n].took
    <2>2. m \in 1..N /\ m - 1 = n /\ n <= N BY <2>1, <1>1
    <2>3. past[n].db[e].assigned = WorthOf(log, e, left) BY <1>5, <2>2
    <2>4. i \in Rows /\ past[m - 1].db \in Tables(scope) /\ i \notin past[m - 1].took
        BY <1>2, <1>3, <2>2, StageIs
    <2>5. i \notin past[m].took => past[m] = past[m - 1] BY <1>2, <1>3, <2>2, StageIs
    <2>6. CASE i \notin past[m].took BY <2>2, <2>3, <2>5, <2>6
    <2>7. CASE i \in past[m].took
        <3>1. /\ i \in S /\ past[m].took = past[m - 1].took \cup {i}
              /\ past[m].db = Undone(i, past[m - 1].db)
            <4>1. past[m] = After(S, pass, m, past[m - 1]) BY <1>3, <2>2 DEF Stages
            <4>2. past[m] # past[m - 1] BY <2>4, <2>7
            <4> QED BY <4>1, <4>2 DEF After, RowAt
        <3>3. UndoFresh(i, past[m - 1].db) BY <1>3, <2>2, <2>7, JudgedFresh
        <3> DEFINE d == past[n].db
        <3>4. d \in Tables(scope) /\ UndoFresh(i, d) /\ past[m].db = Undone(i, d)
            BY <2>2, <2>4, <3>1, <3>3
        <3>5. i \in left /\ i \in 1..N BY <1>2, <3>1, <2>4, <2>2 DEF Rows
        <3>6. LiveOf(log) \ past[m].took = left \ {i} BY <3>1, <2>2
        <3> HIDE DEF left, i, m, d
        <3>7. WorthOf(log, e, left \ {i})
                = WorthOf(log, e, left) - (IF log[i].entity = e THEN Gain(log[i]) ELSE 0)
            BY <1>1, <3>5, WorthDrop
        <3>8. WorthOf(log, e, left) \in Int BY <1>1, WorthUnfolds DEF Priced
        <3>9. CASE log[i].entity = e
            <4>1. d[e].assigned = log[i].after.assigned /\ log[i].before.assigned \in Int
                  /\ log[i].after.assigned \in Int
                BY <3>4, <3>9, <2>4, <1>1, FreshFigure
            <4>2. Undone(i, d)[e] = log[i].before BY <3>4, <3>9, <2>4, <1>1, UndoneIs
            <4>3. past[m].db[e].assigned = WorthOf(log, e, left) - Gain(log[i])
                BY <4>1, <4>2, <3>4, <2>3 DEF Gain, d
            <4> QED BY <4>3, <3>6, <3>7, <3>9 DEF m
        <3>10. CASE log[i].entity # e
            <4>1. e \in Entities BY DEF Entities
            <4>2. Undone(i, d)[e] = d[e] BY <4>1, <3>4, <3>10, <2>4, UndoneIs
            <4>3. past[m].db[e].assigned = WorthOf(log, e, left) BY <4>2, <3>4, <2>3 DEF d
            <4>4. WorthOf(log, e, left \ {i}) = WorthOf(log, e, left) BY <3>7, <3>8, <3>10
            <4> QED BY <4>3, <4>4, <3>6 DEF m
        <3> QED BY <3>9, <3>10
    <2> QED BY <2>6, <2>7
<1> HIDE DEF T
<1>6. Nat \subseteq T BY <1>4, <1>5, Induct
<1> QED BY <1>6, <1>1, <1>3 DEF T

(* A pass over moves takes all the live rows of a move, or none.           *)
LEMMA SweepWhole ==
    ASSUME LogSound, NEW S \in SUBSET Live, \A i \in S : log[i].move # None,
           \A i \in S, k \in Live : log[k].move = log[i].move => k \in S,
           NEW i \in Sweep(S, "moves").took, NEW k \in Live, log[k].move = log[i].move
    PROVE  k \in Sweep(S, "moves").took
<1> DEFINE N == Len(log)
<1>1. N \in Nat BY DEF LogSound
<1>2. S \in SUBSET Rows BY DEF Live, Visible
<1>3. PICK past : Stages(S, "moves", past) /\ Sweep(S, "moves") = past[N]
    BY <1>2, SweepUnfolds DEF Stages
<1>4. i \in S /\ k \in S BY <1>2, SweepTyped
<1> DEFINE group == {x \in MoveRows(log[i].move) : IsLive(x)}
<1> DEFINE j == Newest(group)
<1>5. group \in SUBSET Rows /\ group \in SUBSET Live /\ i \in group /\ k \in group
    BY <1>4 DEF MoveRows, Live, Visible
<1>6. j \in group /\ \A x \in group : x <= j BY <1>5, NewestIs
<1>7. \A x \in group : log[x].move = log[i].move BY DEF MoveRows
<1>8. group \subseteq S BY <1>4, <1>5, <1>7
<1> HIDE DEF j
<1>9. ASSUME NEW x \in group PROVE x \in past[N].took <=> j \in past[N].took
    <2>1. CASE x = j BY <2>1
    <2>2. CASE x # j
        <3> DEFINE n == N + 1 - x
        <3>1. n \in 1..N /\ RowAt(n) = x /\ x < j /\ x \in S /\ n - 1 \in 0..N /\ N - (n - 1) = x
            BY <2>2, <1>1, <1>5, <1>6, <1>8 DEF Rows, RowAt
        <3>2. group = {y \in MoveRows(log[x].move) : IsLive(y)} BY <1>7
        <3> HIDE DEF group, n
        <3>3. x # Newest(group) BY <2>2 DEF j
        <3>9. \A m \in 1..N : /\ RowAt(m) \in past[N].took <=> RowAt(m) \in past[m].took
                             /\ RowAt(m) \notin past[m - 1].took
            BY <1>2, <1>3, StageIs
        <3>4. x \in past[N].took <=> x \in past[n].took BY <3>1, <3>9
        <3>5. past[n] = After(S, "moves", n, past[n - 1]) /\ x \notin past[n - 1].took
            BY <1>3, <3>1, <3>9 DEF Stages
        <3>6. x \in past[n].took <=> Takes("moves", x, past[n - 1].db, past[n - 1].took)
            BY <3>1, <3>5 DEF After, RowAt
        <3>7. Takes("moves", x, past[n - 1].db, past[n - 1].took)
                <=> j \in past[n - 1].took
            BY <3>2, <3>3 DEF Takes, TakeMove, j
        <3>8. j \in past[n - 1].took <=> j \in past[N].took
            <4>1. j > x BY <3>1, <1>1, <1>5, <1>6 DEF Rows
            <4>2. j \in past[n - 1].took <=> j \in past[N].took /\ j > N - (n - 1)
                BY <1>2, <1>3, <3>1, StageTook
            <4> QED BY <4>1, <4>2, <3>1
        <3> QED BY <3>4, <3>6, <3>7, <3>8
    <2> QED BY <2>1, <2>2
<1> QED BY <1>3, <1>5, <1>9

-----------------------------------------------------------------------------
(* A log of which only the marks change.                                   *)

SameButMarks(L, M) ==
  /\ M \in Seq(LogRecords) /\ Len(M) = Len(L)
  /\ \A i \in 1 .. Len(L) :
       /\ M[i].entity = L[i].entity /\ M[i].action = L[i].action
       /\ M[i].before = L[i].before /\ M[i].after = L[i].after
       /\ M[i].move = L[i].move /\ M[i].batch = L[i].batch

LEMMA MarksKeepShape ==
    ASSUME NEW L, NEW M, SameButMarks(L, M), NEW batch
    PROVE  /\ MovesWhole(L) => MovesWhole(M)
           /\ BatchesPure(L) => BatchesPure(M)
           /\ SyncApart(L, batch) => SyncApart(M, batch)
           /\ \A sc, top : \A i \in 1 .. Len(L) : Sound(L[i], sc, top) => Sound(M[i], sc, top)
<1>1. Len(M) = Len(L) BY DEF SameButMarks
<1>2. \A i \in 1 .. Len(L) :
       /\ M[i].entity = L[i].entity /\ M[i].action = L[i].action
       /\ M[i].before = L[i].before /\ M[i].after = L[i].after
       /\ M[i].move = L[i].move /\ M[i].batch = L[i].batch
    BY DEF SameButMarks
<1>3. MovesWhole(L) => MovesWhole(M) BY <1>1, <1>2 DEF MovesWhole, Twins
<1>4. BatchesPure(L) => BatchesPure(M) BY <1>1, <1>2 DEF BatchesPure
<1>5. SyncApart(L, batch) => SyncApart(M, batch) BY <1>1, <1>2 DEF SyncApart
<1>6. ASSUME NEW sc, NEW top, NEW i \in 1 .. Len(L), Sound(L[i], sc, top)
      PROVE  Sound(M[i], sc, top)
    BY <1>2, <1>6 DEF Sound
<1> QED BY <1>3, <1>4, <1>5, <1>6

LEMMA MarksKeepWorth ==
    ASSUME NEW L, NEW M, SameButMarks(L, M), NEW e, Priced(L, e), NEW S
    PROVE  WorthOf(M, e, S) = WorthOf(L, e, S)
<1>1. /\ Len(M) = Len(L) /\ Len(M) <= Len(L) /\ Len(L) <= Len(M)
      /\ \A i \in 1 .. Len(L) : M[i].entity = L[i].entity /\ Gain(M[i]) = Gain(L[i])
    BY DEF SameButMarks, Gain, Priced
<1>2. Priced(M, e) BY <1>1 DEF Priced
<1>3. \A n \in 1 .. Len(M) : Share(M, e, S, n) = Share(L, e, S, n) BY <1>1 DEF Share
<1> QED BY <1>1, <1>2, <1>3, WorthSame

-----------------------------------------------------------------------------
(* What a step may do to a log that is kept.                               *)

(* A request in flight stays what it was, whatever the log becomes.        *)
LEMMA InFlightKept ==
    ASSUME LogKept, UNCHANGED scope, inflight' \in {inflight, Idle}, raced => raced',
           batches' \in Nat, batches <= batches', Rows \subseteq Rows',
           \A i \in Rows : log'[i].entity = log[i].entity /\ log'[i].move = log[i].move,
           \A i \in Rows' \ Rows : log'[i].move \notin 1 .. batches
    PROVE  InFlight'
<1>1. CASE inflight' = Idle BY <1>1 DEF InFlight
<1>2. CASE inflight' = inflight
    <2>1. CASE inflight = Idle BY <1>2, <2>1 DEF InFlight
    <2>2. CASE Assigning(inflight)
        <3>1. PICK e \in scope.envelopes, was \in Int, now \in Int :
                inflight = [kind |-> "assign", read |-> [x \in {e} |-> was], new |-> [x \in {e} |-> now]]
            BY <2>2 DEF Assigning
        <3>2. Assigning(inflight)' BY <1>2, <3>1 DEF Assigning
        <3> QED BY <3>2 DEF InFlight
    <2>3. CASE Moving(inflight)
        <3>1. PICK list \in MoveLists : \E read \in [Touched(list) -> Int] :
                /\ Touched(list) \subseteq scope.envelopes
                /\ inflight = [kind |-> "move", read |-> read, list |-> list]
            BY <2>3 DEF Moving
        <3>2. Moving(inflight)' BY <1>2, <3>1 DEF Moving
        <3> QED BY <3>2 DEF InFlight
    <2>4. CASE UndoingMove(inflight)
        <3>1. PICK m \in 1 .. batches, rows \in SUBSET Rows :
                \E read \in [{log[i].entity : i \in rows} -> Int] :
                  /\ inflight = [kind |-> "undo move", read |-> read, rows |-> rows, move |-> m]
                  /\ \A i \in rows : log[i].move = m
                  /\ ~raced => \A i \in Rows : log[i].move = m => i \in rows
            BY <2>4 DEF UndoingMove
        <3>2. PICK read \in [{log[i].entity : i \in rows} -> Int] :
                  /\ inflight = [kind |-> "undo move", read |-> read, rows |-> rows, move |-> m]
                  /\ \A i \in rows : log[i].move = m
                  /\ ~raced => \A i \in Rows : log[i].move = m => i \in rows
            BY <3>1
        <3>3. m \in 1 .. batches' /\ rows \in SUBSET Rows' BY DEF LogKept, LogSound
        <3>4. {log'[i].entity : i \in rows} = {log[i].entity : i \in rows} OBVIOUS
        <3>5. \A i \in rows : log'[i].move = m BY <3>2
        <3>6. ~raced' => \A i \in Rows' : log'[i].move = m => i \in rows BY <3>2
        <3>7. read \in [{log'[i].entity : i \in rows} -> Int] BY <3>4
        <3>8. UndoingMove(inflight)' BY <1>2, <3>2, <3>3, <3>5, <3>6, <3>7 DEF UndoingMove
        <3> QED BY <3>8 DEF InFlight
    <2> QED BY <2>1, <2>2, <2>3, <2>4 DEF LogKept, InFlight
<1> QED BY <1>1, <1>2

(* Marks change, and the rows and the moves that are live with them.       *)
LEMMA MarksKeep ==
    ASSUME LogKept, NEW d \in Tables(scope), NEW T,
           SameButMarks(log, log'), LiveOf(log') = T,
           \A i \in Rows : log'[i].undone <= undoSeq',
           db' = d, moves' \subseteq 1 .. batches, undoSeq' \in Nat, undos' \in 0 .. MaxUndos,
           UNCHANGED <<scope, syncing, batches>>, inflight' \in {inflight, Idle},
           raced' \in BOOLEAN, forced' \in BOOLEAN, torn' \in BOOLEAN,
           raced => raced', forced => forced',
           ~raced' => \A i \in Rows : log[i].move # None => (i \in T <=> log[i].move \in moves'),
           ~raced' /\ ~forced' =>
              \A e \in scope.envelopes : d[e].assigned = WorthOf(log, e, T)
    PROVE  LogKept'
<1>1. LogSound /\ InFlight /\ Len(log') = Len(log) /\ Rows' = Rows /\ Len(log) \in Nat
    BY DEF LogKept, LogSound, SameButMarks, Rows
<1>2. \A i \in Rows : /\ log'[i].entity = log[i].entity /\ log'[i].move = log[i].move
                      /\ log'[i].batch = log[i].batch
    BY DEF SameButMarks, Rows
<1>3. LogSound'
    <2>1. /\ MovesWhole(log') /\ BatchesPure(log') /\ SyncApart(log', syncing)
          /\ \A i \in Rows : Sound(log'[i], scope, batches)
        BY <1>1, MarksKeepShape DEF LogSound, Rows
    <2>2. log' \in Seq(LogRecords) BY DEF SameButMarks
    <2>3. scope' \in Scopes /\ db' \in Tables(scope') BY <1>1 DEF LogSound
    <2>4. Len(log') <= scope'.rows BY <1>1 DEF LogSound
    <2>5. \A i \in Rows' : Sound(log'[i], scope', batches') /\ log'[i].undone <= undoSeq'
        BY <1>1, <2>1
    <2>6. syncing' \in {None} \cup 1 .. batches' /\ batches' \in Nat /\ moves' \subseteq 1 .. batches'
        BY <1>1 DEF LogSound
    <2> QED BY <2>1, <2>2, <2>3, <2>4, <2>5, <2>6 DEF LogSound
<1>4. InFlight' BY <1>1, <1>2, InFlightKept DEF LogSound
<1>5. \A i \in Rows : IsLive(i)' <=> i \in T BY <1>1 DEF LiveOf, IsLive, Rows
<1>6. Listed' BY <1>1, <1>2, <1>5 DEF Listed
<1>7. AssignedIsReplay'
    <2>1. SUFFICES ASSUME ~raced', ~forced', NEW e \in scope.envelopes
                   PROVE  db'[e].assigned = Replay(e)'
        BY DEF AssignedIsReplay
    <2>2. WorthOf(log', e, T) = WorthOf(log, e, T) BY <1>1, PricedLog, MarksKeepWorth
    <2>3. {i \in Rows' : IsLive(i)'} = LiveOf(log') BY DEF LiveOf, IsLive, Rows
    <2>4. Replay(e)' = WorthOf(log', e, T) BY <2>3 DEF Replay
    <2> QED BY <2>1, <2>2, <2>4
<1> QED BY <1>3, <1>4, <1>6, <1>7 DEF LogKept

-----------------------------------------------------------------------------
(* Undo.                                                                   *)

(* Marking rows undone changes their mark and nothing else.                *)
LEMMA MarkedIs ==
    ASSUME LogSound, NEW S \in SUBSET Rows
    PROVE  /\ SameButMarks(log, Marked(S))
           /\ LiveOf(Marked(S)) = LiveOf(log) \ S
           /\ Cardinality(S) \in Nat
           /\ \A i \in Rows : Marked(S)[i].undone <= undoSeq + Cardinality(S)
<1>1. Len(log) \in Nat /\ undoSeq \in Nat /\ log \in Seq(LogRecords) BY DEF LogSound
<1>2. IsFiniteSet(Rows) BY <1>1, FS_Interval DEF Rows
<1>3. IsFiniteSet(S) /\ Cardinality(S) \in Nat BY <1>2, FS_Subset, FS_CardinalityType
<1>4. ASSUME NEW i \in S
      PROVE  LET c == Cardinality({k \in S : i <= k}) IN c \in 1 .. Cardinality(S)
    <2> DEFINE A == {k \in S : i <= k}
    <2>1. A \subseteq S /\ i \in A BY <1>1 DEF Rows
    <2>2. IsFiniteSet(A) /\ Cardinality(A) <= Cardinality(S) /\ Cardinality(A) \in Nat
        BY <2>1, <1>3, FS_Subset, FS_CardinalityType
    <2>3. Cardinality(A) # 0 BY <2>1, <2>2, FS_EmptySet
    <2> QED BY <2>2, <2>3, <1>3
<1> DEFINE c(i) == Cardinality({k \in S : i <= k})
<1> DEFINE M == Marked(S)
<1>5. /\ M = [i \in 1 .. Len(log) |-> IF i \in S THEN [log[i] EXCEPT !.undone = undoSeq + c(i)]
                                      ELSE log[i]]
      /\ \A i \in S : c(i) \in 1 .. Cardinality(S)
    BY <1>4 DEF Marked, Rows
<1> HIDE DEF c, M
<1>6. ASSUME NEW i \in 1 .. Len(log)
      PROVE  /\ M[i] \in LogRecords
             /\ M[i].entity = log[i].entity /\ M[i].action = log[i].action
             /\ M[i].before = log[i].before /\ M[i].after = log[i].after
             /\ M[i].move = log[i].move /\ M[i].batch = log[i].batch
             /\ i \in S => M[i].undone = undoSeq + c(i)
             /\ i \notin S => M[i] = log[i]
    <2>1. log[i] \in LogRecords BY <1>1
    <2>2. CASE i \in S
        <3>1. undoSeq + c(i) \in Nat BY <1>1, <1>5, <2>2, <1>3
        <3>2. M[i] = [log[i] EXCEPT !.undone = undoSeq + c(i)] BY <1>5, <2>2
        <3> QED BY <2>1, <2>2, <3>1, <3>2 DEF LogRecords
    <2>3. CASE i \notin S BY <1>5, <2>1, <2>3
    <2> QED BY <2>2, <2>3
<1>7. M \in Seq(LogRecords) /\ Len(M) = Len(log)
    <2>1. M \in [1 .. Len(log) -> LogRecords]
        <3>1. M = [i \in 1 .. Len(log) |-> M[i]] BY <1>5
        <3> QED BY <3>1, <1>6
    <2>2. M \in Seq(LogRecords) BY <2>1, <1>1
    <2> QED BY <2>1, <2>2, <1>1, LenProperties
<1>8. SameButMarks(log, M) BY <1>6, <1>7 DEF SameButMarks
<1>9. \A i \in S : undoSeq + c(i) # 0 /\ undoSeq + c(i) <= undoSeq + Cardinality(S)
    BY <1>1, <1>3, <1>5
<1>10. LiveOf(M) = LiveOf(log) \ S BY <1>6, <1>7, <1>9 DEF LiveOf, Rows
<1>11. ASSUME NEW i \in Rows PROVE M[i].undone <= undoSeq + Cardinality(S)
    <2>1. i \in 1 .. Len(log) /\ log[i].undone <= undoSeq /\ log[i].undone \in Nat
        BY RowIs DEF LogSound, Rows, LogRecords
    <2> QED BY <2>1, <1>1, <1>3, <1>6, <1>9
<1> QED BY <1>3, <1>8, <1>10, <1>11 DEF M

(* Rows taken back, with the audit rows of their moves.                    *)
LEMMA TakeBackKeeps ==
    ASSUME LogKept, NEW S \in SUBSET Rows, NEW d \in Tables(scope), NEW gone,
           db' = d, log' = Marked(S), moves' = moves \ gone,
           undoSeq' = undoSeq + Cardinality(S), undos < MaxUndos, undos' = undos + 1,
           UNCHANGED <<scope, syncing, batches>>, inflight' \in {inflight, Idle},
           raced' \in BOOLEAN, forced' \in BOOLEAN, torn' \in BOOLEAN,
           raced => raced', forced => forced',
           ~raced' => \A i \in Rows : log[i].move # None => (i \in S <=> log[i].move \in gone),
           ~raced' /\ ~forced' =>
              \A e \in scope.envelopes : d[e].assigned = WorthOf(log, e, LiveOf(log) \ S)
    PROVE  LogKept'
<1> DEFINE T == LiveOf(log) \ S
<1>1. LogSound /\ Listed BY DEF LogKept
<1>2. /\ SameButMarks(log, log') /\ LiveOf(log') = T /\ undoSeq' \in Nat
      /\ \A i \in Rows : log'[i].undone <= undoSeq'
    BY <1>1, MarkedIs DEF LogSound
<1>3. moves' \subseteq 1 .. batches /\ undos' \in 0 .. MaxUndos
    <2>1. moves \subseteq 1 .. batches /\ undos \in 0 .. MaxUndos /\ MaxUndos \in Nat
        BY <1>1, BoundsAssumption DEF LogSound
    <2>2. undos + 1 \in 0 .. MaxUndos BY <2>1
    <2> QED BY <2>1, <2>2
<1>4. ~raced' => \A i \in Rows : log[i].move # None => (i \in T <=> log[i].move \in moves')
    BY <1>1 DEF Listed, LiveOf, IsLive, Rows
<1> HIDE DEF T
<1>5. ~raced' /\ ~forced' => \A e \in scope.envelopes : d[e].assigned = WorthOf(log, e, T)
    BY DEF T
<1> QED BY <1>2, <1>3, <1>4, <1>5, MarksKeep

\* Rows that take every row of their moves with them.
WholeMoves(S) ==
  \A i \in S, k \in Rows : log[i].move # None /\ log[k].move = log[i].move => k \in S

(* The rows of a live move are live, and seen or unseen together.          *)
LEMMA Mates ==
    ASSUME LogKept, ~raced, NEW i \in Live, NEW k \in Rows, log[i].move # None,
           log[k].move = log[i].move
    PROVE  /\ k \in Live /\ log[k].batch = log[i].batch /\ log[i].batch # None
           /\ i # k => k = i + 1 \/ i = k + 1
<1>1. LogSound /\ Listed BY DEF LogKept
<1>2. i \in Rows /\ i \in Visible /\ IsLive(i) BY DEF Live, Visible
<1>3. IsLive(k) BY <1>1, <1>2 DEF Listed
<1>4. log[i].batch # None BY <1>1, <1>2, RowIs DEF Sound
<1>5. i # k => Twins(log, i, k) BY <1>1, <1>2 DEF LogSound, MovesWhole, Rows
<1>6. log[k].batch = log[i].batch BY <1>5 DEF Twins
<1>7. k \in Visible BY <1>2, <1>6 DEF Visible
<1> QED BY <1>3, <1>4, <1>5, <1>6, <1>7 DEF Live, Twins

(* The live rows of a batch hold its moves whole.                          *)
LEMMA BatchWhole ==
    ASSUME LogKept, ~raced, NEW i
    PROVE  WholeMoves(Live \cap BatchOf(i))
<1>1. SUFFICES ASSUME NEW x \in Live \cap BatchOf(i), NEW k \in Rows, log[x].move # None,
                      log[k].move = log[x].move
               PROVE  k \in Live \cap BatchOf(i)
    BY DEF WholeMoves
<1>2. k \in Live /\ log[k].batch = log[x].batch /\ log[x].batch # None BY <1>1, Mates
<1>3. log[i].batch # None /\ log[x].batch = log[i].batch BY <1>1, <1>2 DEF BatchOf
<1>4. k \in Visible BY <1>2 DEF Live
<1> QED BY <1>2, <1>3, <1>4 DEF BatchOf

(* So do the live rows above the end of a batch.                           *)
LEMMA NewerWhole ==
    ASSUME LogKept, ~raced, NEW i \in Visible
    PROVE  WholeMoves({k \in Live : k > Newest(BatchOf(i))})
<1> DEFINE top == Newest(BatchOf(i))
<1>1. LogSound BY DEF LogKept
<1>2. i \in Rows /\ i \in BatchOf(i) /\ BatchOf(i) \in SUBSET Rows BY DEF Visible, BatchOf
<1>3. top \in BatchOf(i) /\ \A k \in BatchOf(i) : k <= top BY <1>1, <1>2, NewestIs
<1> HIDE DEF top
<1>4. SUFFICES ASSUME NEW x \in Live, x > top, NEW k \in Rows, log[x].move # None,
                      log[k].move = log[x].move
               PROVE  k \in Live /\ k > top
    BY DEF WholeMoves, top
<1>5. /\ k \in Live /\ log[k].batch = log[x].batch /\ log[x].batch # None
      /\ x # k => k = x + 1 \/ x = k + 1
    BY <1>4, Mates
<1>6. x \in Int /\ k \in Int /\ top \in Int /\ x \in Visible
    BY <1>1, <1>2, <1>3, RowIs DEF Live, Visible
<1>7. ASSUME k = top PROVE FALSE
    <2>1. k \in BatchOf(i) BY <1>3, <1>7
    <2>2. log[i].batch # None /\ log[k].batch = log[i].batch BY <2>1, <1>5 DEF BatchOf
    <2>3. x \in BatchOf(i) BY <2>2, <1>5, <1>6 DEF BatchOf
    <2> QED BY <2>3, <1>3, <1>4, <1>6
<1> QED BY <1>4, <1>5, <1>6, <1>7

(* A sync's batch holds no move.                                           *)
LEMMA SyncBatchMoveless ==
    ASSUME LogSound, NEW i \in Visible, log[i].batch \in SyncBatches, NEW S \in SUBSET BatchOf(i)
    PROVE  WholeMoves(S)
<1>1. PICK k \in Rows : log[k].action = "import" /\ log[i].batch = log[k].batch
    BY DEF SyncBatches
<1>2. log[k].move = None BY <1>1, RowIs DEF Sound
<1>3. ASSUME NEW x \in S PROVE log[x].move = None
    <2>1. x \in Rows /\ i \in Rows BY DEF BatchOf, Visible
    <2>2. CASE log[x].batch = None BY <2>1, <2>2, RowIs DEF Sound
    <2>3. CASE log[x].batch # None
        <3>1. log[x].batch = log[k].batch BY <1>1, <2>3 DEF BatchOf
        <3>2. BatchesPure(log) BY DEF LogSound
        <3> QED BY <1>2, <2>1, <2>3, <3>1, <3>2 DEF BatchesPure, Rows
    <2> QED BY <2>2, <2>3
<1> QED BY <1>3 DEF WholeMoves

(* The rows of S are taken back whole, and the envelopes with them.        *)
LEMMA WholeKeeps ==
    ASSUME LogKept, NEW S \in SUBSET Rows, NEW d \in Tables(scope), ~raced => WholeMoves(S),
           undos < MaxUndos, TakeBack(S, d), UNCHANGED <<scope, syncing, batches, inflight, raced>>,
           forced' \in BOOLEAN, torn' \in BOOLEAN, forced => forced',
           ~raced /\ ~forced' =>
              \A e \in scope.envelopes : d[e].assigned = WorthOf(log, e, LiveOf(log) \ S)
    PROVE  LogKept'
<1> DEFINE gone == {log[i].move : i \in S}
<1>1. ~raced' => \A i \in Rows : log[i].move # None => (i \in S <=> log[i].move \in gone)
    <2>1. SUFFICES ASSUME ~raced, NEW i \in Rows, log[i].move # None, log[i].move \in gone
                   PROVE  i \in S
        OBVIOUS
    <2>2. PICK k \in S : log[k].move = log[i].move BY <2>1
    <2> QED BY <2>1, <2>2 DEF WholeMoves
<1>2. /\ db' = d /\ log' = Marked(S) /\ moves' = moves \ gone
      /\ undoSeq' = undoSeq + Cardinality(S) /\ undos' = undos + 1
    BY DEF TakeBack
<1>3. raced' \in BOOLEAN BY DEF LogKept, LogSound
<1> HIDE DEF gone
<1> QED BY <1>1, <1>2, <1>3, TakeBackKeeps

(* A pass over the moves of a batch.                                       *)
LEMMA MovePassKeeps ==
    ASSUME LogKept, NEW S \in SUBSET Live, ~raced => WholeMoves(S), IsMoveBatch(S),
           undos < MaxUndos, TakeBack(Sweep(S, "moves").took, Sweep(S, "moves").db),
           UNCHANGED <<scope, syncing, batches, inflight, raced, forced, torn>>
    PROVE  LogKept'
<1>1. LogSound /\ S \in SUBSET Rows /\ \A i \in S : log[i].move # None
    BY DEF LogKept, Live, Visible, IsMoveBatch
<1>2. PICK took, d : took = Sweep(S, "moves").took /\ d = Sweep(S, "moves").db OBVIOUS
<1>3. took \in SUBSET Rows /\ took \subseteq S /\ d \in Tables(scope) BY <1>1, <1>2, SweepTyped
<1>4. TakeBack(took, d) BY <1>2 DEF TakeBack
<1>5. ASSUME ~raced PROVE WholeMoves(took)
    <2>1. SUFFICES ASSUME NEW i \in took, NEW k \in Rows, log[i].move # None,
                          log[k].move = log[i].move
                   PROVE  k \in took
        BY DEF WholeMoves
    <2>2. k \in S /\ k \in Live BY <1>3, <1>5, <2>1 DEF WholeMoves
    <2>3. \A x \in S, y \in Live : log[y].move = log[x].move => y \in S
        BY <1>1, <1>5 DEF WholeMoves, Live, Visible
    <2> QED BY <1>1, <1>2, <2>1, <2>2, <2>3, SweepWhole
<1>6. ASSUME ~raced, ~forced', NEW e \in scope.envelopes
      PROVE  d[e].assigned = WorthOf(log, e, LiveOf(log) \ took)
    <2>1. db[e].assigned = WorthOf(log, e, LiveOf(log))
        BY <1>6 DEF LogKept, AssignedIsReplay, Replay, LiveOf, Rows, IsLive
    <2> QED BY <1>1, <1>2, <2>1, SweepWorth
<1>7. forced' \in BOOLEAN /\ torn' \in BOOLEAN BY <1>1 DEF LogSound
<1> QED BY <1>3, <1>4, <1>5, <1>6, <1>7, WholeKeeps

(* A pass that takes everything, or nothing at all: force is remembered    *)
(* when it took a row that had changed since.                              *)
LEMMA StrictPassKeeps ==
    ASSUME LogKept, NEW S \in SUBSET Live, ~raced => WholeMoves(S),
           Sweep(S, "allowed").took = S, undos < MaxUndos,
           TakeBack(S, Sweep(S, "allowed").db),
           forced' = (forced \/ Sweep(S, "fresh").took # S),
           UNCHANGED <<scope, syncing, batches, inflight, raced, torn>>
    PROVE  LogKept'
<1>1. LogSound /\ S \in SUBSET Rows BY DEF LogKept, Live, Visible
<1>2. PICK d : d = Sweep(S, "allowed").db OBVIOUS
<1>3. d \in Tables(scope) BY <1>1, <1>2, SweepTyped
<1>4. TakeBack(S, d) BY <1>2 DEF TakeBack
<1>5. ASSUME ~raced, ~forced', NEW e \in scope.envelopes
      PROVE  d[e].assigned = WorthOf(log, e, LiveOf(log) \ S)
    <2>1. db[e].assigned = WorthOf(log, e, LiveOf(log))
        BY <1>5 DEF LogKept, AssignedIsReplay, Replay, LiveOf, Rows, IsLive
    <2>2. Sweep(S, "fresh").took = S BY <1>5
    <2>3. d = Sweep(S, "fresh").db BY <1>1, <1>2, <2>2, SweepAgree
    <2>4. Sweep(S, "fresh").db[e].assigned = WorthOf(log, e, LiveOf(log) \ Sweep(S, "fresh").took)
        BY <1>1, <2>1, SweepWorth
    <2> QED BY <2>2, <2>3, <2>4
<1>6. forced' \in BOOLEAN /\ torn' \in BOOLEAN BY <1>1 DEF LogSound
<1> QED BY <1>1, <1>3, <1>4, <1>5, <1>6, WholeKeeps

(* undo_change and undo_batch, and the undo key.                           *)
LEMMA UndoChangeKeeps ==
    ASSUME LogKept, NEW i, NEW force, UndoPending(UndoBatchOf(i), force, "undo")
                                      \/ UndoPending(UndoBatchOf(i), force, "key")
    PROVE  LogKept'
<1>1. PICK S : S = UndoBatchOf(i) OBVIOUS
<1>2. S \in SUBSET Live /\ (~raced => WholeMoves(S)) BY <1>1, BatchWhole DEF UndoBatchOf
<1>3. /\ undos < MaxUndos /\ UNCHANGED <<scope, syncing, inflight, batches, raced, torn>>
      /\ IF IsMoveBatch(S) /\ ~force
           THEN /\ TakeBack(Sweep(S, "moves").took, Sweep(S, "moves").db)
                /\ UNCHANGED forced
           ELSE /\ Sweep(S, "allowed").took = S
                /\ TakeBack(S, Sweep(S, "allowed").db)
                /\ forced' = (forced \/ Sweep(S, "fresh").took # S)
    BY <1>1 DEF UndoPending, Undoing, TakeBack
<1>4. CASE IsMoveBatch(S) /\ ~force BY <1>2, <1>3, <1>4, MovePassKeeps
<1>5. CASE ~(IsMoveBatch(S) /\ ~force) BY <1>2, <1>3, <1>5, StrictPassKeeps
<1> QED BY <1>4, <1>5

(* undo_newer.                                                             *)
LEMMA UndoNewerKeeps ==
    ASSUME LogKept, NEW i, NEW force, UndoNewer(i, force)
    PROVE  LogKept'
<1>1. PICK S : S = {k \in Live : k > Newest(BatchOf(i))} OBVIOUS
<1>2. i \in Visible BY DEF UndoNewer
<1>3. S \in SUBSET Live /\ (~raced => WholeMoves(S)) BY <1>1, <1>2, NewerWhole
<1>4. /\ undos < MaxUndos /\ UNCHANGED <<scope, syncing, inflight, batches, raced, torn>>
      /\ Sweep(S, "allowed").took = S /\ TakeBack(S, Sweep(S, "allowed").db)
      /\ forced' = (forced \/ Sweep(S, "fresh").took # S)
    BY <1>1 DEF UndoNewer, Undoing, TakeBack
<1> QED BY <1>3, <1>4, StrictPassKeeps

(* undo_batch_leniently.                                                   *)
LEMMA UndoLenientlyKeeps ==
    ASSUME LogKept, NEW i, UndoBatchLeniently(i)
    PROVE  LogKept'
<1>1. PICK S, took, d : /\ S = UndoBatchOf(i) /\ took = Sweep(S, "fresh").took
                        /\ d = Sweep(S, "fresh").db OBVIOUS
<1>2. /\ undos < MaxUndos /\ i \in Visible /\ log[i].batch \in SyncBatches
      /\ TakeBack(took, d) /\ torn' = (torn \/ took # S)
      /\ UNCHANGED <<scope, syncing, inflight, batches, raced, forced>>
    BY <1>1 DEF UndoBatchLeniently, Undoing, TakeBack
<1>3. LogSound /\ S \in SUBSET Live /\ S \in SUBSET Rows /\ S \subseteq BatchOf(i)
    BY <1>1 DEF LogKept, UndoBatchOf, Live, Visible
<1>4. took \subseteq S /\ took \in SUBSET Rows /\ d \in Tables(scope) BY <1>1, <1>3, SweepTyped
<1>5. WholeMoves(took)
    <2>1. took \in SUBSET BatchOf(i) BY <1>3, <1>4
    <2> QED BY <1>2, <1>3, <2>1, SyncBatchMoveless
<1>6. ASSUME ~raced, ~forced', NEW e \in scope.envelopes
      PROVE  d[e].assigned = WorthOf(log, e, LiveOf(log) \ took)
    <2>1. db[e].assigned = WorthOf(log, e, LiveOf(log))
        BY <1>2, <1>6 DEF LogKept, AssignedIsReplay, Replay, LiveOf, Rows, IsLive
    <2> QED BY <1>1, <1>3, <2>1, SweepWorth
<1>7. forced' \in BOOLEAN /\ torn' \in BOOLEAN BY <1>2, <1>3 DEF LogSound
<1> QED BY <1>2, <1>4, <1>5, <1>6, <1>7, WholeKeeps

(* The undo key.                                                           *)
LEMMA UndoLatestKeeps ==
    ASSUME LogKept, UndoLatest PROVE LogKept'
BY UndoChangeKeeps DEF UndoLatest

(* What an undo of a move has in hand.                                     *)
LEMMA UndoMoveHolds ==
    ASSUME LogKept, inflight.kind = "undo move"
    PROVE  \E m \in 1 .. batches, rows \in SUBSET Rows :
             \E read \in [{log[i].entity : i \in rows} -> Int] :
                /\ inflight.read = read /\ inflight.rows = rows /\ inflight.move = m
                /\ \A i \in rows : log[i].move = m
                /\ ~raced => \A i \in Rows : log[i].move = m => i \in rows
<1>1. inflight # Idle
    <2>1. Idle.kind = None /\ None # "undo move" BY NoneAssumption DEF Idle
    <2> QED BY <2>1
<1>2. ASSUME Assigning(inflight) PROVE FALSE
    <2>1. PICK e \in scope.envelopes, was \in Int, now \in Int :
            inflight = [kind |-> "assign", read |-> [x \in {e} |-> was], new |-> [x \in {e} |-> now]]
        BY <1>2 DEF Assigning
    <2>2. inflight.kind = "assign" BY <2>1
    <2> QED BY <2>2
<1>3. ASSUME Moving(inflight) PROVE FALSE
    <2>1. PICK list \in MoveLists : \E read \in [Touched(list) -> Int] :
            inflight = [kind |-> "move", read |-> read, list |-> list]
        BY <1>3 DEF Moving
    <2>2. inflight.kind = "move" BY <2>1
    <2> QED BY <2>2
<1>4. UndoingMove(inflight) BY <1>1, <1>2, <1>3 DEF LogKept, InFlight
<1>5. PICK m \in 1 .. batches, rows \in SUBSET Rows :
             \E read \in [{log[i].entity : i \in rows} -> Int] :
                /\ inflight = [kind |-> "undo move", read |-> read, rows |-> rows, move |-> m]
                /\ \A i \in rows : log[i].move = m
                /\ ~raced => \A i \in Rows : log[i].move = m => i \in rows
    BY <1>4 DEF UndoingMove
<1>6. PICK read \in [{log[i].entity : i \in rows} -> Int] :
                /\ inflight = [kind |-> "undo move", read |-> read, rows |-> rows, move |-> m]
                /\ \A i \in rows : log[i].move = m
                /\ ~raced => \A i \in Rows : log[i].move = m => i \in rows
    BY <1>5
<1>7. inflight.read = read /\ inflight.rows = rows /\ inflight.move = m BY <1>6
<1> QED BY <1>6, <1>7

(* undo_move, at its writing.                                              *)
LEMMA FinishUndoMoveKeeps ==
    ASSUME LogKept, FinishUndoMove PROVE LogKept'
<1>1. LogSound /\ inflight.kind = "undo move" BY DEF LogKept, FinishUndoMove
<1>2. PICK m \in 1 .. batches, rows \in SUBSET Rows :
             \E read \in [{log[i].entity : i \in rows} -> Int] :
                /\ inflight.read = read /\ inflight.rows = rows /\ inflight.move = m
                /\ \A i \in rows : log[i].move = m
                /\ ~raced => \A i \in Rows : log[i].move = m => i \in rows
    BY <1>1, UndoMoveHolds
<1>3. PICK read \in [{log[i].entity : i \in rows} -> Int] :
                /\ inflight.read = read /\ inflight.rows = rows /\ inflight.move = m
                /\ \A i \in rows : log[i].move = m
                /\ ~raced => \A i \in Rows : log[i].move = m => i \in rows
    BY <1>2
<1>4. PICK d : d = Write(ByDelta(read, rows)) OBVIOUS
<1>5. PICK gone : gone = {m} OBVIOUS
<1>6. /\ db' = d /\ log' = Marked(rows) /\ moves' = moves \ gone
      /\ undoSeq' = undoSeq + Cardinality(rows) /\ undos < MaxUndos /\ undos' = undos + 1
      /\ UNCHANGED <<scope, syncing, batches, forced, torn>> /\ inflight' = Idle
      /\ raced' = (raced \/ Stale(read) \/ \E i \in rows : ~IsLive(i))
    BY <1>3, <1>4, <1>5 DEF FinishUndoMove, Undoing
<1>7. m # None
    <2>1. batches \in Nat /\ None \notin Int BY <1>1, NoneAssumption DEF LogSound
    <2> QED BY <2>1
<1>8. ASSUME NEW i \in rows
      PROVE  /\ log[i].entity \in Entities /\ log[i].entity \notin Legs
             /\ log[i].before.assigned \in Int /\ log[i].after.assigned \in Int
             /\ Gain(log[i]) \in Int
    <2>1. log[i].entity \in Entities /\ log[i].entity \notin Legs
        BY <1>1, <1>3, <1>7, RowIs DEF Sound
    <2>2. db \in Tables(scope) BY <1>1 DEF LogSound
    <2>3. log[i].before.assigned \in Int /\ log[i].after.assigned \in Int
        BY <1>1, <2>1, <2>2, FreshFigure
    <2> QED BY <2>1, <2>3 DEF Gain
<1>9. ASSUME NEW e \in DOMAIN read
      PROVE  \E i \in rows : /\ log[i].entity = e
                             /\ \A k \in rows : log[k].entity = e => k = i
                             /\ ByDelta(read, rows)[e] = read[e] - Gain(log[i])
    <2>1. PICK i \in rows : log[i].entity = e OBVIOUS
    <2>2. ASSUME NEW k \in rows, log[k].entity = e PROVE k = i
        <3>1. SUFFICES ASSUME k # i PROVE FALSE OBVIOUS
        <3>2. Twins(log, i, k) BY <1>1, <1>3, <1>7, <3>1 DEF LogSound, MovesWhole, Rows
        <3> QED BY <2>1, <2>2, <3>2 DEF Twins
    <2>3. (CHOOSE k \in rows : log[k].entity = e) = i BY <2>1, <2>2
    <2> QED BY <2>1, <2>2, <2>3 DEF ByDelta
<1>10. DOMAIN read = {log[i].entity : i \in rows} /\ DOMAIN ByDelta(read, rows) = DOMAIN read
    BY DEF ByDelta
<1>11. d \in Tables(scope) /\ \A e \in Entities :
           d[e] = IF e \in DOMAIN read THEN [assigned |-> ByDelta(read, rows)[e]] ELSE db[e]
    <2>1. db \in [Entities -> Transaction \cup Assignment] /\ \A e \in Entities : db[e] \in Kind(scope, e)
        BY <1>1 DEF LogSound, Tables, Entities
    <2>2. d = [e \in Entities |-> IF e \in DOMAIN read THEN [assigned |-> ByDelta(read, rows)[e]]
                                  ELSE db[e]]
        BY <2>1, <1>4, <1>10 DEF Write
    <2>3. ASSUME NEW e \in DOMAIN read
          PROVE  [assigned |-> ByDelta(read, rows)[e]] \in Assignment /\ e \notin Legs
        <3>1. PICK i \in rows : log[i].entity = e /\ ByDelta(read, rows)[e] = read[e] - Gain(log[i])
            BY <1>9
        <3>2. read[e] - Gain(log[i]) \in Int /\ e \notin Legs BY <1>8, <3>1
        <3> QED BY <3>1, <3>2 DEF Assignment
    <2>4. \A e \in Entities : d[e] \in Kind(scope, e) BY <2>1, <2>2, <2>3 DEF Kind
    <2>5. d \in [Entities -> Transaction \cup Assignment] BY <2>2, <2>4 DEF Kind
    <2> QED BY <2>2, <2>4, <2>5 DEF Tables, Entities
<1>12. ASSUME ~raced', ~forced', NEW e \in scope.envelopes
      PROVE  d[e].assigned = WorthOf(log, e, LiveOf(log) \ rows)
    <2>1. db[e].assigned = WorthOf(log, e, LiveOf(log))
        BY <1>6, <1>12 DEF LogKept, AssignedIsReplay, Replay, LiveOf, Rows, IsLive
    <2>2. Priced(log, e) /\ e \in Entities BY <1>1, PricedLog DEF Entities
    <2>3. rows \subseteq LiveOf(log) /\ ~Stale(read) BY <1>6, <1>12 DEF LiveOf, IsLive, Rows
    <2>9. Len(log) <= Len(log) BY <2>2 DEF Priced
    <2> DEFINE R == LiveOf(log) \ rows
    <2>4. CASE e \notin DOMAIN read
        <3>1. \A n \in 1 .. Len(log) : Share(log, e, R, n) = Share(log, e, LiveOf(log), n)
            BY <2>4, <1>10 DEF Share
        <3> HIDE DEF R
        <3>2. WorthOf(log, e, R) = WorthOf(log, e, LiveOf(log)) BY <2>2, <2>9, <3>1, WorthSame
        <3> QED BY <3>2, <2>1, <2>2, <2>4, <1>11 DEF R
    <2>5. CASE e \in DOMAIN read
        <3>1. PICK i \in rows : /\ log[i].entity = e
                                /\ \A k \in rows : log[k].entity = e => k = i
                                /\ ByDelta(read, rows)[e] = read[e] - Gain(log[i])
            BY <1>9, <2>5
        <3>2. PICK c \in Int : c = 0 - Gain(log[i]) BY <1>8
        <3>3. i \in 1 .. Len(log) /\ i \in LiveOf(log) /\ i \notin R BY <2>3 DEF Rows
        <3>4. Share(log, e, R, i) = Share(log, e, LiveOf(log), i) + c
            BY <1>8, <3>1, <3>2, <3>3 DEF Share
        <3>5. \A n \in 1 .. Len(log) : n # i => Share(log, e, R, n) = Share(log, e, LiveOf(log), n)
            BY <3>1 DEF Share
        <3> HIDE DEF R
        <3>6. WorthOf(log, e, R) = WorthOf(log, e, LiveOf(log)) + c
            BY <2>2, <2>9, <3>3, <3>4, <3>5, WorthDiffers
        <3>7. db[e].assigned = read[e] BY <2>3, <2>5 DEF Stale
        <3>10. d[e] = [assigned |-> ByDelta(read, rows)[e]] BY <1>11, <2>2, <2>5
        <3>8. d[e].assigned = read[e] - Gain(log[i]) BY <3>10, <3>1
        <3>9. read[e] \in Int /\ Gain(log[i]) \in Int BY <2>5, <1>8
        <3> QED BY <2>1, <3>2, <3>6, <3>7, <3>8, <3>9 DEF R
    <2> QED BY <2>4, <2>5
<1>13. ~raced' => \A i \in Rows : log[i].move # None => (i \in rows <=> log[i].move \in gone)
    BY <1>3, <1>5, <1>6
<1>14. raced' \in BOOLEAN /\ forced' \in BOOLEAN /\ torn' \in BOOLEAN
    BY <1>1, <1>6 DEF LogSound
<1> QED BY <1>6, <1>11, <1>12, <1>13, <1>14, TakeBackKeeps

-----------------------------------------------------------------------------
(* Redo.                                                                   *)

Retraced == [db : Tables(scope), ok : BOOLEAN, fresh : BOOLEAN]
Standing == [db |-> db, ok |-> TRUE, fresh |-> TRUE]
Onto(S, i, was) ==
  IF i \notin S THEN was
  ELSE [db |-> Redone(i, was.db),
        ok |-> was.ok /\ RedoAllowed(i, was.db),
        fresh |-> was.fresh /\ RedoFresh(i, was.db)]
Replaying(S, f) ==
  f = [i \in 0 .. Len(log) |-> IF i = 0 THEN Standing ELSE Onto(S, i, f[i - 1])]

(* A replay ends with what it has after the last row.                      *)
LEMMA ReplayUnfolds ==
    ASSUME LogSound, NEW S \in SUBSET Rows
    PROVE  \E upto \in [0 .. Len(log) -> Retraced] :
              /\ upto[0] = Standing /\ Replayed(S) = upto[Len(log)]
              /\ \A n \in 1 .. Len(log) : upto[n] = Onto(S, n, upto[n - 1])
<1> DEFINE N == Len(log)
<1> DEFINE V == Retraced
<1> DEFINE step == [p \in (1..N) \X V |-> Onto(S, p[1], p[2])]
<1>1. N \in Nat BY DEF LogSound
<1>2. Standing \in V BY DEF LogSound, Standing, Retraced
<1>3. ASSUME NEW n \in 1..N, NEW was \in V PROVE Onto(S, n, was) \in V
    <2>1. n \in Rows BY DEF Rows
    <2>2. was.db \in Tables(scope) /\ was.ok \in BOOLEAN /\ was.fresh \in BOOLEAN BY DEF Retraced
    <2>3. Redone(n, was.db) \in Tables(scope) BY <2>1, <2>2, RedoneIs
    <2>4. ASSUME NEW ok \in BOOLEAN, NEW fresh \in BOOLEAN
          PROVE  [db |-> Redone(n, was.db), ok |-> ok, fresh |-> fresh] \in V
        BY <2>3 DEF Retraced
    <2>5. (was.ok /\ RedoAllowed(n, was.db)) \in BOOLEAN
          /\ (was.fresh /\ RedoFresh(n, was.db)) \in BOOLEAN
        OBVIOUS
    <2> HIDE DEF V
    <2> QED BY <2>4, <2>5 DEF Onto
<1> HIDE DEF N, V
<1>4. step \in [(1..N) \X V -> V] BY <1>3
<1> HIDE DEF step
<1>5. PICK f \in [0..N -> V] : Unfolds(f, N, Standing, step)
    BY <1>1, <1>2, <1>4, RecursionExists
<1>6. f[0] = Standing /\ \A n \in 1..N : f[n] = Onto(S, n, f[n - 1])
    <2>1. ASSUME NEW n \in 1..N PROVE f[n] = Onto(S, n, f[n - 1])
        <3>1. n - 1 \in 0..N BY <1>1
        <3>2. f[n - 1] \in V BY <3>1
        <3>3. step[<<n, f[n - 1]>>] = Onto(S, n, f[n - 1]) BY <3>2 DEF step
        <3> QED BY <3>3, <1>5 DEF Unfolds
    <2> QED BY <2>1, <1>5 DEF Unfolds
<1>7. Replaying(S, f)
    <2>1. \A n \in 0..N : f[n] = IF n = 0 THEN Standing ELSE Onto(S, n, f[n - 1])
        BY <1>6, <1>1
    <2> QED BY <2>1 DEF Replaying, N
<1> DEFINE u == CHOOSE g : Replaying(S, g)
<1>8. Replaying(S, u) BY <1>7
<1>9. Replayed(S) = u[N] BY DEF Replayed, Replaying, Standing, Onto, N
<1> HIDE DEF u
<1>10. u[0] = Standing /\ \A n \in 1..N : u[n] = Onto(S, n, u[n - 1])
    BY <1>8, <1>1 DEF Replaying, N
<1>11. \A n \in 0..N : u[n] = f[n]
    <2> DEFINE T == {n \in Nat : n <= N => u[n] = f[n]}
    <2>1. 0 \in T BY <1>6, <1>10
    <2>2. ASSUME NEW n \in Nat, n \in T PROVE n + 1 \in T
        <3>1. SUFFICES ASSUME n + 1 <= N PROVE u[n + 1] = f[n + 1] OBVIOUS
        <3>2. n + 1 \in 1..N /\ (n + 1) - 1 = n BY <3>1
        <3>3. u[n] = f[n] BY <2>2, <3>1, <1>1
        <3> QED BY <3>2, <3>3, <1>6, <1>10
    <2> HIDE DEF T
    <2>3. Nat \subseteq T BY <2>1, <2>2, Induct
    <2> QED BY <2>3 DEF T
<1>12. u[N] = f[N] BY <1>11, <1>1
<1> QED BY <1>6, <1>9, <1>12 DEF N, V

(* A replay of undone rows that finds none stale gives each envelope what  *)
(* they had added.                                                         *)
LEMMA ReplayWorth ==
    ASSUME LogSound, NEW S \in SUBSET Rows, S \cap LiveOf(log) = {},
           NEW e \in scope.envelopes, db[e].assigned = WorthOf(log, e, LiveOf(log)),
           Replayed(S).fresh
    PROVE  Replayed(S).db[e].assigned = WorthOf(log, e, LiveOf(log) \cup S)
<1> DEFINE N == Len(log)
<1> DEFINE upTo(n) == LiveOf(log) \cup {k \in S : k <= n}
<1>1. N \in Nat /\ Priced(log, e) /\ e \notin Legs /\ S \subseteq 1..N
    BY PricedLog DEF LogSound, Rows
<1>2. PICK upto \in [0..N -> Retraced] :
              /\ upto[0] = Standing /\ Replayed(S) = upto[N]
              /\ \A n \in 1..N : upto[n] = Onto(S, n, upto[n - 1])
    BY ReplayUnfolds
<1> DEFINE T == {n \in Nat : n <= N /\ upto[n].fresh =>
                    upto[n].db[e].assigned = WorthOf(log, e, upTo(n))}
<1>3. 0 \in T
    <2>1. upto[0].db = db BY <1>2 DEF Standing
    <2>2. upTo(0) = LiveOf(log) BY <1>1
    <2> QED BY <2>1, <2>2
<1>4. ASSUME NEW n \in Nat, n \in T PROVE n + 1 \in T
    <2> DEFINE m == n + 1
    <2>1. SUFFICES ASSUME m <= N, upto[m].fresh
                   PROVE  upto[m].db[e].assigned = WorthOf(log, e, upTo(m))
        OBVIOUS
    <2>2. m \in 1..N /\ m - 1 = n /\ n <= N /\ n \in 0..N /\ m \in Rows /\ m \in Int
        BY <2>1, <1>1 DEF Rows
    <2>3. upto[m] = Onto(S, m, upto[n]) BY <1>2, <2>2
    <2>4. upto[n].db \in Tables(scope) BY <1>2, <2>2 DEF Retraced
    <2>5. CASE m \notin S
        <3>1. upto[m] = upto[n] BY <2>3, <2>5 DEF Onto
        <3>2. upTo(m) = upTo(n)
            <4>1. ASSUME NEW k \in S PROVE k <= m <=> k <= n
                <5>1. k # m /\ k \in Int BY <2>5, <1>1
                <5> QED BY <5>1
            <4> QED BY <4>1
        <3> QED BY <3>1, <3>2, <2>1, <2>2, <1>4
    <2>6. CASE m \in S
        <3>1. upto[m].db = Redone(m, upto[n].db) /\ upto[n].fresh /\ RedoFresh(m, upto[n].db)
            BY <2>1, <2>3, <2>6 DEF Onto
        <3>2. upto[n].db[e].assigned = WorthOf(log, e, upTo(n)) BY <3>1, <2>2, <1>4
        <3>3. m \in upTo(m) /\ upTo(m) \ {m} = upTo(n)
            <4>1. m \notin LiveOf(log) BY <2>6
            <4>2. \A k \in S : k <= m <=> k <= n \/ k = m BY <1>1
            <4>3. ~(m <= n) /\ m <= m OBVIOUS
            <4> QED BY <4>1, <4>2, <4>3, <2>6
        <3>9. PICK A, B : A = upTo(m) /\ B = upTo(n) OBVIOUS
        <3> DEFINE d == upto[n].db
        <3> HIDE DEF m, d, upTo
        <3>4. WorthOf(log, e, A \ {m})
                = WorthOf(log, e, A) - (IF log[m].entity = e THEN Gain(log[m]) ELSE 0)
            BY <1>1, <2>2, <3>3, <3>9, WorthDrop
        <3>5. WorthOf(log, e, A) \in Int /\ A \ {m} = B
            BY <1>1, <3>3, <3>9, WorthUnfolds DEF Priced
        <3>11. WorthOf(log, e, B)
                 = WorthOf(log, e, A) - (IF log[m].entity = e THEN Gain(log[m]) ELSE 0)
            BY <3>4, <3>5, Zenon
        <3>10. d \in Tables(scope) /\ RedoFresh(m, d) /\ upto[m].db = Redone(m, d)
               /\ d[e].assigned = WorthOf(log, e, B)
            BY <3>1, <3>2, <3>9, <2>4 DEF d
        <3>6. CASE log[m].entity = e
            <4>1. d[e].assigned = log[m].before.assigned /\ log[m].before.assigned \in Int
                  /\ log[m].after.assigned \in Int
                BY <3>10, <3>6, <2>2, <1>1, FreshFigure
            <4>2. Redone(m, d)[e] = log[m].after BY <3>10, <3>6, <2>2, <1>1, RedoneIs
            <4>3. WorthOf(log, e, A) = log[m].after.assigned
                BY <4>1, <3>5, <3>6, <3>10, <3>11 DEF Gain
            <4> QED BY <4>2, <4>3, <3>9, <3>10 DEF m
        <3>7. CASE log[m].entity # e
            <4>1. e \in Entities BY DEF Entities
            <4>2. Redone(m, d)[e] = d[e] BY <4>1, <3>10, <3>7, <2>2, RedoneIs
            <4>3. WorthOf(log, e, A) = WorthOf(log, e, B) BY <3>5, <3>7, <3>11
            <4> QED BY <4>2, <4>3, <3>9, <3>10 DEF m
        <3> QED BY <3>6, <3>7
    <2> QED BY <2>5, <2>6
<1> HIDE DEF T
<1>5. Nat \subseteq T BY <1>3, <1>4, Induct
<1>6. upto[N].db[e].assigned = WorthOf(log, e, upTo(N)) BY <1>1, <1>2, <1>5 DEF T
<1>7. upTo(N) = LiveOf(log) \cup S BY <1>1
<1> QED BY <1>2, <1>6, <1>7

(* The row undone last is one of those undone.                             *)
LEMMA CandidateIs ==
    ASSUME LogSound, Undoed # {}
    PROVE  Candidate \in Undoed
<1> DEFINE marks == {log[i].undone : i \in Undoed}
<1>1. Undoed \subseteq Rows BY DEF Undoed, Visible
<1>2. undoSeq \in Nat BY DEF LogSound
<1>3. \A i \in Undoed : log[i].undone \in 0 .. undoSeq
    <2>1. TAKE i \in Undoed
    <2>2. log[i].undone \in Nat /\ log[i].undone <= undoSeq
        BY <1>1, RowIs DEF LogSound, LogRecords
    <2> QED BY <2>2, <1>2
<1>4. marks \subseteq 0 .. undoSeq /\ marks # {} BY <1>3
<1> HIDE DEF marks
<1>5. IsFiniteSet(0 .. undoSeq) /\ 0 .. undoSeq \subseteq Int BY <1>2, FS_Interval
<1>6. IsFiniteSet(marks) /\ marks \in SUBSET Int BY <1>4, <1>5, FS_Subset
<1>7. \E x \in marks : \A y \in marks : y <= x BY <1>4, <1>6, GreatestLeast
<1>8. \E i \in Undoed : \A k \in Undoed : log[k].undone <= log[i].undone BY <1>7 DEF marks
<1> QED BY <1>8 DEF Candidate

(* redo_latest.                                                            *)
LEMMA RedoKeeps ==
    ASSUME LogKept, NEW force, RedoLatest(force)
    PROVE  LogKept'
<1>1. LogSound /\ Listed /\ log \in Seq(LogRecords) /\ Len(log) \in Nat BY DEF LogKept, LogSound
<1>2. PICK S, d, fresh : S = RedoRows /\ d = Replayed(S).db /\ fresh = Replayed(S).fresh OBVIOUS
<1>3. PICK back : back = {log[i].move : i \in S} \ {None} OBVIOUS
<1>4. /\ undos < MaxUndos /\ Undoed # {} /\ db' = d /\ moves' = moves \cup back
      /\ log' = [i \in Rows |-> IF i \in S THEN [log[i] EXCEPT !.undone = 0] ELSE log[i]]
      /\ undos' = undos + 1 /\ forced' = (forced \/ ~fresh)
      /\ UNCHANGED <<scope, syncing, inflight, undoSeq, batches, raced, torn>>
    BY <1>2, <1>3 DEF RedoLatest, Undoing
<1>5. Candidate \in Undoed BY <1>1, <1>4, CandidateIs
<1>6. S \in SUBSET Rows /\ S \cap LiveOf(log) = {}
    BY <1>2, <1>5 DEF RedoRows, BatchOf, Undoed, Visible, LiveOf, IsLive
<1>7. Replayed(S) \in Retraced
    <2>1. PICK upto \in [0 .. Len(log) -> Retraced] : Replayed(S) = upto[Len(log)]
        BY <1>1, <1>6, ReplayUnfolds
    <2>2. Len(log) \in 0 .. Len(log) BY <1>1
    <2> QED BY <2>1, <2>2
<1>8. d \in Tables(scope) /\ fresh \in BOOLEAN BY <1>2, <1>7 DEF Retraced
<1>9. ASSUME NEW i \in 1 .. Len(log)
      PROVE  /\ log'[i] \in LogRecords
             /\ log'[i].entity = log[i].entity /\ log'[i].action = log[i].action
             /\ log'[i].before = log[i].before /\ log'[i].after = log[i].after
             /\ log'[i].move = log[i].move /\ log'[i].batch = log[i].batch
             /\ i \in S => log'[i].undone = 0
             /\ i \notin S => log'[i] = log[i]
    <2>1. log[i] \in LogRecords /\ i \in Rows BY <1>1 DEF Rows
    <2>2. CASE i \in S
        <3>1. log'[i] = [log[i] EXCEPT !.undone = 0] BY <1>4, <2>1, <2>2
        <3>2. 0 \in Nat OBVIOUS
        <3> QED BY <2>1, <2>2, <3>1, <3>2 DEF LogRecords
    <2>3. CASE i \notin S BY <1>4, <2>1, <2>3
    <2> QED BY <2>2, <2>3
<1>10. log' \in Seq(LogRecords) /\ Len(log') = Len(log)
    <2>1. log' = [i \in 1 .. Len(log) |-> log'[i]] BY <1>4 DEF Rows
    <2>2. log' \in [1 .. Len(log) -> LogRecords] BY <2>1, <1>9
    <2>3. log' \in Seq(LogRecords) BY <2>2, <1>1
    <2> QED BY <2>2, <2>3, <1>1, LenProperties
<1>11. SameButMarks(log, log') BY <1>9, <1>10 DEF SameButMarks
<1>12. PICK T : T = LiveOf(log) \cup S OBVIOUS
<1>13. LiveOf(log') = T
    <2>1. \A i \in 1 .. Len(log) : log'[i].undone = 0 <=> i \in S \/ log[i].undone = 0 BY <1>9
    <2>2. LiveOf(log') = {i \in 1 .. Len(log) : log'[i].undone = 0} BY <1>10 DEF LiveOf
    <2>3. S \subseteq 1 .. Len(log) BY <1>6 DEF Rows
    <2> QED BY <2>1, <2>2, <2>3, <1>12 DEF LiveOf
<1>14. \A i \in Rows : log'[i].undone <= undoSeq'
    <2>1. TAKE i \in Rows
    <2>2. i \in 1 .. Len(log) /\ log[i].undone <= undoSeq /\ undoSeq \in Nat /\ undoSeq' = undoSeq
        BY <1>1, <1>4 DEF LogSound, Rows
    <2>3. i \in S => log'[i].undone = 0 BY <1>9, <2>2
    <2>4. i \notin S => log'[i] = log[i] BY <1>9, <2>2
    <2> QED BY <2>2, <2>3, <2>4
<1>15. moves' \subseteq 1 .. batches
    <2>1. moves \subseteq 1 .. batches BY <1>1 DEF LogSound
    <2>2. \A i \in S : log[i].move # None => log[i].move \in 1 .. batches
        BY <1>1, <1>6, RowIs DEF Sound
    <2> QED BY <2>1, <2>2, <1>3, <1>4
<1>16. undos' \in 0 .. MaxUndos
    <2>1. undos \in 0 .. MaxUndos /\ MaxUndos \in Nat BY <1>1, BoundsAssumption DEF LogSound
    <2> QED BY <2>1, <1>4
<1>17. ASSUME ~raced, NEW i \in Rows, log[i].move # None
       PROVE  i \in T <=> log[i].move \in moves'
    <2>1. i \in LiveOf(log) <=> log[i].move \in moves
        BY <1>1, <1>17 DEF Listed, LiveOf, IsLive, Rows
    <2>2. i \in S => log[i].move \in back BY <1>3, <1>17
    <2>3. ASSUME log[i].move \in back, i \notin LiveOf(log) PROVE i \in S
        <3>1. PICK k \in S : log[k].move = log[i].move BY <1>3, <2>3
        <3>2. CASE k = i BY <3>1, <3>2
        <3>3. CASE k # i
            <4>1. k \in Rows /\ MovesWhole(log) BY <1>1, <1>6 DEF LogSound
            <4>2. log[i].batch = log[k].batch BY <3>1, <3>3, <1>17, <4>1 DEF MovesWhole, Twins, Rows
            <4>3. log[k].batch # None BY <3>1, <1>1, <1>17, <4>1, RowIs DEF Sound
            <4>4. k \in BatchOf(Candidate) BY <1>2 DEF RedoRows
            <4>5. log[Candidate].batch # None
                  /\ k \in Visible /\ log[k].batch = log[Candidate].batch
                BY <4>3, <4>4 DEF BatchOf
            <4>6. i \in Visible BY <4>2, <4>5, <1>17 DEF Visible
            <4>7. i \in BatchOf(Candidate) BY <4>2, <4>5, <4>6 DEF BatchOf
            <4>8. ~IsLive(i) BY <2>3, <1>17 DEF LiveOf, IsLive, Rows
            <4> QED BY <4>7, <4>8, <1>2 DEF RedoRows
        <3> QED BY <3>2, <3>3
    <2> QED BY <2>1, <2>2, <2>3, <1>4, <1>12
<1>18. ASSUME ~raced', ~forced', NEW e \in scope.envelopes
       PROVE  d[e].assigned = WorthOf(log, e, T)
    <2>1. db[e].assigned = WorthOf(log, e, LiveOf(log))
        BY <1>4, <1>18 DEF LogKept, AssignedIsReplay, Replay, LiveOf, Rows, IsLive
    <2>2. Replayed(S).fresh BY <1>2, <1>4, <1>18
    <2>3. Replayed(S).db[e].assigned = WorthOf(log, e, LiveOf(log) \cup S)
        BY <1>1, <1>6, <2>1, <2>2, ReplayWorth
    <2> QED BY <2>3, <1>2, <1>12
<1>19. /\ raced' \in BOOLEAN /\ forced' \in BOOLEAN /\ torn' \in BOOLEAN /\ undoSeq' \in Nat
       /\ (raced => raced') /\ (forced => forced') /\ inflight' = inflight
    BY <1>1, <1>4, <1>8 DEF LogSound
<1>20. ~raced' => \A i \in Rows : log[i].move # None => (i \in T <=> log[i].move \in moves')
    BY <1>17, <1>4
<1>21. ~raced' /\ ~forced' => \A e \in scope.envelopes : d[e].assigned = WorthOf(log, e, T)
    BY <1>18
<1> QED BY <1>4, <1>8, <1>11, <1>13, <1>14, <1>15, <1>16, <1>19, <1>20, <1>21, MarksKeep

-----------------------------------------------------------------------------
(* A log that grows.                                                       *)

(* The log after it grew, row by row.                                      *)
LEMMA GrownIs ==
    ASSUME LogSound, NEW new \in Seq(LogRecords), log' = log \o new,
           \A k \in 1 .. Len(new) : new[k].undone = 0
    PROVE  /\ Len(log) \in Nat /\ Len(new) \in Nat /\ log' \in Seq(LogRecords)
           /\ Len(log') = Len(log) + Len(new) /\ Rows \subseteq Rows'
           /\ \A i \in Rows : log'[i] = log[i]
           /\ \A i \in Rows' \ Rows :
                /\ i - Len(log) \in 1 .. Len(new) /\ i \in Int
                /\ log'[i] = new[i - Len(log)]
           /\ LiveOf(log') = LiveOf(log) \cup (Rows' \ Rows)
<1>1. log \in Seq(LogRecords) BY DEF LogSound
<1>2. /\ Len(log) \in Nat /\ Len(new) \in Nat /\ log' \in Seq(LogRecords)
      /\ Len(log') = Len(log) + Len(new)
    BY <1>1, ConcatProperties, LenProperties
<1>3. Rows \subseteq Rows' BY <1>2 DEF Rows
<1>4. \A i \in Rows : log'[i] = log[i] BY <1>1, <1>2, ConcatProperties DEF Rows
<1>5. ASSUME NEW i \in Rows' \ Rows
      PROVE  /\ i - Len(log) \in 1 .. Len(new) /\ i \in Int
             /\ log'[i] = new[i - Len(log)]
    <2>1. i \in 1 .. Len(log) + Len(new) /\ ~(i <= Len(log)) BY <1>2 DEF Rows
    <2>2. log'[i] = new[i - Len(log)] BY <2>1, <1>1, <1>2, ConcatProperties
    <2> QED BY <2>1, <2>2, <1>2
<1>6. LiveOf(log') = LiveOf(log) \cup (Rows' \ Rows)
    <2>1. LiveOf(log') = {i \in Rows' : log'[i].undone = 0} BY DEF LiveOf, Rows
    <2>2. LiveOf(log) = {i \in Rows : log[i].undone = 0} BY DEF LiveOf, Rows
    <2>3. \A i \in Rows' \ Rows : log'[i].undone = 0 BY <1>5
    <2> QED BY <2>1, <2>2, <2>3, <1>3, <1>4
<1> QED BY <1>2, <1>3, <1>4, <1>5, <1>6

\* What may be appended to the log of a budget whose ids reach top: rows in
\* which moves are whole and new, and whose batches are new or of the sync.
Appendable(new, sc, old, top, sync) ==
  /\ new \in Seq(LogRecords)
  /\ \A k \in 1 .. Len(new) :
       /\ Sound(new[k], sc, top) /\ new[k].undone = 0
       /\ new[k].move # None => new[k].move \notin 1 .. old
       /\ new[k].batch # None =>
            \/ new[k].batch \notin 1 .. old
            \/ new[k].batch = sync /\ new[k].entity \in Legs
  /\ MovesWhole(new) /\ BatchesPure(new)

(* Rows appended: the shape of the log.                                    *)
LEMMA GrownSound ==
    ASSUME LogSound, NEW new, Appendable(new, scope, batches, batches', syncing),
           log' = log \o new, batches' \in Nat, batches <= batches'
    PROVE  /\ \A i \in Rows' : Sound(log'[i], scope, batches') /\ log'[i].undone <= undoSeq
           /\ MovesWhole(log') /\ BatchesPure(log')
<1> DEFINE N == Len(log)
<1> DEFINE Old(i) == i \in Rows /\ log'[i] = log[i]
<1> DEFINE Late(i) == /\ i - N \in 1 .. Len(new) /\ i \in Int
                      /\ log'[i] = new[i - N]
<1>1. new \in Seq(LogRecords) /\ \A k \in 1 .. Len(new) : new[k].undone = 0
    BY DEF Appendable
<1>2. /\ N \in Nat /\ Len(new) \in Nat /\ Len(log') = N + Len(new) /\ Rows \subseteq Rows'
      /\ \A i \in Rows' : Old(i) \/ Late(i)
    BY <1>1, GrownIs
<1>3. Rows = 1 .. N /\ Rows' = 1 .. Len(log') /\ Rows \subseteq Int BY <1>2 DEF Rows
<1>4. ASSUME NEW i, Old(i)
      PROVE  /\ Sound(log'[i], scope, batches') /\ log'[i].undone <= undoSeq
             /\ log'[i].batch # None => log'[i].batch \in 1 .. batches
             /\ log'[i].move # None => log'[i].move \in 1 .. batches
    <2>1. Sound(log[i], scope, batches) /\ log[i].undone <= undoSeq /\ batches \in Nat
        BY <1>4 DEF LogSound
    <2>2. Sound(log[i], scope, batches')
        <3>1. 1 .. batches \subseteq 1 .. batches' BY <2>1
        <3> QED BY <2>1, <3>1 DEF Sound
    <2> QED BY <2>1, <2>2, <1>4 DEF Sound
<1>5. ASSUME NEW i, Late(i)
      PROVE  /\ Sound(log'[i], scope, batches') /\ log'[i].undone <= undoSeq
             /\ log'[i].move # None => log'[i].move \notin 1 .. batches
             /\ log'[i].batch # None =>
                  \/ log'[i].batch \notin 1 .. batches
                  \/ log'[i].batch = syncing /\ log'[i].entity \in Legs
    <2>1. undoSeq \in Nat BY DEF LogSound
    <2> QED BY <2>1, <1>5 DEF Appendable
<1>6. \A i \in Rows' : Sound(log'[i], scope, batches') /\ log'[i].undone <= undoSeq
    BY <1>2, <1>4, <1>5
<1>7. MovesWhole(log')
    <2>1. SUFFICES ASSUME NEW i \in Rows', NEW k \in Rows', log'[i].move # None,
                          log'[k].move = log'[i].move, i # k
                   PROVE  Twins(log', i, k)
        BY <1>3 DEF MovesWhole
    <2>2. CASE Old(i) /\ Old(k)
        <3>1. Twins(log, i, k) BY <2>1, <2>2, <1>3 DEF LogSound, MovesWhole
        <3> QED BY <3>1, <2>2 DEF Twins
    <2>3. CASE Late(i) /\ Late(k)
        <3>1. i - N # k - N BY <2>1, <2>3, <1>2
        <3>2. Twins(new, i - N, k - N) BY <2>1, <2>3, <3>1 DEF Appendable, MovesWhole
        <3>3. k = i + 1 \/ i = k + 1
            <4>1. k - N = i - N + 1 \/ i - N = k - N + 1 BY <3>2 DEF Twins
            <4> QED BY <4>1, <2>3, <1>2
        <3> QED BY <3>2, <3>3, <2>3 DEF Twins
    <2>4. CASE Old(i) /\ Late(k) BY <2>1, <2>4, <1>4, <1>5
    <2>5. CASE Late(i) /\ Old(k) BY <2>1, <2>5, <1>4, <1>5
    <2> QED BY <2>2, <2>3, <2>4, <2>5, <1>2
<1>8. BatchesPure(log')
    <2>1. SUFFICES ASSUME NEW i \in Rows', NEW k \in Rows', log'[i].batch # None,
                          log'[k].batch = log'[i].batch
                   PROVE  log'[i].move = None <=> log'[k].move = None
        BY <1>3 DEF BatchesPure
    <2>2. CASE Old(i) /\ Old(k) BY <2>1, <2>2, <1>3 DEF LogSound, BatchesPure
    <2>3. CASE Late(i) /\ Late(k) BY <2>1, <2>3 DEF Appendable, BatchesPure
    <2>4. ASSUME NEW x, NEW y, Old(x), Late(y), log'[x].batch = log'[y].batch, log'[y].batch # None
          PROVE  log'[x].move = None /\ log'[y].move = None
        <3>1. log'[y].batch = syncing /\ log'[y].entity \in Legs /\ syncing # None
            BY <2>4, <1>4, <1>5
        <3>2. log'[x].entity \in Legs BY <3>1, <2>4, <1>3 DEF LogSound, SyncApart
        <3> QED BY <3>1, <3>2, <2>4, <1>4, <1>5 DEF Sound
    <2>5. CASE Old(i) /\ Late(k) BY <2>1, <2>4, <2>5
    <2>6. CASE Late(i) /\ Old(k) BY <2>1, <2>4, <2>6
    <2> QED BY <2>2, <2>3, <2>5, <2>6, <1>2
<1> QED BY <1>6, <1>7, <1>8

(* Rows appended.                                                          *)
LEMMA GrowKeeps ==
    ASSUME LogKept, NEW new, Appendable(new, scope, batches, batches', syncing),
           Len(log) + Len(new) <= scope.rows,
           log' = log \o new, NEW d \in Tables(scope), db' = d,
           batches' \in Nat, batches <= batches',
           UNCHANGED <<scope, undoSeq, undos, forced, torn>>, inflight' \in {inflight, Idle},
           raced' \in BOOLEAN, raced => raced',
           syncing' \in {None} \cup 1 .. batches', SyncApart(log', syncing'),
           moves \subseteq moves', moves' \subseteq 1 .. batches', moves' \cap 1 .. batches = moves,
           \A k \in 1 .. Len(new) : new[k].move # None => new[k].move \in moves',
           ~raced' /\ ~forced' =>
              \A e \in scope.envelopes : d[e].assigned = WorthOf(log', e, LiveOf(log'))
    PROVE  LogKept'
<1>1. LogSound /\ Listed /\ new \in Seq(LogRecords) /\ \A k \in 1 .. Len(new) : new[k].undone = 0
    BY DEF LogKept, Appendable
<1>2. /\ Len(log) \in Nat /\ Len(new) \in Nat /\ log' \in Seq(LogRecords)
      /\ Len(log') = Len(log) + Len(new) /\ Rows \subseteq Rows'
      /\ \A i \in Rows : log'[i] = log[i]
      /\ \A i \in Rows' \ Rows :
           /\ i - Len(log) \in 1 .. Len(new) /\ i \in Int
           /\ log'[i] = new[i - Len(log)]
      /\ LiveOf(log') = LiveOf(log) \cup (Rows' \ Rows)
    BY <1>1, GrownIs
<1>3. /\ \A i \in Rows' : Sound(log'[i], scope, batches') /\ log'[i].undone <= undoSeq
      /\ MovesWhole(log') /\ BatchesPure(log')
    BY <1>1, GrownSound
<1>4. LogSound'
    <2>1. scope' \in Scopes /\ db' \in Tables(scope') /\ Len(log') <= scope'.rows
        BY <1>1, <1>2 DEF LogSound
    <2>2. \A i \in Rows' : Sound(log'[i], scope', batches') /\ log'[i].undone <= undoSeq' BY <1>3
    <2>3. undos' \in 0 .. MaxUndos /\ undoSeq' \in Nat /\ forced' \in BOOLEAN /\ torn' \in BOOLEAN
        BY <1>1 DEF LogSound
    <2> QED BY <2>1, <2>2, <2>3, <1>2, <1>3 DEF LogSound
<1>5. \A i \in Rows' \ Rows : log'[i].move \notin 1 .. batches
    <2>1. TAKE i \in Rows' \ Rows
    <2>2. i - Len(log) \in 1 .. Len(new) /\ log'[i] = new[i - Len(log)] BY <1>2
    <2>3. batches \in Nat /\ None \notin Int BY <1>1, NoneAssumption DEF LogSound
    <2>4. log'[i].move = None => log'[i].move \notin 1 .. batches BY <2>3
    <2> QED BY <2>2, <2>4 DEF Appendable
<1>6. InFlight' BY <1>2, <1>5, InFlightKept
<1>7. Listed'
    <2>1. SUFFICES ASSUME ~raced', NEW i \in Rows', log'[i].move # None
                   PROVE  IsLive(i)' <=> log'[i].move \in moves'
        BY DEF Listed
    <2>2. CASE i \in Rows
        <3>1. log'[i] = log[i] /\ (IsLive(i) <=> log[i].move \in moves)
            BY <2>1, <2>2, <1>1, <1>2 DEF Listed
        <3>2. log[i].move \in 1 .. batches BY <2>1, <2>2, <3>1, <1>1, RowIs DEF Sound
        <3>3. log[i].move \in moves <=> log[i].move \in moves' BY <3>2
        <3> QED BY <3>1, <3>3 DEF IsLive
    <2>3. CASE i \notin Rows
        <3>1. i - Len(log) \in 1 .. Len(new) /\ log'[i] = new[i - Len(log)] BY <1>2, <2>3
        <3>2. log'[i].undone = 0 /\ log'[i].move \in moves' BY <3>1, <2>1, <1>1
        <3> QED BY <3>2 DEF IsLive
    <2> QED BY <2>2, <2>3
<1>8. AssignedIsReplay'
    <2>1. SUFFICES ASSUME ~raced', ~forced', NEW e \in scope.envelopes
                   PROVE  db'[e].assigned = Replay(e)'
        BY DEF AssignedIsReplay
    <2>2. {i \in Rows' : IsLive(i)'} = LiveOf(log') BY DEF LiveOf, IsLive, Rows
    <2>3. Replay(e)' = WorthOf(log', e, LiveOf(log')) BY <2>2 DEF Replay
    <2> QED BY <2>1, <2>3
<1> QED BY <1>4, <1>6, <1>7, <1>8 DEF LogKept

-----------------------------------------------------------------------------
(* The bank's rows.                                                        *)

\* A row about a leg, in a batch that is new or the sync's.
BankRow(r) ==
  /\ r \in LogRecords /\ r.entity \in scope.legs /\ r.move = None /\ r.undone = 0
  /\ r.before \in Transaction /\ r.after \in Transaction
  /\ r.batch # None /\ (r.batch \notin 1 .. batches \/ r.batch = syncing)

(* A row about a leg, as it is written.                                    *)
LEMMA BankRowIs ==
    ASSUME LogSound, NEW l \in scope.legs, NEW action \in Actions,
           NEW before \in Transaction, NEW after \in Transaction,
           NEW batch \in Nat, batch \notin 1 .. batches \/ batch = syncing, NEW source \in Source
    PROVE  /\ BankRow(LogRow(l, action, before, after, None, batch, source))
           /\ LogRow(l, action, before, after, None, batch, source).batch = batch
<1> DEFINE r == LogRow(l, action, before, after, None, batch, source)
<1>1. scope \in Scopes /\ scope.legs \subseteq Legs BY ScopesAssumption DEF LogSound
<1>2. l \in Names BY <1>1 DEF Names
<1>3. batch # None
    <2>1. None \notin Int BY NoneAssumption
    <2>2. batch \in Int OBVIOUS
    <2> QED BY <2>1, <2>2
<1>4. r \in LogRecords BY <1>2 DEF LogRecords, LogRow
<1> QED BY <1>3, <1>4 DEF BankRow, LogRow

(* Rows about legs leave the envelopes alone.                              *)
LEMMA LegsGrow ==
    ASSUME LogKept, NEW new \in Seq(LogRecords),
           \A k \in 1 .. Len(new) : BankRow(new[k]) /\ new[k].batch \in 1 .. batches',
           Len(log) + Len(new) <= scope.rows,
           log' = log \o new, NEW d \in Tables(scope), db' = d,
           \A e \in scope.envelopes : d[e] = db[e],
           batches' \in Nat, batches <= batches',
           UNCHANGED <<scope, moves, inflight, undoSeq, undos, raced, forced, torn>>,
           syncing' \in {None} \cup 1 .. batches', SyncApart(log', syncing')
    PROVE  LogKept'
<1>1. LogSound /\ Len(new) \in Nat BY LenProperties DEF LogKept
<1>2. scope.legs \subseteq Legs BY <1>1, ScopesAssumption DEF LogSound
<1>3. Appendable(new, scope, batches, batches', syncing)
    <2>1. ASSUME NEW k \in 1 .. Len(new)
          PROVE  /\ Sound(new[k], scope, batches') /\ new[k].undone = 0 /\ new[k].move = None
                 /\ \/ new[k].batch \notin 1 .. batches
                    \/ new[k].batch = syncing /\ new[k].entity \in Legs
        BY <1>2 DEF BankRow, Sound, Kind
    <2>2. MovesWhole(new) /\ BatchesPure(new) BY <2>1 DEF MovesWhole, BatchesPure
    <2> QED BY <2>1, <2>2 DEF Appendable
<1>4. /\ Len(log) \in Nat /\ Len(log') = Len(log) + Len(new) /\ Rows \subseteq Rows'
      /\ \A i \in Rows : log'[i] = log[i]
      /\ \A i \in Rows' \ Rows :
           /\ i - Len(log) \in 1 .. Len(new) /\ i \in Int
           /\ log'[i] = new[i - Len(log)]
      /\ LiveOf(log') = LiveOf(log) \cup (Rows' \ Rows)
    <2>1. \A k \in 1 .. Len(new) : new[k].undone = 0 BY DEF BankRow
    <2> QED BY <1>1, <2>1, GrownIs
<1>5. ASSUME ~raced, ~forced, NEW e \in scope.envelopes
      PROVE  d[e].assigned = WorthOf(log', e, LiveOf(log'))
    <2>1. db[e].assigned = WorthOf(log, e, LiveOf(log))
        BY <1>5 DEF LogKept, AssignedIsReplay, Replay, LiveOf, Rows, IsLive
    <2>2. Priced(log, e) /\ e \notin Legs BY <1>1, PricedLog
    <2>3. \A i \in Rows' \ Rows : log'[i].entity # e
        <3>1. TAKE i \in Rows' \ Rows
        <3>2. i - Len(log) \in 1 .. Len(new) /\ log'[i] = new[i - Len(log)] BY <1>4
        <3>3. new[i - Len(log)].entity \in scope.legs BY <3>2 DEF BankRow
        <3> QED BY <3>2, <3>3, <1>2, <2>2
    <2>4. Rows = 1 .. Len(log) /\ Rows' = 1 .. Len(log') BY DEF Rows
    <2>5. Priced(log', e) /\ Len(log) <= Len(log')
        <3>1. \A i \in 1 .. Len(log') : log'[i].entity = e => i \in Rows /\ log'[i] = log[i]
            BY <2>3, <2>4, <1>4
        <3> QED BY <3>1, <2>2, <2>4, <1>1, <1>4 DEF Priced
    <2>6. \A n \in 1 .. Len(log') :
             Share(log', e, LiveOf(log'), n) = Share(log, e, LiveOf(log), n)
        <3>1. TAKE n \in 1 .. Len(log')
        <3>2. CASE n \in Rows
            <4>1. n \in 1 .. Len(log) /\ log'[n] = log[n] BY <3>2, <2>4, <1>4
            <4>2. n \in LiveOf(log') <=> n \in LiveOf(log) BY <3>2, <1>4
            <4> QED BY <4>1, <4>2 DEF Share
        <3>3. CASE n \notin Rows
            <4>1. log'[n].entity # e /\ n \notin 1 .. Len(log) BY <3>3, <2>3, <2>4
            <4> QED BY <4>1 DEF Share
        <3> QED BY <3>2, <3>3
    <2>7. PICK L, M, S, T : L = log /\ M = log' /\ S = LiveOf(log) /\ T = LiveOf(log') OBVIOUS
    <2>8. /\ Priced(L, e) /\ Priced(M, e) /\ Len(L) <= Len(M)
          /\ \A n \in 1 .. Len(M) : Share(M, e, T, n) = Share(L, e, S, n)
        BY <2>2, <2>5, <2>6, <2>7
    <2>9. WorthOf(M, e, T) = WorthOf(L, e, S) BY <2>8, WorthSame
    <2> QED BY <2>1, <2>7, <2>9
<1>6. /\ raced' \in BOOLEAN /\ (raced => raced') /\ inflight' \in {inflight, Idle}
      /\ moves \subseteq moves' /\ moves' \subseteq 1 .. batches' /\ moves' \cap 1 .. batches = moves
    <2>1. moves \subseteq 1 .. batches /\ raced \in BOOLEAN /\ batches \in Nat BY <1>1 DEF LogSound
    <2>2. 1 .. batches \subseteq 1 .. batches' BY <2>1
    <2>3. moves' = moves /\ raced' = raced /\ inflight' = inflight OBVIOUS
    <2>7. raced' \in BOOLEAN BY <2>1, <2>3
    <2>4. raced => raced' BY <2>3, SMT
    <2>5. moves \subseteq moves' /\ moves' \subseteq 1 .. batches' BY <2>1, <2>2, <2>3, Zenon
    <2>6. moves' \cap 1 .. batches = moves BY <2>1, <2>3, Zenon
    <2> QED BY <2>3, <2>4, <2>5, <2>6, <2>7, Zenon
<1>7. \A k \in 1 .. Len(new) : new[k].move # None => new[k].move \in moves' BY DEF BankRow
<1>8. ~raced' /\ ~forced' =>
              \A e \in scope.envelopes : d[e].assigned = WorthOf(log', e, LiveOf(log'))
    BY <1>5
<1> QED BY <1>3, <1>6, <1>7, <1>8, GrowKeeps

(* Every leg of the pair becomes what now says.                            *)
LEMMA WritePairKeeps ==
    ASSUME LogKept, syncing = None, NEW pair \in Seq(scope.legs), NEW action \in Actions,
           NEW now, \A l \in RangeOf(pair) : now[l] \in Transaction,
           Room(Len(pair)),
           log' = log \o [k \in DOMAIN pair |->
                            LogRow(pair[k], action, db[pair[k]], now[pair[k]], None,
                                   FreshBatch, "manual")],
           db' = [e \in DOMAIN db |-> IF e \in RangeOf(pair) THEN now[e] ELSE db[e]],
           batches' = batches + 1,
           UNCHANGED <<scope, moves, syncing, inflight, undoSeq, undos, raced, forced, torn>>
    PROVE  LogKept'
<1>1. LogSound BY DEF LogKept
<1>2. PICK new : new = [k \in DOMAIN pair |->
                            LogRow(pair[k], action, db[pair[k]], now[pair[k]], None,
                                   FreshBatch, "manual")]
    OBVIOUS
<1>3. PICK d : d = [e \in DOMAIN db |-> IF e \in RangeOf(pair) THEN now[e] ELSE db[e]] OBVIOUS
<1>4. /\ scope.legs \subseteq Legs /\ scope.envelopes \cap Legs = {}
      /\ batches \in Nat /\ db \in [Entities -> Transaction \cup Assignment]
      /\ \A e \in Entities : db[e] \in Kind(scope, e)
    BY <1>1, ScopesAssumption DEF LogSound, Tables, Entities
<1>5. DOMAIN pair = 1 .. Len(pair) /\ Len(pair) \in Nat /\ RangeOf(pair) \subseteq scope.legs
    BY LenProperties DEF RangeOf
<1>6. d \in Tables(scope) /\ \A e \in scope.envelopes : d[e] = db[e]
    <2>1. \A e \in Entities : d[e] = IF e \in RangeOf(pair) THEN now[e] ELSE db[e] BY <1>3, <1>4
    <2>2. \A e \in Entities : d[e] \in Kind(scope, e) BY <2>1, <1>4, <1>5 DEF Kind
    <2>3. d \in [Entities -> Transaction \cup Assignment] BY <2>2, <1>3, <1>4 DEF Kind
    <2>4. \A e \in scope.envelopes : d[e] = db[e] BY <2>1, <1>4, <1>5 DEF Entities
    <2> QED BY <2>2, <2>3, <2>4 DEF Tables, Entities
<1>7. ASSUME NEW k \in 1 .. Len(pair) PROVE BankRow(new[k]) /\ new[k].batch \in 1 .. batches + 1
    <2>1. pair[k] \in scope.legs /\ now[pair[k]] \in Transaction /\ db[pair[k]] \in Transaction
        BY <1>4, <1>5 DEF RangeOf, Entities, Kind
    <2>2. PICK batch : batch = FreshBatch OBVIOUS
    <2>3. batch \in Nat /\ batch \notin 1 .. batches /\ batch \in 1 .. batches + 1
        BY <2>2, <1>4 DEF FreshBatch
    <2>4. "manual" \in Source BY DEF Source
    <2>5. new[k] = LogRow(pair[k], action, db[pair[k]], now[pair[k]], None, batch, "manual")
        BY <1>2, <1>5, <2>2
    <2> QED BY <1>1, <2>1, <2>3, <2>4, <2>5, BankRowIs
<1>8. new \in Seq(LogRecords) /\ Len(new) = Len(pair)
    <2>1. new \in [1 .. Len(pair) -> LogRecords]
        <3>1. new = [k \in 1 .. Len(pair) |-> new[k]] BY <1>2, <1>5
        <3> QED BY <3>1, <1>7 DEF BankRow
    <2>2. new \in Seq(LogRecords) BY <2>1, <1>5
    <2> QED BY <2>1, <2>2, <1>5, LenProperties
<1>9. Len(log) + Len(new) <= scope.rows BY <1>8 DEF Room
<1>10. /\ syncing' \in {None} \cup 1 .. batches' /\ SyncApart(log', syncing')
       /\ batches' \in Nat /\ batches <= batches'
    BY <1>4 DEF SyncApart
<1>11. \A k \in 1 .. Len(new) : BankRow(new[k]) /\ new[k].batch \in 1 .. batches' BY <1>7, <1>8
<1> QED BY <1>2, <1>3, <1>6, <1>8, <1>9, <1>10, <1>11, LegsGrow

(* Sequences of one and of two.                                            *)
LEMMA ShortSequences ==
    ASSUME NEW X, NEW x \in X, NEW y \in X
    PROVE  /\ <<x>> \in Seq(X) /\ Len(<<x>>) = 1 /\ <<x>>[1] = x
           /\ <<x, y>> \in Seq(X) /\ Len(<<x, y>>) = 2 /\ <<x, y>>[1] = x /\ <<x, y>>[2] = y
OBVIOUS

(* What a person may edit.                                                 *)
LEMMA EditedRow ==
    ASSUME LogKept, NEW l \in scope.legs, MayEdit(l)
    PROVE  /\ syncing = None /\ db[l] \in Transaction
           /\ <<l>> \in Seq(scope.legs) /\ RangeOf(<<l>>) = {l}
           /\ Pair(l) \in Seq(scope.legs) /\ RangeOf(Pair(l)) \subseteq scope.legs
           /\ \A m \in RangeOf(Pair(l)) : db[m] \in Transaction
<1>1. LogSound BY DEF LogKept
<1>2. /\ scope.legs \subseteq Legs /\ scope.envelopes \cap Legs = {}
      /\ DOMAIN db = Entities /\ \A e \in Entities : db[e] \in Kind(scope, e)
    BY <1>1, ScopesAssumption DEF LogSound, Tables, Entities
<1>3. \A m \in scope.legs : db[m] \in Transaction BY <1>2 DEF Entities, Kind
<1>4. Partner(l) \in Legs
    <2>1. "out" # "in" OBVIOUS
    <2>2. \E m \in Legs : m # l BY <2>1 DEF Legs
    <2> QED BY <2>2 DEF Partner
<1>5. RangeOf(<<l>>) = {l} BY DEF RangeOf
<1>6. Pair(l) \in Seq(scope.legs) /\ RangeOf(Pair(l)) \subseteq scope.legs
    <2>1. CASE db[l].linked /\ Partner(l) \in DOMAIN db /\ db[Partner(l)].live
        <3>1. Partner(l) \in scope.legs BY <2>1, <1>2, <1>4 DEF Entities
        <3>2. Pair(l) = <<Partner(l), l>> BY <2>1 DEF Pair
        <3>3. <<Partner(l), l>> \in Seq(scope.legs) BY <3>1, ShortSequences
        <3>4. RangeOf(<<Partner(l), l>>) = {Partner(l), l} BY DEF RangeOf
        <3> QED BY <3>1, <3>2, <3>3, <3>4
    <2>2. CASE ~(db[l].linked /\ Partner(l) \in DOMAIN db /\ db[Partner(l)].live)
        BY <2>2, <1>5, ShortSequences DEF Pair
    <2> QED BY <2>1, <2>2
<1>7. <<l>> \in Seq(scope.legs) BY ShortSequences
<1>8. \A m \in RangeOf(Pair(l)) : db[m] \in Transaction BY <1>3, <1>6
<1>9. syncing = None BY DEF MayEdit
<1> QED BY <1>3, <1>5, <1>6, <1>7, <1>8, <1>9

(* One row, or the rows of a pair, rewritten.                              *)
LEMMA EditKeeps ==
    ASSUME LogKept, NEW l \in scope.legs,
           EditMemo(l) \/ EditAmount(l) \/ ToggleCleared(l) \/ Delete(l) \/ Unreconcile(l) \/ Finish(l)
    PROVE  LogKept'
<1>1. MayEdit(l) BY DEF EditMemo, EditAmount, ToggleCleared, Delete, Unreconcile, Finish
<1>2. /\ syncing = None /\ db[l] \in Transaction
      /\ <<l>> \in Seq(scope.legs) /\ RangeOf(<<l>>) = {l}
      /\ Pair(l) \in Seq(scope.legs) /\ RangeOf(Pair(l)) \subseteq scope.legs
      /\ \A m \in RangeOf(Pair(l)) : db[m] \in Transaction
    BY <1>1, EditedRow
<1>3. ASSUME NEW pair, pair \in Seq(scope.legs), NEW action \in Actions, NEW now,
             \A m \in RangeOf(pair) : now[m] \in Transaction,
             Room(Len(pair)),
             log' = log \o [k \in DOMAIN pair |->
                              LogRow(pair[k], action, db[pair[k]], now[pair[k]], None,
                                     FreshBatch, "manual")],
             db' = [e \in DOMAIN db |-> IF e \in RangeOf(pair) THEN now[e] ELSE db[e]],
             batches' = batches + 1, Edited
      PROVE  LogKept'
    BY <1>2, <1>3, WritePairKeeps DEF Edited
<1>4. CASE EditMemo(l)
    <2>1. PICK now : now = [m \in {l} |-> [db[m] EXCEPT !.memo = 1 - @]] OBVIOUS
    <2>2. \A m \in {l} : now[m] \in Transaction BY <2>1, <1>2 DEF Transaction
    <2>3. PICK pair : pair = <<l>> OBVIOUS
    <2> QED BY <1>2, <1>3, <1>4, <2>1, <2>2, <2>3 DEF EditMemo, WritePair, Actions
<1>5. CASE EditAmount(l)
    <2>1. PICK now : now = [m \in RangeOf(Pair(l)) |-> [db[m] EXCEPT !.amount = 3 - @]] OBVIOUS
    <2>2. \A m \in RangeOf(Pair(l)) : now[m] \in Transaction BY <2>1, <1>2 DEF Transaction
    <2>3. PICK pair : pair = Pair(l) OBVIOUS
    <2> QED BY <1>2, <1>3, <1>5, <2>1, <2>2, <2>3 DEF EditAmount, WritePair, Actions
<1>6. CASE ToggleCleared(l)
    <2>1. PICK now : now = [m \in {l} |->
              [db[m] EXCEPT !.cleared = IF @ = "cleared" THEN "uncleared" ELSE "cleared"]]
        OBVIOUS
    <2>2. \A m \in {l} : now[m] \in Transaction BY <2>1, <1>2 DEF Transaction
    <2>3. PICK pair : pair = <<l>> OBVIOUS
    <2> QED BY <1>2, <1>3, <1>6, <2>1, <2>2, <2>3 DEF ToggleCleared, WritePair, Actions
<1>7. CASE Delete(l)
    <2>1. PICK now : now = [m \in RangeOf(Pair(l)) |-> [db[m] EXCEPT !.live = FALSE]] OBVIOUS
    <2>2. \A m \in RangeOf(Pair(l)) : now[m] \in Transaction BY <2>1, <1>2 DEF Transaction
    <2>3. PICK pair : pair = Pair(l) OBVIOUS
    <2> QED BY <1>2, <1>3, <1>7, <2>1, <2>2, <2>3 DEF Delete, WritePair, Actions
<1>8. CASE Unreconcile(l)
    <2>1. PICK now : now = [m \in {l} |-> [db[m] EXCEPT !.cleared = "cleared"]] OBVIOUS
    <2>2. \A m \in {l} : now[m] \in Transaction BY <2>1, <1>2 DEF Transaction
    <2>3. PICK pair : pair = <<l>> OBVIOUS
    <2> QED BY <1>2, <1>3, <1>8, <2>1, <2>2, <2>3 DEF Unreconcile, WritePair, Actions
<1>9. CASE Finish(l)
    <2>1. PICK now : now = [m \in {l} |-> [db[m] EXCEPT !.cleared = "reconciled"]] OBVIOUS
    <2>2. \A m \in {l} : now[m] \in Transaction BY <2>1, <1>2 DEF Transaction
    <2>3. PICK pair : pair = <<l>> OBVIOUS
    <2> QED BY <1>2, <1>3, <1>9, <2>1, <2>2, <2>3 DEF Finish, WritePair, Actions
<1> QED BY <1>4, <1>5, <1>6, <1>7, <1>8, <1>9

(* A sync, row by row.                                                     *)
LEMMA SyncImportKeeps ==
    ASSUME LogKept, NEW l \in scope.legs, SyncImport(l)
    PROVE  LogKept'
<1>1. LogSound BY DEF LogKept
<1>2. batches \in Nat /\ syncing \in {None} \cup 1 .. batches /\ scope.legs \subseteq Legs
      /\ db \in Tables(scope) /\ SyncApart(log, syncing) /\ log \in Seq(LogRecords)
    BY <1>1, ScopesAssumption DEF LogSound
<1>3. PICK batch : batch = IF syncing = None THEN FreshBatch ELSE syncing OBVIOUS
<1>4. PICK r : r = LogRow(l, "import", NoRow, Imported, None, batch, "system") OBVIOUS
<1>5. /\ Room(1) /\ log' = Append(log, r) /\ syncing' = batch
      /\ batches' = IF syncing = None THEN batches + 1 ELSE batches
      /\ UNCHANGED <<scope, db, moves, inflight, undoSeq, undos, raced, forced, torn>>
    BY <1>3, <1>4 DEF SyncImport, SyncMayImport
<1>6. /\ batch \in Nat /\ (batch \notin 1 .. batches \/ batch = syncing) /\ batch \in 1 .. batches'
      /\ batches' \in Nat /\ batches <= batches'
    BY <1>2, <1>3, <1>5 DEF FreshBatch
<1>7. NoRow \in Transaction /\ Imported \in Transaction BY DEF NoRow, Imported, Transaction
<1>8. BankRow(r) /\ r.batch = batch
    <2>1. "import" \in Actions /\ "system" \in Source BY DEF Actions, Source
    <2> QED BY <2>1, <1>1, <1>4, <1>6, <1>7, BankRowIs
<1>9. PICK new : new = <<r>> OBVIOUS
<1>10. /\ new \in Seq(LogRecords) /\ Len(new) = 1
       /\ \A k \in 1 .. Len(new) : new[k] = r
    <2>1. r \in LogRecords BY <1>8 DEF BankRow
    <2>2. new \in Seq(LogRecords) /\ Len(new) = 1 /\ new[1] = r BY <2>1, <1>9, ShortSequences
    <2> QED BY <2>2
<1>11. log' = log \o new
    <2>1. r \in LogRecords BY <1>8 DEF BankRow
    <2> QED BY <2>1, <1>2, <1>5, <1>9, AppendIsConcat
<1>12. /\ Len(log') = Len(log) + 1 /\ Rows \subseteq Rows' /\ Len(log) \in Nat
       /\ \A i \in Rows : log'[i] = log[i]
       /\ \A i \in Rows' \ Rows : /\ i - Len(log) \in 1 .. Len(new)
                                  /\ log'[i] = new[i - Len(log)]
    <2>1. \A k \in 1 .. Len(new) : new[k].undone = 0 BY <1>8, <1>10 DEF BankRow
    <2> QED BY <2>1, <1>1, <1>10, <1>11, GrownIs
<1>13. SyncApart(log', syncing')
    <2>1. SUFFICES ASSUME NEW i \in Rows', log'[i].batch = batch PROVE log'[i].entity \in Legs
        BY <1>5 DEF SyncApart, Rows
    <2>2. CASE i \in Rows
        <3>1. log[i].batch = batch /\ log'[i] = log[i] BY <2>1, <2>2, <1>12
        <3>2. log[i].batch # None => log[i].batch \in 1 .. batches BY <2>2, <1>1, RowIs DEF Sound
        <3>3. batch # None
            <4>1. None \notin Int BY NoneAssumption
            <4> QED BY <4>1, <1>6
        <3>4. batch = syncing BY <3>1, <3>2, <3>3, <1>6
        <3> QED BY <3>1, <3>3, <3>4, <2>2, <1>2 DEF SyncApart, Rows
    <2>3. CASE i \notin Rows
        <3>1. log'[i] = r BY <2>3, <1>10, <1>12
        <3> QED BY <3>1, <1>2, <1>8 DEF BankRow
    <2> QED BY <2>2, <2>3
<1>14. \A k \in 1 .. Len(new) : BankRow(new[k]) /\ new[k].batch \in 1 .. batches'
    BY <1>6, <1>8, <1>10
<1>15. Len(log) + Len(new) <= scope.rows BY <1>5, <1>10 DEF Room
<1>16. PICK d : d = db OBVIOUS
<1>17. d \in Tables(scope) /\ db' = d /\ \A e \in scope.envelopes : d[e] = db[e]
    BY <1>2, <1>5, <1>16
<1>18. syncing' \in {None} \cup 1 .. batches' BY <1>5, <1>6
<1> QED BY <1>5, <1>6, <1>10, <1>11, <1>13, <1>14, <1>15, <1>17, <1>18, LegsGrow

(* A sync's end.                                                           *)
LEMMA SyncCommitKeeps ==
    ASSUME LogKept, SyncCommit
    PROVE  LogKept'
<1>1. LogSound BY DEF LogKept
<1>2. batches \in Nat /\ syncing \in 1 .. batches /\ scope.legs \subseteq Legs
      /\ scope.envelopes \cap Legs = {}
      /\ DOMAIN db = Entities /\ \A e \in Entities : db[e] \in Kind(scope, e)
    BY <1>1, ScopesAssumption DEF LogSound, SyncCommit, Tables, Entities
<1>3. PICK d : d = WithArrivals OBVIOUS
<1>4. Arrived \subseteq Legs
    <2>1. syncing # None /\ SyncApart(log, syncing) BY <1>1 DEF SyncCommit, LogSound
    <2> QED BY <2>1 DEF Arrived, SyncApart, Rows
<1>5. d = [e \in Entities |-> IF e \in Arrived THEN Imported ELSE db[e]]
    BY <1>2, <1>3 DEF WithArrivals
<1>6. Imported \in Transaction BY DEF NoRow, Imported, Transaction
<1>7. ASSUME NEW x, x = [e \in Entities |-> x[e]], \A e \in Entities : x[e] \in Kind(scope, e)
      PROVE  x \in Tables(scope)
    <2>1. \A e \in Entities : x[e] \in Transaction \cup Assignment BY <1>7 DEF Kind
    <2>2. x \in [Entities -> Transaction \cup Assignment] BY <2>1, <1>7
    <2> QED BY <2>2, <1>7 DEF Tables, Entities
<1>8. /\ \A e \in Entities : d[e] \in Kind(scope, e)
      /\ \A e \in scope.envelopes : d[e] = db[e]
    BY <1>2, <1>4, <1>5, <1>6 DEF Kind, Entities
<1>9. d \in Tables(scope) BY <1>5, <1>7, <1>8
<1>10. /\ syncing' \in {None} \cup 1 .. batches' /\ SyncApart(log', syncing')
       /\ batches' \in Nat /\ batches <= batches' /\ batches' = batches
       /\ UNCHANGED <<scope, moves, inflight, undoSeq, undos, raced, forced, torn>>
    BY <1>2 DEF SyncCommit, SyncApart
<1>11. CASE db' = d /\ log' = log
    <2>1. PICK new : new = << >> OBVIOUS
    <2>2. new \in Seq(LogRecords) /\ Len(new) = 0 BY <2>1
    <2>3. log' = log \o new BY <2>1, <1>1, <1>11, ConcatEmptySeq DEF LogSound
    <2>4. Len(log) + Len(new) <= scope.rows BY <2>2, <1>1 DEF LogSound
    <2>5. \A k \in 1 .. Len(new) : BankRow(new[k]) /\ new[k].batch \in 1 .. batches' BY <2>2
    <2> QED BY <2>2, <2>3, <2>4, <2>5, <1>8, <1>9, <1>10, <1>11, LegsGrow
<1>12. ASSUME NEW one, one = LogRow("out", "update", d["out"], Linked(d["out"]), None, syncing, LinkSource),
              NEW two, two = LogRow("in", "update", d["in"], Linked(d["in"]), None, syncing, LinkSource),
              Pairable(d), Room(2), log' = log \o <<one, two>>,
              db' = [e \in DOMAIN d |-> IF e \in Legs THEN Linked(d[e]) ELSE d[e]]
       PROVE  LogKept'
    <2>1. ASSUME NEW l \in Legs
          PROVE  /\ l \in scope.legs /\ d[l] \in Transaction /\ Linked(d[l]) \in Transaction
        <3>1. l \in Entities BY <1>12, <1>5 DEF Pairable
        <3>2. l \in scope.legs /\ d[l] \in Transaction BY <3>1, <1>2, <1>8 DEF Entities, Kind
        <3> QED BY <3>2 DEF Linked, Transaction
    <2>2. PICK batch : batch = syncing OBVIOUS
    <2>3. batch \in Nat /\ "update" \in Actions /\ LinkSource \in Source
          /\ "out" \in Legs /\ "in" \in Legs /\ batch \in 1 .. batches
        BY <2>2, <1>2 DEF Actions, Source, LinkSource, Legs
    <2>4. BankRow(one) /\ one.batch = batch BY <2>1, <2>2, <2>3, <1>1, <1>12, BankRowIs
    <2>5. BankRow(two) /\ two.batch = batch BY <2>1, <2>2, <2>3, <1>1, <1>12, BankRowIs
    <2>6. PICK new : new = <<one, two>> OBVIOUS
    <2>7. new \in Seq(LogRecords) /\ Len(new) = 2 /\ new[1] = one /\ new[2] = two
        BY <2>4, <2>5, <2>6, ShortSequences DEF BankRow
    <2>8. \A k \in 1 .. Len(new) : BankRow(new[k]) /\ new[k].batch \in 1 .. batches'
        <3>1. \A k \in 1 .. Len(new) : new[k] = one \/ new[k] = two BY <2>7
        <3> QED BY <3>1, <2>3, <2>4, <2>5, <1>10
    <2>9. Len(log) + Len(new) <= scope.rows BY <2>7, <1>12 DEF Room
    <2>10. PICK x : x = [e \in DOMAIN d |-> IF e \in Legs THEN Linked(d[e]) ELSE d[e]] OBVIOUS
    <2>11. /\ x = [e \in Entities |-> x[e]]
           /\ \A e \in Entities : x[e] = IF e \in Legs THEN Linked(d[e]) ELSE d[e]
        BY <2>10, <1>5
    <2>12. \A e \in Entities : x[e] \in Kind(scope, e) BY <2>1, <2>11, <1>8 DEF Kind
    <2>13. x \in Tables(scope) BY <2>11, <2>12, <1>7
    <2>14. \A e \in scope.envelopes : x[e] = db[e] BY <2>11, <1>2, <1>8 DEF Entities
    <2>15. db' = x /\ log' = log \o new BY <2>6, <2>10, <1>12
    <2> QED BY <2>7, <2>8, <2>9, <2>13, <2>14, <2>15, <1>10, LegsGrow
<1> QED BY <1>3, <1>11, <1>12 DEF SyncCommit

-----------------------------------------------------------------------------
(* The envelopes.                                                          *)

\* From was to is by the rows of new about e, one after the other.
Growth(new, e, was, is) ==
  \E g \in [0 .. Len(new) -> Int] :
    /\ g[0] = was /\ g[Len(new)] = is
    /\ \A k \in 1 .. Len(new) : g[k] = g[k - 1] + IF new[k].entity = e THEN Gain(new[k]) ELSE 0

(* What an envelope is worth by a log that grew, a row at a time.          *)
LEMMA GrownWorth ==
    ASSUME LogSound, NEW new, Appendable(new, scope, batches, batches', syncing),
           log' = log \o new, batches' \in Nat, batches <= batches', NEW e \in scope.envelopes
    PROVE  Growth(new, e, WorthOf(log, e, LiveOf(log)), WorthOf(log', e, LiveOf(log')))
<1> DEFINE N == Len(log)
<1> DEFINE J == Len(new)
<1>1. new \in Seq(LogRecords) /\ \A k \in 1 .. J : new[k].undone = 0 BY DEF Appendable
<1>2. /\ N \in Nat /\ J \in Nat /\ Len(log') = N + J /\ Rows \subseteq Rows'
      /\ \A i \in Rows : log'[i] = log[i]
      /\ \A i \in Rows' \ Rows : i - N \in 1 .. J /\ i \in Int /\ log'[i] = new[i - N]
      /\ LiveOf(log') = LiveOf(log) \cup (Rows' \ Rows)
    BY <1>1, GrownIs
<1>3. PICK L, M, S, T : L = log /\ M = log' /\ S = LiveOf(log) /\ T = LiveOf(log') OBVIOUS
<1>4. Rows = 1 .. N /\ Rows' = 1 .. N + J BY <1>2 DEF Rows
<1>5. /\ Len(L) = N /\ Len(M) = N + J
      /\ \A n \in 1 .. N : M[n] = L[n] /\ (n \in T <=> n \in S)
    BY <1>2, <1>3, <1>4 DEF LiveOf
<1>6. \A n \in (N + 1) .. (N + J) : n - N \in 1 .. J /\ M[n] = new[n - N] /\ n \in T
    <2>1. TAKE n \in (N + 1) .. (N + J)
    <2>2. n \in Rows' \ Rows BY <1>2, <1>4
    <2> QED BY <2>2, <1>2, <1>3
<1>7. Priced(L, e) /\ e \notin Legs BY <1>3, PricedLog
<1>8. Priced(M, e)
    <2>1. ASSUME NEW n \in 1 .. N + J, M[n].entity = e PROVE Gain(M[n]) \in Int
        <3>1. CASE n \in 1 .. N BY <3>1, <2>1, <1>5, <1>7 DEF Priced
        <3>2. CASE n \notin 1 .. N
            <4>1. n \in (N + 1) .. (N + J) BY <3>2, <1>2
            <4>2. Sound(M[n], scope, batches') BY <4>1, <1>6 DEF Appendable
            <4>3. M[n].before \in Assignment /\ M[n].after \in Assignment
                BY <4>2, <2>1, <1>7 DEF Sound, Kind
            <4> QED BY <4>3 DEF Gain, Assignment
        <3> QED BY <3>1, <3>2
    <2> QED BY <2>1, <1>2, <1>5 DEF Priced
<1> HIDE DEF N, J
<1>9. PICK f \in [0 .. N -> Int] :
          /\ f[0] = 0 /\ WorthOf(L, e, S) = f[N]
          /\ \A n \in 1 .. N : f[n] = f[n - 1] + Share(L, e, S, n)
    <2>1. PICK f \in [0 .. Len(L) -> Int] :
              /\ f[0] = 0 /\ WorthOf(L, e, S) = f[Len(L)]
              /\ \A n \in 1 .. Len(L) : f[n] = f[n - 1] + Share(L, e, S, n)
        BY <1>7, WorthUnfolds
    <2> QED BY <1>5, <2>1
<1>10. PICK h \in [0 .. N + J -> Int] :
          /\ h[0] = 0 /\ WorthOf(M, e, T) = h[N + J]
          /\ \A n \in 1 .. N + J : h[n] = h[n - 1] + Share(M, e, T, n)
    <2>1. PICK h \in [0 .. Len(M) -> Int] :
              /\ h[0] = 0 /\ WorthOf(M, e, T) = h[Len(M)]
              /\ \A n \in 1 .. Len(M) : h[n] = h[n - 1] + Share(M, e, T, n)
        BY <1>8, WorthUnfolds
    <2> QED BY <1>5, <2>1
<1>11. \A n \in 1 .. N : Share(M, e, T, n) = Share(L, e, S, n) /\ n \in 1 .. N + J
    BY <1>2, <1>5 DEF Share
<1> DEFINE U == {n \in Nat : n <= N => h[n] = f[n]}
<1>12. 0 \in U BY <1>9, <1>10
<1>13. ASSUME NEW n \in Nat, n \in U PROVE n + 1 \in U
    <2>1. SUFFICES ASSUME n + 1 <= N PROVE h[n + 1] = f[n + 1] OBVIOUS
    <2>2. n + 1 \in 1 .. N /\ (n + 1) - 1 = n /\ n <= N BY <2>1, <1>2
    <2>3. h[n] = f[n] BY <1>13, <2>2
    <2>4. f[n + 1] = f[n] + Share(L, e, S, n + 1) BY <2>2, <1>9
    <2>5. h[n + 1] = h[n] + Share(M, e, T, n + 1) BY <2>2, <1>10, <1>11
    <2>6. Share(M, e, T, n + 1) = Share(L, e, S, n + 1) BY <2>2, <1>11
    <2> QED BY <2>3, <2>4, <2>5, <2>6
<1> HIDE DEF U
<1>14. Nat \subseteq U BY <1>12, <1>13, Induct
<1>15. h[N] = f[N] BY <1>14, <1>2 DEF U
<1> DEFINE g == [k \in 0 .. J |-> h[N + k]]
<1>16. \A k \in 0 .. J : N + k \in 0 .. N + J /\ g[k] = h[N + k] BY <1>2
<1>17. g \in [0 .. J -> Int] BY <1>16, <1>10
<1>18. ASSUME NEW k \in 1 .. J
       PROVE  g[k] = g[k - 1] + IF new[k].entity = e THEN Gain(new[k]) ELSE 0
    <2>1. N + k \in 1 .. N + J /\ N + k \in (N + 1) .. (N + J) /\ (N + k) - 1 = N + (k - 1)
          /\ k - 1 \in 0 .. J /\ k \in 0 .. J /\ (N + k) - N = k
        BY <1>2
    <2>2. h[N + k] = h[N + (k - 1)] + Share(M, e, T, N + k) BY <2>1, <1>10
    <2>3. M[N + k] = new[k] /\ N + k \in T BY <2>1, <1>6
    <2>4. Share(M, e, T, N + k) = IF new[k].entity = e THEN Gain(new[k]) ELSE 0
        BY <2>1, <2>3, <1>5 DEF Share
    <2>5. g[k] = h[N + k] /\ g[k - 1] = h[N + (k - 1)] BY <2>1, <1>16
    <2> QED BY <2>2, <2>4, <2>5
<1>19. g[0] = WorthOf(L, e, S) /\ g[J] = WorthOf(M, e, T)
    <2>1. 0 \in 0 .. J /\ J \in 0 .. J /\ N + 0 = N BY <1>2
    <2> QED BY <2>1, <1>9, <1>10, <1>15, <1>16
<1> HIDE DEF g
<1> QED BY <1>3, <1>17, <1>18, <1>19 DEF J, Growth

(* Amounts written into envelopes make a table.                            *)
LEMMA WrittenIs ==
    ASSUME LogSound, NEW new, NEW d, DOMAIN new \subseteq scope.envelopes,
           \A e \in DOMAIN new : new[e] \in Int, d = Write(new)
    PROVE  /\ d \in Tables(scope)
           /\ \A e \in scope.envelopes :
                d[e].assigned = IF e \in DOMAIN new THEN new[e] ELSE db[e].assigned
<1>1. /\ scope.envelopes \cap Legs = {}
      /\ DOMAIN db = Entities /\ \A e \in Entities : db[e] \in Kind(scope, e)
    BY ScopesAssumption DEF LogSound, Tables, Entities
<1>2. d = [e \in Entities |-> IF e \in DOMAIN new THEN [assigned |-> new[e]] ELSE db[e]]
    BY <1>1 DEF Write
<1>3. \A e \in Entities : d[e] \in Kind(scope, e)
    <2>1. TAKE e \in Entities
    <2>2. CASE e \in DOMAIN new
        <3>1. d[e] = [assigned |-> new[e]] /\ new[e] \in Int /\ e \notin Legs BY <2>2, <1>1, <1>2
        <3> QED BY <3>1 DEF Kind, Assignment
    <2>3. CASE e \notin DOMAIN new BY <2>3, <1>1, <1>2
    <2> QED BY <2>2, <2>3
<1>4. d \in [Entities -> Transaction \cup Assignment]
    <2>1. \A e \in Entities : d[e] \in Transaction \cup Assignment BY <1>3 DEF Kind
    <2> QED BY <2>1, <1>2
<1>5. \A e \in scope.envelopes :
                d[e].assigned = IF e \in DOMAIN new THEN new[e] ELSE db[e].assigned
    <2>1. TAKE e \in scope.envelopes
    <2>2. e \in Entities BY DEF Entities
    <2>3. CASE e \in DOMAIN new
        <3>1. d[e] = [assigned |-> new[e]] BY <2>2, <2>3, <1>2
        <3> QED BY <3>1, <2>3
    <2>4. CASE e \notin DOMAIN new BY <2>2, <2>4, <1>2
    <2> QED BY <2>3, <2>4
<1> QED BY <1>3, <1>4, <1>5 DEF Tables, Entities

(* What an assignment has in hand.                                         *)
LEMMA AssignHolds ==
    ASSUME LogKept, inflight.kind = "assign"
    PROVE  \E e \in scope.envelopes, was, now \in Int :
              inflight.read = [x \in {e} |-> was] /\ inflight.new = [x \in {e} |-> now]
<1>1. inflight # Idle
    <2>1. Idle.kind = None /\ None # "assign" BY NoneAssumption DEF Idle
    <2> QED BY <2>1
<1>2. ASSUME UndoingMove(inflight) PROVE FALSE
    <2>1. PICK m \in 1 .. batches, rows \in SUBSET Rows :
            \E read \in [{log[i].entity : i \in rows} -> Int] :
              inflight = [kind |-> "undo move", read |-> read, rows |-> rows, move |-> m]
        BY <1>2 DEF UndoingMove
    <2>2. inflight.kind = "undo move"
        <3>1. PICK read \in [{log[i].entity : i \in rows} -> Int] :
              inflight = [kind |-> "undo move", read |-> read, rows |-> rows, move |-> m]
            BY <2>1
        <3> QED BY <3>1
    <2> QED BY <2>2
<1>3. ASSUME Moving(inflight) PROVE FALSE
    <2>1. PICK list \in MoveLists : \E read \in [Touched(list) -> Int] :
            inflight = [kind |-> "move", read |-> read, list |-> list]
        BY <1>3 DEF Moving
    <2>2. inflight.kind = "move" BY <2>1
    <2> QED BY <2>2
<1>4. Assigning(inflight) BY <1>1, <1>2, <1>3 DEF LogKept, InFlight
<1> QED BY <1>4 DEF Assigning

(* set_assignments, at its writing.                                        *)
LEMMA FinishAssignKeeps ==
    ASSUME LogKept, FinishAssign
    PROVE  LogKept'
<1>1. LogSound /\ inflight.kind = "assign" BY DEF LogKept, FinishAssign
<1>2. PICK e \in scope.envelopes, was \in Int, now \in Int :
         inflight.read = [x \in {e} |-> was] /\ inflight.new = [x \in {e} |-> now]
    BY <1>1, AssignHolds
<1>3. PICK r : r = LogRow(e, "update", [assigned |-> was], [assigned |-> now], None, None, "manual")
    OBVIOUS
<1>4. PICK d, held : held = [x \in {e} |-> now] /\ d = Write(held) OBVIOUS
<1>5. /\ Room(1) /\ db' = d /\ log' = (IF was = now THEN log ELSE Append(log, r))
      /\ raced' = (raced \/ db[e].assigned # was) /\ inflight' = Idle
      /\ UNCHANGED <<scope, syncing, forced, torn, moves, undoSeq, undos, batches>>
    <2>1. PICK x : x = CHOOSE y \in DOMAIN inflight.new : TRUE OBVIOUS
    <2>7. x = e
        <3>1. DOMAIN inflight.new = {e} BY <1>2
        <3> QED BY <2>1, <3>1
    <2>2. inflight.read[e] = was /\ inflight.new[e] = now BY <1>2
    <2>3. Stale(inflight.read) <=> db[e].assigned # was BY <1>2 DEF Stale
    <2>8. log' = IF inflight.read[x] = inflight.new[x] THEN log
                 ELSE Append(log, LogRow(x, "update", [assigned |-> inflight.read[x]],
                                         [assigned |-> inflight.new[x]], None, None, "manual"))
        BY <2>1 DEF FinishAssign
    <2>4. log' = (IF was = now THEN log ELSE Append(log, r)) BY <2>2, <2>7, <2>8, <1>3
    <2>5. raced' = (raced \/ Stale(inflight.read)) BY DEF FinishAssign
    <2>6. db' = d BY <1>2, <1>4 DEF FinishAssign
    <2> QED BY <2>3, <2>4, <2>5, <2>6 DEF FinishAssign, EndRequest
<1>6. /\ d \in Tables(scope)
      /\ \A x \in scope.envelopes : d[x].assigned = IF x = e THEN now ELSE db[x].assigned
    <2>1. DOMAIN held = {e} /\ held[e] = now BY <1>4
    <2>2. DOMAIN held \subseteq scope.envelopes /\ \A x \in DOMAIN held : held[x] \in Int BY <2>1
    <2>3. /\ d \in Tables(scope)
          /\ \A x \in scope.envelopes :
                d[x].assigned = IF x \in DOMAIN held THEN held[x] ELSE db[x].assigned
        BY <1>1, <1>4, <2>2, WrittenIs
    <2> QED BY <2>1, <2>3
<1>7. PICK new : new = IF was = now THEN << >> ELSE <<r>> OBVIOUS
<1>8. r \in LogRecords /\ Sound(r, scope, batches) /\ r.undone = 0 /\ r.move = None
      /\ r.batch = None /\ r.entity = e /\ Gain(r) = now - was
    <2>1. scope \in Scopes /\ e \notin Legs /\ e \in Names
        BY <1>1, ScopesAssumption DEF LogSound, Names
    <2>2. [assigned |-> was] \in Assignment /\ [assigned |-> now] \in Assignment BY DEF Assignment
    <2>3. /\ r.entity = e /\ r.action = "update" /\ r.before = [assigned |-> was]
          /\ r.after = [assigned |-> now] /\ r.move = None /\ r.batch = None /\ r.undone = 0
          /\ r.source = "manual"
        BY <1>3 DEF LogRow
    <2>4. r \in LogRecords BY <1>3, <2>1, <2>2 DEF LogRow, LogRecords, Actions, Source
    <2> QED BY <2>1, <2>2, <2>3, <2>4 DEF Sound, Kind, Gain
<1>9. /\ new \in Seq(LogRecords) /\ Len(new) = (IF was = now THEN 0 ELSE 1)
      /\ \A k \in 1 .. Len(new) : new[k] = r
      /\ log' = log \o new
    <2>1. log \in Seq(LogRecords) BY <1>1 DEF LogSound
    <2>2. CASE was = now
        <3>1. log' = log /\ new = << >> BY <2>2, <1>5, <1>7
        <3>2. new \in Seq(LogRecords) /\ Len(new) = 0 BY <3>1
        <3>3. log \o << >> = log BY <2>1, ConcatEmptySeq
        <3> QED BY <3>1, <3>2, <3>3, <2>2
    <2>3. CASE was # now
        <3>1. log' = Append(log, r) /\ new = <<r>> BY <2>3, <1>5, <1>7
        <3>2. new \in Seq(LogRecords) /\ Len(new) = 1 /\ new[1] = r BY <3>1, <1>8, ShortSequences
        <3>3. Append(log, r) = log \o <<r>> BY <2>1, <1>8, AppendIsConcat
        <3> QED BY <3>1, <3>2, <3>3, <2>3
    <2> QED BY <2>2, <2>3
<1>10. batches' = batches /\ batches \in Nat /\ batches' \in Nat /\ batches <= batches' /\ moves \subseteq 1 .. batches
       /\ syncing \in {None} \cup 1 .. batches
    BY <1>1, <1>5 DEF LogSound
<1>11. Appendable(new, scope, batches, batches', syncing)
    <2>1. MovesWhole(new) /\ BatchesPure(new) BY <1>8, <1>9 DEF MovesWhole, BatchesPure
    <2> QED BY <2>1, <1>8, <1>9, <1>10 DEF Appendable
<1>12. Len(log) + Len(new) <= scope.rows
    <2>1. Len(log) \in Nat /\ scope \in Scopes /\ Len(log) <= scope.rows BY <1>1 DEF LogSound
    <2> QED BY <2>1, <1>5, <1>9 DEF Room
<1>13. SyncApart(log', syncing')
    <2>1. /\ \A i \in Rows : log'[i] = log[i]
          /\ \A i \in Rows' \ Rows : /\ i - Len(log) \in 1 .. Len(new) /\ i \in Int
                                     /\ log'[i] = new[i - Len(log)]
        <3>1. \A k \in 1 .. Len(new) : new[k].undone = 0 BY <1>8, <1>9
        <3> QED BY <3>1, <1>1, <1>9, GrownIs
    <2>2. \A i \in Rows' \ Rows : log'[i].batch = None BY <2>1, <1>8, <1>9
    <2>3. SyncApart(log, syncing) /\ syncing' = syncing BY <1>1, <1>5 DEF LogSound
    <2> QED BY <2>1, <2>2, <2>3 DEF SyncApart, Rows
<1>14. ASSUME ~raced', ~forced', NEW x \in scope.envelopes
       PROVE  d[x].assigned = WorthOf(log', x, LiveOf(log'))
    <2>1. db[x].assigned = WorthOf(log, x, LiveOf(log)) /\ db[e].assigned = was
        BY <1>5, <1>14 DEF LogKept, AssignedIsReplay, Replay, LiveOf, Rows, IsLive
    <2>2. PICK g \in [0 .. Len(new) -> Int] :
              /\ g[0] = WorthOf(log, x, LiveOf(log))
              /\ g[Len(new)] = WorthOf(log', x, LiveOf(log'))
              /\ \A k \in 1 .. Len(new) :
                    g[k] = g[k - 1] + IF new[k].entity = x THEN Gain(new[k]) ELSE 0
        <3>1. log' = log \o new /\ batches' \in Nat /\ batches <= batches' BY <1>9, <1>10
        <3>2. Growth(new, x, WorthOf(log, x, LiveOf(log)), WorthOf(log', x, LiveOf(log')))
            BY <3>1, <1>1, <1>11, GrownWorth
        <3> QED BY <3>2 DEF Growth
    <2>3. CASE was = now
        <3>1. g[0] = WorthOf(log', x, LiveOf(log')) BY <2>2, <2>3, <1>9
        <3>2. d[x].assigned = db[x].assigned BY <1>6, <2>1, <2>3
        <3> QED BY <3>1, <3>2, <2>1, <2>2
    <2>4. CASE was # now
        <3>1. Len(new) = 1 /\ new[1] = r BY <1>9, <2>4
        <3>2. g[1] = g[0] + IF r.entity = x THEN Gain(r) ELSE 0 BY <2>2, <3>1
        <3>3. g[1] = WorthOf(log', x, LiveOf(log')) /\ g[0] = db[x].assigned /\ g[0] \in Int
            BY <2>1, <2>2, <3>1
        <3>4. CASE x = e
            <4>1. g[1] = g[0] + (now - was) /\ g[0] = was BY <3>2, <3>3, <3>4, <1>8, <2>1
            <4> QED BY <4>1, <3>3, <3>4, <1>6
        <3>5. CASE x # e BY <3>2, <3>3, <3>5, <1>6, <1>8
        <3> QED BY <3>4, <3>5
    <2> QED BY <2>3, <2>4
<1>15. /\ raced' \in BOOLEAN /\ (raced => raced') /\ inflight' \in {inflight, Idle}
       /\ moves \subseteq moves' /\ moves' \subseteq 1 .. batches' /\ moves' \cap 1 .. batches = moves
       /\ syncing' \in {None} \cup 1 .. batches' /\ batches' \in Nat /\ batches <= batches'
       /\ UNCHANGED <<scope, undoSeq, undos, forced, torn>>
    <2>1. raced' \in BOOLEAN /\ (raced => raced') /\ inflight' \in {inflight, Idle}
        BY <1>1, <1>5 DEF LogSound
    <2>2. moves' = moves /\ syncing' = syncing BY <1>5
    <2>3. moves \subseteq moves' /\ moves' \subseteq 1 .. batches' /\ moves' \cap 1 .. batches = moves
          /\ syncing' \in {None} \cup 1 .. batches'
        BY <2>2, <1>10
    <2> QED BY <2>1, <2>3, <1>5, <1>10
<1>16. \A k \in 1 .. Len(new) : new[k].move # None => new[k].move \in moves' BY <1>8, <1>9
<1>17. ~raced' /\ ~forced' =>
          \A x \in scope.envelopes : d[x].assigned = WorthOf(log', x, LiveOf(log'))
    BY <1>14
<1> QED BY <1>5, <1>6, <1>9, <1>11, <1>12, <1>13, <1>15, <1>16, <1>17, GrowKeeps

(* The sides of a list of moves, a move at a time.                         *)
Ends(list) == {list[n].from : n \in 1 .. Len(list)} \cup {list[n].to : n \in 1 .. Len(list)}
SidesAre(list) == [who : Ends(list) \ {TBA}, by : Int, nth : 1 .. Len(list)]
Half(e, by, n) == IF e = TBA THEN << >> ELSE <<[who |-> e, by |-> by, nth |-> n]>>
Longer(list, n, s) ==
  s \o Half(list[n].from, 0 - list[n].amount, n) \o Half(list[n].to, list[n].amount, n)
Siding(list, f) ==
  f = [n \in 0 .. Len(list) |-> IF n = 0 THEN << >> ELSE Longer(list, n, f[n - 1])]

\* The two sides of a move are neighbours, of two envelopes.
Paired(s) ==
  \A i, k \in 1 .. Len(s) :
    s[k].nth = s[i].nth /\ i # k => s[i].who # s[k].who /\ (k = i + 1 \/ i = k + 1)

(* One more move: its sides come last, and are new.                        *)
LEMMA LongerIs ==
    ASSUME NEW list \in MoveLists, NEW n \in 1 .. Len(list), NEW s \in Seq(SidesAre(list))
    PROVE  /\ Longer(list, n, s) \in Seq(SidesAre(list))
           /\ Paired(s) /\ (\A k \in 1 .. Len(s) : s[k].nth < n) =>
                Paired(Longer(list, n, s)) /\ \A k \in 1 .. Len(Longer(list, n, s)) : Longer(list, n, s)[k].nth <= n
<1> DEFINE V == SidesAre(list)
<1>1. PICK x, y : /\ x = Half(list[n].from, 0 - list[n].amount, n)
                  /\ y = Half(list[n].to, list[n].amount, n)
    OBVIOUS
<1>2. list[n].amount \in Nat /\ list[n].from # list[n].to /\ Len(list) \in Nat
    BY MovesAssumption, LenProperties
<1>3. PICK a, b : /\ a = [who |-> list[n].from, by |-> 0 - list[n].amount, nth |-> n]
                  /\ b = [who |-> list[n].to, by |-> list[n].amount, nth |-> n]
    OBVIOUS
<1>4. /\ x = (IF list[n].from = TBA THEN << >> ELSE <<a>>)
      /\ y = (IF list[n].to = TBA THEN << >> ELSE <<b>>)
    BY <1>1, <1>3 DEF Half
<1>5. a.nth = n /\ b.nth = n /\ a.who # b.who BY <1>2, <1>3
<1>6. (list[n].from # TBA => a \in V) /\ (list[n].to # TBA => b \in V)
    BY <1>2, <1>3 DEF SidesAre, Ends
<1>17. \A m \in 1 .. Len(s) : s[m].nth \in Int
    <2>1. TAKE m \in 1 .. Len(s)
    <2>2. s[m] \in V BY ElementOfSeq
    <2> QED BY <2>2, <1>2 DEF SidesAre
<1> HIDE DEF V
<1>7. /\ x \in Seq(V) /\ Len(x) \in {0, 1} /\ (Len(x) = 1 => x[1] = a)
    <2>1. CASE list[n].from = TBA BY <2>1, <1>4
    <2>2. CASE list[n].from # TBA BY <2>2, <1>4, <1>6, ShortSequences
    <2> QED BY <2>1, <2>2
<1>8. /\ y \in Seq(V) /\ Len(y) \in {0, 1} /\ (Len(y) = 1 => y[1] = b)
    <2>1. CASE list[n].to = TBA BY <2>1, <1>4
    <2>2. CASE list[n].to # TBA BY <2>2, <1>4, <1>6, ShortSequences
    <2> QED BY <2>1, <2>2
<1>9. s \in Seq(V) /\ Len(s) \in Nat BY LenProperties DEF V
<1>10. PICK z : z = s \o x OBVIOUS
<1>11. PICK t : t = Longer(list, n, s) OBVIOUS
<1>12. t = z \o y BY <1>1, <1>10, <1>11 DEF Longer
<1>13. /\ z \in Seq(V) /\ Len(z) = Len(s) + Len(x)
       /\ \A k \in 1 .. Len(s) : z[k] = s[k]
       /\ Len(x) = 1 => z[Len(s) + 1] = a
    <2>1. /\ z \in Seq(V) /\ Len(z) = Len(s) + Len(x)
          /\ \A k \in 1 .. Len(s) + Len(x) : z[k] = IF k <= Len(s) THEN s[k] ELSE x[k - Len(s)]
        BY <1>7, <1>9, <1>10, ConcatProperties
    <2>2. ASSUME Len(x) = 1 PROVE z[Len(s) + 1] = a
        <3>1. Len(s) + 1 \in 1 .. Len(s) + Len(x) /\ ~(Len(s) + 1 <= Len(s)) /\ (Len(s) + 1) - Len(s) = 1
            BY <2>2, <1>9
        <3> QED BY <3>1, <2>1, <2>2, <1>7
    <2> QED BY <2>1, <2>2, <1>7, <1>9
<1>14. /\ t \in Seq(V) /\ Len(t) = Len(z) + Len(y)
       /\ \A k \in 1 .. Len(z) : t[k] = z[k]
       /\ Len(y) = 1 => t[Len(z) + 1] = b
    <2>1. /\ t \in Seq(V) /\ Len(t) = Len(z) + Len(y)
          /\ \A k \in 1 .. Len(z) + Len(y) : t[k] = IF k <= Len(z) THEN z[k] ELSE y[k - Len(z)]
        <3>1. z \in Seq(V) /\ y \in Seq(V) BY <1>8, <1>13
        <3>2. /\ z \o y \in Seq(V) /\ Len(z \o y) = Len(z) + Len(y)
              /\ \A k \in 1 .. Len(z) + Len(y) : (z \o y)[k] = IF k <= Len(z) THEN z[k] ELSE y[k - Len(z)]
            BY <3>1, ConcatProperties
        <3> QED BY <3>2, <1>12
    <2>2. Len(z) \in Nat BY <1>13, LenProperties
    <2>3. ASSUME Len(y) = 1 PROVE t[Len(z) + 1] = b
        <3>1. Len(z) + 1 \in 1 .. Len(z) + Len(y) /\ ~(Len(z) + 1 <= Len(z)) /\ (Len(z) + 1) - Len(z) = 1
            BY <2>2, <2>3
        <3> QED BY <3>1, <2>1, <2>3, <1>8
    <2> QED BY <2>1, <2>2, <2>3, <1>8
<1>15. ASSUME NEW k \in 1 .. Len(t)
       PROVE  \/ k \in 1 .. Len(s) /\ t[k] = s[k]
              \/ k > Len(s) /\ k = Len(s) + 1 /\ Len(x) = 1 /\ t[k] = a
              \/ k > Len(s) /\ k = Len(s) + Len(x) + 1 /\ t[k] = b
    <2>1. k \in Int /\ Len(t) = Len(s) + Len(x) + Len(y) BY <1>7, <1>8, <1>9, <1>13, <1>14
    <2>2. CASE k <= Len(s)
        <3>1. k \in 1 .. Len(s) /\ k \in 1 .. Len(z) BY <2>1, <2>2, <1>7, <1>9, <1>13
        <3> QED BY <3>1, <1>13, <1>14
    <2>3. CASE ~(k <= Len(s)) /\ Len(x) = 1 /\ k = Len(s) + 1
        <3>1. k \in 1 .. Len(z) BY <2>1, <2>3, <1>9, <1>13
        <3> QED BY <3>1, <2>1, <2>3, <1>9, <1>13, <1>14
    <2>4. CASE ~(k <= Len(s)) /\ ~(Len(x) = 1 /\ k = Len(s) + 1)
        <3>2. PICK p \in Nat, q \in {0, 1}, r \in {0, 1} : p = Len(s) /\ q = Len(x) /\ r = Len(y)
            BY <1>7, <1>8, <1>9
        <3>3. k \in Int /\ k <= p + q + r /\ ~(k <= p) /\ ~(q = 1 /\ k = p + 1) BY <2>1, <2>4, <3>2
        <3>4. /\ q = 0 \/ q = 1
              /\ r = 0 \/ r = 1
              /\ p \in Int
            BY <3>2
        <3>5. ASSUME q = 0 PROVE k = p + q + 1 /\ r = 1
            <4>1. k \in Int /\ k <= p + r /\ ~(k <= p) BY <3>3, <3>4, <3>5
            <4> QED BY <4>1, <3>4, <3>5
        <3>6. ASSUME q = 1 PROVE k = p + q + 1 /\ r = 1
            <4>1. k \in Int /\ k <= p + 1 + r /\ ~(k <= p) /\ k # p + 1 BY <3>3, <3>4, <3>6
            <4> QED BY <4>1, <3>4, <3>6
        <3>1. k = Len(s) + Len(x) + 1 /\ Len(y) = 1
            <4>1. k = p + q + 1 /\ r = 1 BY <3>4, <3>5, <3>6
            <4> QED BY <4>1, <3>2
        <3> QED BY <3>1, <2>1, <2>4, <1>9, <1>13, <1>14
    <2> QED BY <2>2, <2>3, <2>4
<1>16. ASSUME Paired(s), \A k \in 1 .. Len(s) : s[k].nth < n
       PROVE  Paired(t) /\ \A k \in 1 .. Len(t) : t[k].nth <= n
    <2>1. ASSUME NEW k \in 1 .. Len(t) PROVE t[k].nth <= n
        <3>1. \A m \in 1 .. Len(s) : s[m].nth < n /\ s[m].nth \in Int BY <1>16, <1>17
        <3> QED BY <3>1, <1>5, <1>15
    <2>2. ASSUME NEW i \in 1 .. Len(t), NEW k \in 1 .. Len(t), t[k].nth = t[i].nth, i # k
          PROVE  t[i].who # t[k].who /\ (k = i + 1 \/ i = k + 1)
        <3>1. \A m \in 1 .. Len(s) : s[m].nth # n
            <4>1. \A m \in 1 .. Len(s) : s[m].nth < n /\ s[m].nth \in Int BY <1>16, <1>17
            <4> QED BY <4>1
        <3>2. CASE i \in 1 .. Len(s) /\ t[i] = s[i]
            <4>1. t[k].nth # n BY <3>1, <3>2, <2>2
            <4>2. k \in 1 .. Len(s) /\ t[k] = s[k] BY <4>1, <1>5, <1>15
            <4> QED BY <3>2, <4>2, <2>2, <1>16 DEF Paired
        <3>3. CASE t[i] = a /\ i = Len(s) + 1 /\ Len(x) = 1
            <4>1. t[k].nth = n BY <3>3, <2>2, <1>5
            <4>2. k = Len(s) + Len(x) + 1 /\ t[k] = b BY <4>1, <3>1, <3>3, <2>2, <1>15
            <4> QED BY <3>3, <4>2, <1>5, <1>9
        <3>4. CASE t[i] = b /\ i = Len(s) + Len(x) + 1
            <4>1. t[k].nth = n BY <3>4, <2>2, <1>5
            <4>2. k = Len(s) + 1 /\ Len(x) = 1 /\ t[k] = a BY <4>1, <3>1, <3>4, <2>2, <1>15
            <4> QED BY <3>4, <4>2, <1>5, <1>9
        <3> QED BY <3>2, <3>3, <3>4, <1>15
    <2> QED BY <2>1, <2>2 DEF Paired
<1> QED BY <1>11, <1>14, <1>16 DEF V

(* The sides of a list of moves.                                           *)
LEMMA SidesPaired ==
    ASSUME NEW list \in MoveLists
    PROVE  SidesOf(list) \in Seq(SidesAre(list)) /\ Paired(SidesOf(list))
<1> DEFINE N == Len(list)
<1> DEFINE V == Seq(SidesAre(list))
<1> DEFINE step == [p \in (1..N) \X V |-> Longer(list, p[1], p[2])]
<1>1. N \in Nat BY MovesAssumption, LenProperties
<1>2. << >> \in V OBVIOUS
<1>3. ASSUME NEW n \in 1..N, NEW s \in V PROVE Longer(list, n, s) \in V BY LongerIs
<1>13. ASSUME NEW n \in 1..N, NEW s \in V
       PROVE  Paired(s) /\ (\A k \in 1 .. Len(s) : s[k].nth < n) =>
                Paired(Longer(list, n, s)) /\ \A k \in 1 .. Len(Longer(list, n, s)) : Longer(list, n, s)[k].nth <= n
    BY LongerIs
<1>14. ASSUME NEW s \in V, NEW k \in 1 .. Len(s) PROVE s[k].nth \in Int
    <2>1. s[k] \in SidesAre(list) BY <1>14, ElementOfSeq
    <2> QED BY <2>1, <1>1 DEF SidesAre
<1> HIDE DEF N, V
<1>4. step \in [(1..N) \X V -> V] BY <1>3
<1> HIDE DEF step
<1>5. PICK f \in [0..N -> V] : Unfolds(f, N, << >>, step)
    BY <1>1, <1>2, <1>4, RecursionExists
<1>6. f[0] = << >> /\ \A n \in 1..N : f[n] = Longer(list, n, f[n - 1]) /\ f[n - 1] \in V
    <2>1. ASSUME NEW n \in 1..N PROVE f[n] = Longer(list, n, f[n - 1]) /\ f[n - 1] \in V
        <3>1. n - 1 \in 0..N BY <1>1
        <3>2. f[n - 1] \in V BY <3>1
        <3>3. step[<<n, f[n - 1]>>] = Longer(list, n, f[n - 1]) BY <3>2 DEF step
        <3> QED BY <3>2, <3>3, <1>5 DEF Unfolds
    <2> QED BY <2>1, <1>5 DEF Unfolds
<1>7. Siding(list, f)
    <2>1. \A n \in 0..N : f[n] = IF n = 0 THEN << >> ELSE Longer(list, n, f[n - 1])
        BY <1>6, <1>1
    <2> QED BY <2>1 DEF Siding, N
<1> DEFINE u == CHOOSE g : Siding(list, g)
<1>8. Siding(list, u) BY <1>7
<1>9. SidesOf(list) = u[N] BY DEF SidesOf, Siding, Longer, Half, N
<1> HIDE DEF u
<1>10. u[0] = << >> /\ \A n \in 1..N : u[n] = Longer(list, n, u[n - 1])
    BY <1>8, <1>1 DEF Siding, N
<1> DEFINE Fine(n, s) == Paired(s) /\ \A k \in 1 .. Len(s) : s[k].nth <= n
<1> DEFINE T == {n \in Nat : n <= N => u[n] = f[n] /\ Fine(n, f[n])}
<1>11. 0 \in T
    <2>1. f[0] = << >> /\ Len(f[0]) = 0 BY <1>6
    <2>2. Fine(0, f[0]) BY <2>1 DEF Paired
    <2> QED BY <2>1, <2>2, <1>6, <1>10
<1>12. ASSUME NEW n \in Nat, n \in T PROVE n + 1 \in T
    <2>1. SUFFICES ASSUME n + 1 <= N PROVE u[n + 1] = f[n + 1] /\ Fine(n + 1, f[n + 1]) OBVIOUS
    <2>2. n + 1 \in 1..N /\ (n + 1) - 1 = n BY <2>1
    <2>3. u[n] = f[n] /\ Fine(n, f[n]) BY <1>12, <2>1, <1>1
    <2>4. f[n + 1] = Longer(list, n + 1, f[n]) /\ f[n] \in V BY <2>2, <1>6
    <2>5. u[n + 1] = Longer(list, n + 1, f[n]) BY <2>2, <2>3, <1>10
    <2>6. \A k \in 1 .. Len(f[n]) : f[n][k].nth < n + 1
        <3>1. TAKE k \in 1 .. Len(f[n])
        <3>2. f[n][k].nth <= n /\ f[n][k].nth \in Int BY <2>3, <2>4, <1>14
        <3> QED BY <3>2
    <2>7. Fine(n + 1, Longer(list, n + 1, f[n])) BY <2>2, <2>3, <2>4, <2>6, <1>13
    <2> QED BY <2>4, <2>5, <2>7
<1> HIDE DEF T, Fine
<1>15. Nat \subseteq T BY <1>11, <1>12, Induct
<1>16. u[N] = f[N] /\ Fine(N, f[N]) BY <1>15, <1>1 DEF T
<1>17. f[N] \in V BY <1>1
<1> QED BY <1>9, <1>16, <1>17 DEF V, Fine

(* The figure an envelope holds after each side.                           *)
LEMMA RunningUnfolds ==
    ASSUME NEW read, NEW list \in MoveLists, NEW e, read[e] \in Int
    PROVE  \E f \in [0 .. Len(SidesOf(list)) -> Int] :
              /\ f[0] = read[e]
              /\ \A k \in 0 .. Len(SidesOf(list)) : Running(read, SidesOf(list), e, k) = f[k]
              /\ \A k \in 1 .. Len(SidesOf(list)) : SidesOf(list)[k].who # e => f[k] = f[k - 1]
<1> DEFINE N == Len(SidesOf(list))
<1> DEFINE by(k) == IF SidesOf(list)[k].who = e THEN SidesOf(list)[k].by ELSE 0
<1> DEFINE step == [p \in (1..N) \X Int |-> p[2] + by(p[1])]
<1>1. SidesOf(list) \in Seq(SidesAre(list)) BY SidesPaired
<1>2. N \in Nat BY <1>1, LenProperties
<1>3. \A k \in 1..N : by(k) \in Int
    <2>1. TAKE k \in 1..N
    <2>2. SidesOf(list)[k] \in SidesAre(list) BY <1>1, ElementOfSeq
    <2> QED BY <2>2 DEF SidesAre
<1>4. \A k \in 1..N : SidesOf(list)[k].who # e => by(k) = 0 OBVIOUS
<1> DEFINE Adding(g) == g = [j \in 0..N |-> IF j = 0 THEN read[e] ELSE g[j - 1] + by(j)]
<1> DEFINE u == CHOOSE g : Adding(g)
<1>5. \A k : Running(read, SidesOf(list), e, k) = u[k] BY DEF Running
<1> HIDE DEF N, by
<1>6. step \in [(1..N) \X Int -> Int] BY <1>3
<1> HIDE DEF step
<1>7. PICK f \in [0..N -> Int] : Unfolds(f, N, read[e], step)
    BY <1>2, <1>6, RecursionExists
<1>8. f[0] = read[e] /\ \A n \in 1..N : f[n] = f[n - 1] + by(n)
    <2>1. ASSUME NEW n \in 1..N PROVE f[n] = f[n - 1] + by(n)
        <3>1. n - 1 \in 0..N BY <1>2
        <3>2. f[n - 1] \in Int BY <3>1
        <3>3. step[<<n, f[n - 1]>>] = f[n - 1] + by(n) BY <3>2 DEF step
        <3> QED BY <3>3, <1>7 DEF Unfolds
    <2> QED BY <2>1, <1>7 DEF Unfolds
<1>9. Adding(f)
    <2>1. \A n \in 0..N : f[n] = IF n = 0 THEN read[e] ELSE f[n - 1] + by(n) BY <1>8, <1>2
    <2> QED BY <2>1
<1>10. Adding(u) BY <1>9
<1> HIDE DEF u
<1>11. u[0] = read[e] /\ \A n \in 1..N : u[n] = u[n - 1] + by(n) BY <1>10, <1>2
<1>12. \A n \in 0..N : u[n] = f[n]
    <2> DEFINE T == {n \in Nat : n <= N => u[n] = f[n]}
    <2>1. 0 \in T BY <1>8, <1>11
    <2>2. ASSUME NEW n \in Nat, n \in T PROVE n + 1 \in T
        <3>1. SUFFICES ASSUME n + 1 <= N PROVE u[n + 1] = f[n + 1] OBVIOUS
        <3>2. n + 1 \in 1..N /\ (n + 1) - 1 = n BY <3>1
        <3>3. u[n] = f[n] BY <2>2, <3>1, <1>2
        <3> QED BY <3>2, <3>3, <1>8, <1>11
    <2> HIDE DEF T
    <2>3. Nat \subseteq T BY <2>1, <2>2, Induct
    <2> QED BY <2>3 DEF T
<1>13. \A k \in 1..N : SidesOf(list)[k].who # e => f[k] = f[k - 1]
    <2>1. TAKE k \in 1..N
    <2>2. k - 1 \in 0..N BY <1>2
    <2>3. f[k - 1] \in Int BY <2>2
    <2> QED BY <2>3, <1>4, <1>8
<1> QED BY <1>5, <1>8, <1>12, <1>13 DEF N

(* What a request to move money has in hand.                               *)
LEMMA MovesHold ==
    ASSUME LogKept, inflight.kind = "move"
    PROVE  \E list \in MoveLists : \E read \in [Touched(list) -> Int] :
              /\ Touched(list) \subseteq scope.envelopes
              /\ inflight.read = read /\ inflight.list = list
<1>1. inflight # Idle
    <2>1. Idle.kind = None /\ None # "move" BY NoneAssumption DEF Idle
    <2> QED BY <2>1
<1>2. ASSUME UndoingMove(inflight) PROVE FALSE
    <2>1. PICK m \in 1 .. batches, rows \in SUBSET Rows :
            \E read \in [{log[i].entity : i \in rows} -> Int] :
              inflight = [kind |-> "undo move", read |-> read, rows |-> rows, move |-> m]
        BY <1>2 DEF UndoingMove
    <2>2. inflight.kind = "undo move"
        <3>1. PICK read \in [{log[i].entity : i \in rows} -> Int] :
              inflight = [kind |-> "undo move", read |-> read, rows |-> rows, move |-> m]
            BY <2>1
        <3> QED BY <3>1
    <2> QED BY <2>2
<1>3. ASSUME Assigning(inflight) PROVE FALSE
    <2>1. PICK e \in scope.envelopes, was \in Int, now \in Int :
            inflight = [kind |-> "assign", read |-> [x \in {e} |-> was], new |-> [x \in {e} |-> now]]
        BY <1>3 DEF Assigning
    <2>2. inflight.kind = "assign" BY <2>1
    <2> QED BY <2>2
<1>4. Moving(inflight) BY <1>1, <1>2, <1>3 DEF LogKept, InFlight
<1>5. PICK list \in MoveLists : \E read \in [Touched(list) -> Int] :
         /\ Touched(list) \subseteq scope.envelopes
         /\ inflight = [kind |-> "move", read |-> read, list |-> list]
    BY <1>4 DEF Moving
<1>6. PICK read \in [Touched(list) -> Int] :
         /\ Touched(list) \subseteq scope.envelopes
         /\ inflight = [kind |-> "move", read |-> read, list |-> list]
    BY <1>5
<1> QED BY <1>6

\* The row of the k-th side of a list of moves.
SideRow(list, read, top, k) ==
  LogRow(SidesOf(list)[k].who, "update",
         [assigned |-> Running(read, SidesOf(list), SidesOf(list)[k].who, k - 1)],
         [assigned |-> Running(read, SidesOf(list), SidesOf(list)[k].who, k)],
         top + SidesOf(list)[k].nth, top + 1, "manual")
SideRows(list, read, top) ==
  [k \in 1 .. Len(SidesOf(list)) |-> SideRow(list, read, top, k)]

(* The figures a list of moves goes through.                               *)
LEMMA FiguresAre ==
    ASSUME NEW list \in MoveLists, NEW read \in [Touched(list) -> Int], NEW e \in Touched(list)
    PROVE  /\ \A k \in 0 .. Len(SidesOf(list)) : Running(read, SidesOf(list), e, k) \in Int
           /\ Running(read, SidesOf(list), e, 0) = read[e]
           /\ \A k \in 1 .. Len(SidesOf(list)) : SidesOf(list)[k].who # e =>
                Running(read, SidesOf(list), e, k) = Running(read, SidesOf(list), e, k - 1)
<1>1. read[e] \in Int OBVIOUS
<1>2. PICK f \in [0 .. Len(SidesOf(list)) -> Int] :
              /\ f[0] = read[e]
              /\ \A k \in 0 .. Len(SidesOf(list)) : Running(read, SidesOf(list), e, k) = f[k]
              /\ \A k \in 1 .. Len(SidesOf(list)) : SidesOf(list)[k].who # e => f[k] = f[k - 1]
    BY <1>1, RunningUnfolds
<1>3. Len(SidesOf(list)) \in Nat BY SidesPaired, LenProperties
<1>4. \A k \in 1 .. Len(SidesOf(list)) : k - 1 \in 0 .. Len(SidesOf(list)) /\ k \in 0 .. Len(SidesOf(list))
    BY <1>3
<1>5. 0 \in 0 .. Len(SidesOf(list)) BY <1>3
<1> QED BY <1>2, <1>4, <1>5

(* The rows of a list of moves.                                            *)
LEMMA SideRowsAre ==
    ASSUME LogSound, NEW list \in MoveLists, NEW read \in [Touched(list) -> Int],
           Touched(list) \subseteq scope.envelopes, NEW top \in Nat, top = batches
    PROVE  /\ Appendable(SideRows(list, read, top), scope, top, top + Len(list), syncing)
           /\ Len(SideRows(list, read, top)) = Len(SidesOf(list))
           /\ \A k \in 1 .. Len(SidesOf(list)) :
                /\ SideRows(list, read, top)[k].entity = SidesOf(list)[k].who
                /\ SidesOf(list)[k].who \in Touched(list)
                /\ SideRows(list, read, top)[k].move \in {top + n : n \in 1 .. Len(list)}
                /\ SideRows(list, read, top)[k].batch = top + 1
                /\ Gain(SideRows(list, read, top)[k])
                     = Running(read, SidesOf(list), SidesOf(list)[k].who, k)
                       - Running(read, SidesOf(list), SidesOf(list)[k].who, k - 1)
<1> DEFINE s == SidesOf(list)
<1> DEFINE N == Len(s)
<1> DEFINE new == SideRows(list, read, top)
<1>1. s \in Seq(SidesAre(list)) /\ Paired(s) /\ N \in Nat /\ Len(list) \in Nat
    BY SidesPaired, MovesAssumption, LenProperties
<1>2. new = [k \in 1 .. N |-> SideRow(list, read, top, k)] BY DEF SideRows
<1>3. ASSUME NEW k \in 1 .. N
      PROVE  s[k].who \in Touched(list) /\ s[k].nth \in 1 .. Len(list) /\ s[k].nth \in Int
    <2>1. s[k] \in SidesAre(list) BY <1>1, ElementOfSeq
    <2>2. DOMAIN s = 1 .. N BY <1>1, LenProperties
    <2>3. s[k].nth \in 1 .. Len(list) /\ s[k].nth \in Int BY <2>1, <1>1 DEF SidesAre
    <2>4. s[k].who \in Touched(list) BY <2>2 DEF Touched
    <2> QED BY <2>3, <2>4
<1>4. ASSUME NEW k \in 1 .. N
      PROVE  /\ Running(read, s, s[k].who, k) \in Int /\ Running(read, s, s[k].who, k - 1) \in Int
    <2>1. k \in 0 .. N /\ k - 1 \in 0 .. N BY <1>1
    <2>2. s[k].who \in Touched(list) BY <1>3
    <2> QED BY <2>1, <2>2, FiguresAre
<1> HIDE DEF s, new
<1>5. scope \in Scopes /\ scope.envelopes \cap Legs = {} BY ScopesAssumption DEF LogSound
<1>6. \A n \in Nat : n # None
    <2>1. None \notin Int BY NoneAssumption
    <2> QED BY <2>1
<1>7. ASSUME NEW k \in 1 .. N
      PROVE  /\ new[k] \in LogRecords /\ Sound(new[k], scope, top + Len(list))
             /\ new[k].entity = s[k].who /\ new[k].undone = 0
             /\ new[k].move = top + s[k].nth /\ new[k].batch = top + 1
             /\ new[k].move \in Nat /\ new[k].move # None
             /\ new[k].move \notin 1 .. top /\ new[k].batch \notin 1 .. top
             /\ Gain(new[k]) = Running(read, s, s[k].who, k) - Running(read, s, s[k].who, k - 1)
    <2>1. PICK e, was, now, m : /\ e = s[k].who /\ was = Running(read, s, e, k - 1)
                                /\ now = Running(read, s, e, k) /\ m = top + s[k].nth
        OBVIOUS
    <2>9. was \in Int /\ now \in Int /\ e \in scope.envelopes BY <2>1, <1>3, <1>4
    <2>10. PICK c \in Int : c = s[k].nth /\ c \in 1 .. Len(list) /\ m = top + c BY <2>1, <1>3
    <2>2. /\ was \in Int /\ now \in Int /\ e \in scope.envelopes /\ m \in Nat
          /\ m \in 1 .. top + Len(list) /\ m \notin 1 .. top /\ top + 1 \in 1 .. top + Len(list)
          /\ top + 1 \notin 1 .. top /\ top + 1 \in Nat
        BY <2>9, <2>10, <1>1
    <2>3. new[k] = LogRow(e, "update", [assigned |-> was], [assigned |-> now], m, top + 1, "manual")
        BY <2>1, <1>2 DEF SideRow, s
    <2>4. [assigned |-> was] \in Assignment /\ [assigned |-> now] \in Assignment
        BY <2>2 DEF Assignment
    <2>5. e \in Names /\ e \notin Legs BY <2>2, <1>5 DEF Names
    <2>6. /\ new[k].entity = e /\ new[k].action = "update" /\ new[k].before = [assigned |-> was]
          /\ new[k].after = [assigned |-> now] /\ new[k].move = m /\ new[k].batch = top + 1
          /\ new[k].undone = 0
        BY <2>3 DEF LogRow
    <2>7. new[k] \in LogRecords
        BY <2>2, <2>3, <2>4, <2>5 DEF LogRow, LogRecords, Actions, Source
    <2>8. Sound(new[k], scope, top + Len(list))
        BY <2>2, <2>4, <2>5, <2>6, <1>6 DEF Sound, Kind
    <2> QED BY <2>1, <2>2, <2>6, <2>7, <2>8, <1>6 DEF Gain
<1>8. new \in Seq(LogRecords) /\ Len(new) = N
    <2>1. new = [k \in 1 .. N |-> new[k]] BY <1>2
    <2>2. new \in [1 .. N -> LogRecords] BY <2>1, <1>7
    <2>3. new \in Seq(LogRecords) BY <2>2, <1>1
    <2> QED BY <2>2, <2>3, <1>1, LenProperties
<1>9. MovesWhole(new)
    <2>1. SUFFICES ASSUME NEW i \in 1 .. N, NEW k \in 1 .. N, new[k].move = new[i].move, i # k
                   PROVE  Twins(new, i, k)
        BY <1>8 DEF MovesWhole
    <2>4. PICK x \in Int, y \in Int : x = s[k].nth /\ y = s[i].nth BY <1>3
    <2>5. top + x = top + y BY <2>1, <2>4, <1>7
    <2>2. s[k].nth = s[i].nth BY <2>4, <2>5
    <2>3. s[i].who # s[k].who /\ (k = i + 1 \/ i = k + 1) BY <2>1, <2>2, <1>1 DEF Paired
    <2> QED BY <2>3, <1>7 DEF Twins
<1>10. BatchesPure(new) BY <1>7, <1>8 DEF BatchesPure
<1>11. Appendable(new, scope, top, top + Len(list), syncing)
    BY <1>7, <1>8, <1>9, <1>10 DEF Appendable
<1>12. \A k \in 1 .. N : new[k].move \in {top + n : n \in 1 .. Len(list)} BY <1>3, <1>7
<1> QED BY <1>3, <1>7, <1>8, <1>11, <1>12 DEF s, new

(* move_money_many, at its writing.                                        *)
LEMMA FinishMovesKeeps ==
    ASSUME LogKept, FinishMoves
    PROVE  LogKept'
<1>1. LogSound /\ inflight.kind = "move" BY DEF LogKept, FinishMoves
<1>2. PICK list \in MoveLists : \E read \in [Touched(list) -> Int] :
              /\ Touched(list) \subseteq scope.envelopes
              /\ inflight.read = read /\ inflight.list = list
    BY <1>1, MovesHold
<1>3. PICK read \in [Touched(list) -> Int] :
              /\ Touched(list) \subseteq scope.envelopes
              /\ inflight.read = read /\ inflight.list = list
    BY <1>2
<1>4. PICK top \in Nat : top = batches BY <1>1 DEF LogSound
<1>5. PICK new : new = SideRows(list, read, top) OBVIOUS
<1>6. PICK n : n = Len(SidesOf(list)) OBVIOUS
<1>7. PICK held : held = [e \in DOMAIN read |-> Running(read, SidesOf(list), e, n)] OBVIOUS
<1>8. PICK d : d = Write(held) OBVIOUS
<1>9. /\ Room(n) /\ db' = d
      /\ moves' = moves \cup {top + k : k \in 1 .. Len(list)}
      /\ batches' = top + Len(list)
      /\ raced' = (raced \/ Stale(read)) /\ inflight' = Idle
      /\ UNCHANGED <<scope, syncing, forced, torn, undoSeq, undos>>
    BY <1>3, <1>4, <1>6, <1>7, <1>8 DEF FinishMoves, EndRequest
<1>10. log' = log \o new
    <2>1. log' = log \o [k \in 1 .. Len(SidesOf(list)) |->
                LogRow(SidesOf(list)[k].who, "update",
                       [assigned |-> Running(read, SidesOf(list), SidesOf(list)[k].who, k - 1)],
                       [assigned |-> Running(read, SidesOf(list), SidesOf(list)[k].who, k)],
                       batches + SidesOf(list)[k].nth, FreshBatch, "manual")]
        BY <1>3 DEF FinishMoves
    <2> QED BY <2>1, <1>4, <1>5 DEF SideRows, SideRow, FreshBatch
<1>11. /\ Appendable(new, scope, top, top + Len(list), syncing)
       /\ Len(new) = n
       /\ \A k \in 1 .. n :
            /\ new[k].entity = SidesOf(list)[k].who
            /\ SidesOf(list)[k].who \in Touched(list)
            /\ new[k].move \in {top + m : m \in 1 .. Len(list)}
            /\ new[k].batch = top + 1
            /\ Gain(new[k]) = Running(read, SidesOf(list), SidesOf(list)[k].who, k)
                              - Running(read, SidesOf(list), SidesOf(list)[k].who, k - 1)
    BY <1>1, <1>3, <1>4, <1>5, <1>6, SideRowsAre
<1>12. Appendable(new, scope, batches, batches', syncing) BY <1>4, <1>9, <1>11
<1>13. /\ batches \in Nat /\ batches' \in Nat /\ batches <= batches' /\ n \in Nat
       /\ moves \subseteq 1 .. batches /\ syncing \in {None} \cup 1 .. batches
    <2>1. Len(list) \in Nat BY MovesAssumption, LenProperties
    <2>2. n \in Nat BY <1>6, SidesPaired, LenProperties
    <2> QED BY <2>1, <2>2, <1>1, <1>4, <1>9 DEF LogSound
<1>14. d \in Tables(scope)
       /\ \A e \in scope.envelopes : d[e].assigned =
             IF e \in Touched(list) THEN Running(read, SidesOf(list), e, n) ELSE db[e].assigned
    <2>1. DOMAIN held = Touched(list)
          /\ \A e \in Touched(list) : held[e] = Running(read, SidesOf(list), e, n)
        BY <1>7
    <2>2. \A e \in DOMAIN held : held[e] \in Int
        <3>1. n \in 0 .. n BY <1>13
        <3> QED BY <2>1, <3>1, <1>6, FiguresAre
    <2>3. DOMAIN held \subseteq scope.envelopes BY <2>1, <1>3
    <2>4. /\ d \in Tables(scope)
          /\ \A x \in scope.envelopes :
                d[x].assigned = IF x \in DOMAIN held THEN held[x] ELSE db[x].assigned
        BY <1>1, <1>8, <2>2, <2>3, WrittenIs
    <2> QED BY <2>1, <2>4
<1>15. ASSUME ~raced', ~forced', NEW e \in scope.envelopes
       PROVE  d[e].assigned = WorthOf(log', e, LiveOf(log'))
    <2>1. db[e].assigned = WorthOf(log, e, LiveOf(log)) /\ ~Stale(read)
        BY <1>9, <1>15 DEF LogKept, AssignedIsReplay, Replay, LiveOf, Rows, IsLive
    <2>2. Growth(new, e, WorthOf(log, e, LiveOf(log)), WorthOf(log', e, LiveOf(log')))
        BY <1>1, <1>10, <1>12, <1>13, GrownWorth
    <2>3. PICK g \in [0 .. n -> Int] :
              /\ g[0] = db[e].assigned /\ g[n] = WorthOf(log', e, LiveOf(log'))
              /\ \A k \in 1 .. n : g[k] = g[k - 1] + IF new[k].entity = e THEN Gain(new[k]) ELSE 0
        BY <2>1, <2>2, <1>11 DEF Growth
    <2>4. 0 \in 0 .. n /\ n \in 0 .. n BY <1>13
    <2>5. CASE e \notin Touched(list)
        <3>1. \A k \in 1 .. n : new[k].entity # e BY <2>5, <1>11
        <3> DEFINE T == {k \in Nat : k <= n => g[k] = g[0]}
        <3>2. 0 \in T OBVIOUS
        <3>3. ASSUME NEW k \in Nat, k \in T PROVE k + 1 \in T
            <4>1. SUFFICES ASSUME k + 1 <= n PROVE g[k + 1] = g[0] OBVIOUS
            <4>2. k + 1 \in 1 .. n /\ (k + 1) - 1 = k /\ k \in 0 .. n BY <4>1, <1>13
            <4>3. g[k] = g[0] /\ g[k] \in Int BY <3>3, <4>1, <4>2, <1>13
            <4> QED BY <4>2, <4>3, <3>1, <2>3
        <3> HIDE DEF T
        <3>4. Nat \subseteq T BY <3>2, <3>3, Induct
        <3>5. g[n] = g[0] BY <3>4, <1>13 DEF T
        <3> QED BY <3>5, <2>3, <2>5, <1>14
    <2>6. CASE e \in Touched(list)
        <3> DEFINE R(k) == Running(read, SidesOf(list), e, k)
        <3>1. /\ \A k \in 0 .. n : R(k) \in Int
              /\ R(0) = read[e]
              /\ \A k \in 1 .. n : SidesOf(list)[k].who # e => R(k) = R(k - 1)
            BY <2>6, <1>6, FiguresAre
        <3>2. \A k \in 1 .. n : new[k].entity = e => Gain(new[k]) = R(k) - R(k - 1) BY <1>11
        <3>3. \A k \in 1 .. n : new[k].entity # e => R(k) = R(k - 1) BY <3>1, <1>11
        <3>4. db[e].assigned = read[e] BY <2>1, <2>6 DEF Stale
        <3>5. d[e].assigned = R(n) BY <2>6, <1>14
        <3> HIDE DEF R
        <3> DEFINE T == {k \in Nat : k <= n => g[k] = R(k)}
        <3>6. 0 \in T BY <3>1, <3>4, <2>3
        <3>7. ASSUME NEW k \in Nat, k \in T PROVE k + 1 \in T
            <4>1. SUFFICES ASSUME k + 1 <= n PROVE g[k + 1] = R(k + 1) OBVIOUS
            <4>2. k + 1 \in 1 .. n /\ (k + 1) - 1 = k /\ k \in 0 .. n /\ k + 1 \in 0 .. n
                BY <4>1, <1>13
            <4>3. g[k] = R(k) /\ g[k] \in Int /\ R(k) \in Int /\ R(k + 1) \in Int
                BY <3>1, <3>7, <4>1, <4>2, <1>13
            <4>4. g[k + 1] = g[k] + IF new[k + 1].entity = e THEN Gain(new[k + 1]) ELSE 0
                BY <4>2, <2>3
            <4>5. CASE new[k + 1].entity = e
                <5>1. Gain(new[k + 1]) = R(k + 1) - R(k) BY <4>2, <4>5, <3>2
                <5> QED BY <5>1, <4>3, <4>4, <4>5
            <4>6. CASE new[k + 1].entity # e
                <5>1. R(k + 1) = R(k) BY <4>2, <4>6, <3>3
                <5> QED BY <5>1, <4>3, <4>4, <4>6
            <4> QED BY <4>5, <4>6
        <3> HIDE DEF T
        <3>8. Nat \subseteq T BY <3>6, <3>7, Induct
        <3>9. g[n] = R(n) BY <3>8, <1>13 DEF T
        <3> QED BY <3>5, <3>9, <2>3
    <2> QED BY <2>5, <2>6
<1>16. /\ moves \subseteq moves' /\ moves' \subseteq 1 .. batches' /\ moves' \cap 1 .. batches = moves
       /\ \A k \in 1 .. Len(new) : new[k].move # None => new[k].move \in moves'
    <2>1. Len(list) \in Nat BY MovesAssumption, LenProperties
    <2>2. ASSUME NEW k \in 1 .. Len(list) PROVE top + k \in 1 .. batches' /\ top + k \notin 1 .. batches
        BY <2>1, <1>4, <1>9
    <2>3. 1 .. batches \subseteq 1 .. batches' BY <1>13
    <2>4. moves \subseteq moves' BY <1>9
    <2>5. moves' \subseteq 1 .. batches' BY <2>2, <2>3, <1>9, <1>13
    <2>6. moves' \cap 1 .. batches = moves BY <2>2, <1>9, <1>13
    <2>7. \A k \in 1 .. Len(new) : new[k].move # None => new[k].move \in moves' BY <1>9, <1>11
    <2> QED BY <2>4, <2>5, <2>6, <2>7
<1>17. Len(log) + Len(new) <= scope.rows BY <1>9, <1>11 DEF Room
<1>18. SyncApart(log', syncing')
    <2>1. /\ \A i \in Rows : log'[i] = log[i]
          /\ \A i \in Rows' \ Rows : /\ i - Len(log) \in 1 .. Len(new) /\ i \in Int
                                     /\ log'[i] = new[i - Len(log)]
        <3>1. new \in Seq(LogRecords) /\ \A k \in 1 .. Len(new) : new[k].undone = 0
            BY <1>11 DEF Appendable
        <3> QED BY <3>1, <1>1, <1>10, GrownIs
    <2>2. \A i \in Rows' \ Rows : log'[i].batch = top + 1 BY <2>1, <1>11
    <2>3. SyncApart(log, syncing) /\ syncing' = syncing BY <1>1, <1>9 DEF LogSound
    <2>4. syncing # None => syncing # top + 1 BY <1>4, <1>13
    <2> QED BY <2>1, <2>2, <2>3, <2>4 DEF SyncApart, Rows
<1>19. /\ raced' \in BOOLEAN /\ (raced => raced') /\ inflight' \in {inflight, Idle}
       /\ syncing' \in {None} \cup 1 .. batches'
       /\ UNCHANGED <<scope, undoSeq, undos, forced, torn>>
    <2>1. raced \in BOOLEAN BY <1>1 DEF LogSound
    <2>2. raced' \in BOOLEAN /\ (raced => raced') BY <2>1, <1>9 DEF Stale
    <2>3. 1 .. batches \subseteq 1 .. batches' BY <1>13
    <2> QED BY <2>2, <2>3, <1>9, <1>13
<1>20. ~raced' /\ ~forced' =>
          \A x \in scope.envelopes : d[x].assigned = WorthOf(log', x, LiveOf(log'))
    BY <1>15
<1> QED BY <1>9, <1>10, <1>12, <1>13, <1>14, <1>16, <1>17, <1>18, <1>19, <1>20, GrowKeeps

-----------------------------------------------------------------------------
(* The whole specification.                                                *)

(* A step that only changes what is in flight.                             *)
LEMMA QuietKeeps ==
    ASSUME LogKept, InFlight',
           UNCHANGED <<scope, db, log, moves, syncing, undoSeq, undos, batches, raced, forced, torn>>
    PROVE  LogKept'
<1>1. LogSound' BY DEF LogKept, LogSound, Rows
<1>2. Listed' BY DEF LogKept, Listed, Rows, IsLive
<1>3. AssignedIsReplay'
    <2>1. \A e \in scope.envelopes : Replay(e)' = Replay(e) BY DEF Replay, Rows, IsLive
    <2> QED BY <2>1 DEF LogKept, AssignedIsReplay
<1> QED BY <1>1, <1>2, <1>3 DEF LogKept

(* A request that begins has read what is there.                           *)
LEMMA BeginAssignKeeps ==
    ASSUME LogKept, NEW e \in scope.envelopes, NEW n \in Figures, BeginAssign(e, n)
    PROVE  LogKept'
<1>1. /\ LogSound /\ e \notin Legs /\ db[e] \in Assignment
    <2>1. LogSound BY DEF LogKept
    <2>2. e \notin Legs BY <2>1, PricedLog
    <2> QED BY <2>1, <2>2 DEF LogSound, Tables, Kind
<1>2. PICK was \in Int : was = db[e].assigned BY <1>1 DEF Assignment
<1>3. n \in Int BY BoundsAssumption
<1>4. inflight' = [kind |-> "assign", read |-> [x \in {e} |-> was], new |-> [x \in {e} |-> n]]
    <2>1. Reads({e}) = [x \in {e} |-> was] BY <1>2 DEF Reads
    <2> QED BY <2>1 DEF BeginAssign, BeginRequest
<1>5. UNCHANGED <<scope, db, log, moves, syncing, undoSeq, undos, batches, raced, forced, torn>>
    BY DEF BeginAssign, BeginRequest
<1>6. Assigning(inflight)' BY <1>3, <1>4, <1>5 DEF Assigning
<1>7. InFlight' BY <1>6 DEF InFlight
<1> QED BY <1>5, <1>7, QuietKeeps

LEMMA BeginMovesKeeps ==
    ASSUME LogKept, NEW list \in MoveLists, BeginMoves(list)
    PROVE  LogKept'
<1>1. LogSound BY DEF LogKept
<1>2. Touched(list) \subseteq scope.envelopes BY DEF BeginMoves
<1>3. PICK read : read = Reads(Touched(list)) OBVIOUS
<1>4. read \in [Touched(list) -> Int]
    <2>1. \A e \in Touched(list) : db[e].assigned \in Int
        <3>1. TAKE e \in Touched(list)
        <3>2. e \in scope.envelopes /\ e \notin Legs BY <1>1, <1>2, PricedLog
        <3>3. db[e] \in Assignment BY <1>1, <3>2 DEF LogSound, Tables, Kind
        <3> QED BY <3>3 DEF Assignment
    <2> QED BY <2>1, <1>3 DEF Reads
<1>5. inflight' = [kind |-> "move", read |-> read, list |-> list]
    BY <1>3 DEF BeginMoves, BeginRequest
<1>6. UNCHANGED <<scope, db, log, moves, syncing, undoSeq, undos, batches, raced, forced, torn>>
    BY DEF BeginMoves, BeginRequest
<1>7. Moving(inflight)' BY <1>2, <1>4, <1>5, <1>6 DEF Moving
<1>8. InFlight' BY <1>7 DEF InFlight
<1> QED BY <1>6, <1>8, QuietKeeps

LEMMA BeginUndoMoveKeeps ==
    ASSUME LogKept, NEW m \in moves, BeginUndoMove(m)
    PROVE  LogKept'
<1>1. LogSound /\ Listed BY DEF LogKept
<1>2. PICK rows : rows = {i \in MoveRows(m) : IsLive(i)} OBVIOUS
<1>3. m \in 1 .. batches /\ rows \in SUBSET Rows BY <1>1, <1>2 DEF LogSound, MoveRows, Visible
<1>4. \A i \in rows : log[i].move = m BY <1>2 DEF MoveRows
<1>5. m # None
    <2>1. batches \in Nat /\ None \notin Int BY <1>1, NoneAssumption DEF LogSound
    <2> QED BY <2>1, <1>3
<1>6. ASSUME ~raced, NEW i \in Rows, log[i].move = m PROVE i \in rows
    <2>1. IsLive(i) BY <1>1, <1>5, <1>6 DEF Listed
    <2>2. i \in Visible
        <3>1. log[i].entity \notin Legs BY <1>1, <1>5, <1>6, RowIs DEF Sound
        <3>2. SyncApart(log, syncing) BY <1>1 DEF LogSound
        <3> QED BY <3>1, <3>2, <1>6 DEF SyncApart, Visible, Rows
    <2> QED BY <2>1, <2>2, <1>2, <1>6 DEF MoveRows
<1>7. PICK read : read = Reads({log[i].entity : i \in rows}) OBVIOUS
<1>8. read \in [{log[i].entity : i \in rows} -> Int]
    <2>1. \A i \in rows : db[log[i].entity].assigned \in Int
        <3>1. TAKE i \in rows
        <3>2. log[i].entity \in Entities /\ log[i].entity \notin Legs
            BY <1>1, <1>3, <1>4, <1>5, RowIs DEF Sound
        <3>3. db[log[i].entity] \in Assignment BY <1>1, <3>2 DEF LogSound, Tables, Kind, Entities
        <3> QED BY <3>3 DEF Assignment
    <2> QED BY <2>1, <1>7 DEF Reads
<1>9. inflight' = [kind |-> "undo move", read |-> read, rows |-> rows, move |-> m]
    BY <1>2, <1>7 DEF BeginUndoMove, BeginRequest
<1>10. UNCHANGED <<scope, db, log, moves, syncing, undoSeq, undos, batches, raced, forced, torn>>
    BY DEF BeginUndoMove, BeginRequest
<1>11. Rows' = Rows BY <1>10 DEF Rows
<1>12. UndoingMove(inflight)'
    <2>1. /\ \A i \in rows : log'[i].move = m
          /\ ~raced' => \A i \in Rows' : log'[i].move = m => i \in rows
          /\ read \in [{log'[i].entity : i \in rows} -> Int]
          /\ m \in 1 .. batches' /\ rows \in SUBSET Rows'
        BY <1>3, <1>4, <1>6, <1>8, <1>10, <1>11
    <2> QED BY <2>1, <1>9 DEF UndoingMove
<1>13. InFlight' BY <1>12 DEF InFlight
<1> QED BY <1>10, <1>13, QuietKeeps

(* Every step keeps the log.                                               *)
LEMMA StepKeeps ==
    ASSUME LogKept, [Next]_vars
    PROVE  LogKept'
<1>1. CASE UNCHANGED vars
    <2>1. UNCHANGED <<scope, db, log, moves, syncing, undoSeq, undos, batches, raced, forced, torn>>
          /\ UNCHANGED inflight
        BY <1>1 DEF vars
    <2>2. /\ batches' \in Nat /\ batches <= batches' /\ Rows' = Rows
          /\ \A i \in Rows : log'[i].entity = log[i].entity /\ log'[i].move = log[i].move
        BY <2>1 DEF LogKept, LogSound, Rows
    <2>3. InFlight' BY <2>1, <2>2, InFlightKept
    <2> QED BY <2>1, <2>3, QuietKeeps
<1>2. CASE \E e \in scope.envelopes, n \in Figures : BeginAssign(e, n) BY <1>2, BeginAssignKeeps
<1>3. CASE \E list \in MoveLists : BeginMoves(list) BY <1>3, BeginMovesKeeps
<1>4. CASE \E m \in moves : BeginUndoMove(m) BY <1>4, BeginUndoMoveKeeps
<1>5. CASE FinishAssign BY <1>5, FinishAssignKeeps
<1>6. CASE FinishMoves BY <1>6, FinishMovesKeeps
<1>7. CASE FinishUndoMove BY <1>7, FinishUndoMoveKeeps
<1>8. CASE \E l \in scope.legs : SyncImport(l) BY <1>8, SyncImportKeeps
<1>9. CASE SyncCommit BY <1>9, SyncCommitKeeps
<1>10. CASE \E l \in scope.legs : \/ EditMemo(l) \/ EditAmount(l) \/ ToggleCleared(l)
                                  \/ Delete(l) \/ Unreconcile(l) \/ Finish(l)
    BY <1>10, EditKeeps
<1>11. CASE UndoLatest BY <1>11, UndoLatestKeeps
<1>12. CASE \E i \in Rows, force \in Forces : UndoChange(i, force) \/ UndoNewer(i, force)
    BY <1>12, UndoChangeKeeps, UndoNewerKeeps DEF UndoChange
<1>13. CASE \E i \in Rows : UndoBatchLeniently(i) BY <1>13, UndoLenientlyKeeps
<1>14. CASE \E force \in Forces : RedoLatest(force) BY <1>14, RedoKeeps
<1> QED BY <1>1, <1>2, <1>3, <1>4, <1>5, <1>6, <1>7, <1>8, <1>9, <1>10, <1>11, <1>12, <1>13, <1>14
        DEF Next

-----------------------------------------------------------------------------
(* The rows a first sync left are sound.                                   *)
LEMMA FirstSyncIs ==
    ASSUME NEW sc \in Scopes, sc.legs = Legs
    PROVE  /\ FirstSync \in Seq(LogRecords) /\ Len(FirstSync) = 4
           /\ \A i \in 1 .. 4 : /\ Sound(FirstSync[i], sc, 1)
                                /\ FirstSync[i].undone = 0 /\ FirstSync[i].move = None
                                /\ FirstSync[i].entity \in Legs
<1> DEFINE import(l) == LogRow(l, "import", NoRow, Imported, None, 1, "system")
<1> DEFINE link(l) == LogRow(l, "update", Imported, Linked(Imported), None, 1, "manual")
<1> DEFINE Fit(r) == /\ r \in LogRecords /\ Sound(r, sc, 1)
                     /\ r.undone = 0 /\ r.move = None /\ r.entity \in Legs
<1>1. NoRow \in Transaction /\ Imported \in Transaction /\ Linked(Imported) \in Transaction
    BY DEF NoRow, Imported, Linked, Transaction
<1>2. 1 # None
    <2>1. None \notin Int BY NoneAssumption
    <2> QED BY <2>1
<1>3. ASSUME NEW l \in Legs PROVE Fit(import(l))
    <2>1. import(l) = [entity |-> l, action |-> "import", before |-> NoRow, after |-> Imported,
                       move |-> None, batch |-> 1, source |-> "system", undone |-> 0]
        BY DEF LogRow
    <2> HIDE DEF import
    <2>2. import(l) \in LogRecords BY <2>1, <1>1 DEF LogRecords, Names, Actions, Source
    <2>3. Sound(import(l), sc, 1) BY <2>1, <1>1, <1>2 DEF Sound, Kind
    <2> QED BY <2>1, <2>2, <2>3
<1>4. ASSUME NEW l \in Legs PROVE Fit(link(l))
    <2>1. link(l) = [entity |-> l, action |-> "update", before |-> Imported,
                     after |-> Linked(Imported), move |-> None, batch |-> 1,
                     source |-> "manual", undone |-> 0]
        BY DEF LogRow
    <2> HIDE DEF link
    <2>2. link(l) \in LogRecords BY <2>1, <1>1 DEF LogRecords, Names, Actions, Source
    <2>3. Sound(link(l), sc, 1) BY <2>1, <1>1, <1>2 DEF Sound, Kind
    <2> QED BY <2>1, <2>2, <2>3
<1>5. FirstSync = <<import("out"), import("in"), link("out"), link("in")>>
    BY DEF FirstSync, LinkSource
<1>6. "out" \in Legs /\ "in" \in Legs BY DEF Legs
<1> HIDE DEF import, link
<1>7. /\ import("out") \in LogRecords /\ import("in") \in LogRecords
      /\ link("out") \in LogRecords /\ link("in") \in LogRecords
    BY <1>3, <1>4, <1>6
<1>8. FirstSync \in Seq(LogRecords) /\ Len(FirstSync) = 4 BY <1>5, <1>7
<1>9. ASSUME NEW i \in 1 .. 4 PROVE Fit(FirstSync[i])
    <2>1. i = 1 \/ i = 2 \/ i = 3 \/ i = 4 OBVIOUS
    <2>2. CASE i = 1 BY <2>2, <1>3, <1>5, <1>6
    <2>3. CASE i = 2 BY <2>3, <1>3, <1>5, <1>6
    <2>4. CASE i = 3 BY <2>4, <1>4, <1>5, <1>6
    <2>5. CASE i = 4 BY <2>5, <1>4, <1>5, <1>6
    <2> QED BY <2>1, <2>2, <2>3, <2>4, <2>5
<1> QED BY <1>8, <1>9

(* The program begins with a log that keeps its rules.                     *)
LEMMA InitKeeps == ASSUME Init PROVE LogKept
<1>1. /\ scope \in Scopes /\ scope.rows \in Nat /\ scope.legs \subseteq Legs
      /\ scope.envelopes \cap (Legs \cup {TBA}) = {} /\ scope.arrived \in BOOLEAN
    BY ScopesAssumption DEF Init
<1>2. /\ moves = {} /\ syncing = None /\ inflight = Idle /\ undoSeq = 0 /\ undos = 0
      /\ ~raced /\ ~forced /\ ~torn
    BY DEF Init
<1>3. \A e \in scope.envelopes : e \notin Legs /\ e \in Entities BY <1>1 DEF Entities
<1>4. db \in Tables(scope)
    <2> DEFINE start(e) == IF e \notin Legs THEN [assigned |-> 0]
                           ELSE IF scope.arrived THEN Linked(Imported) ELSE NoRow
    <2>1. db = [e \in Entities |-> start(e)] BY DEF Init
    <2>2. NoRow \in Transaction /\ Linked(Imported) \in Transaction
        BY DEF NoRow, Imported, Linked, Transaction
    <2>3. [assigned |-> 0] \in Assignment BY DEF Assignment
    <2>4. \A e \in Entities : start(e) \in Kind(scope, e) BY <2>2, <2>3 DEF Kind
    <2>5. \A e \in Entities : start(e) \in Transaction \cup Assignment BY <2>4 DEF Kind
    <2> HIDE DEF start
    <2>6. db \in [Entities -> Transaction \cup Assignment] BY <2>1, <2>5
    <2>7. \A e \in Entities : db[e] \in Kind(scope, e) BY <2>1, <2>4
    <2> QED BY <2>6, <2>7 DEF Tables, Entities
<1>5. /\ log \in Seq(LogRecords) /\ Len(log) <= scope.rows /\ Len(log) <= 4 /\ batches \in Nat
      /\ \A i \in Rows : /\ Sound(log[i], scope, batches)
                         /\ log[i].undone = 0 /\ log[i].move = None
                         /\ log[i].entity \in Legs
    <2>1. CASE scope.arrived
        <3>1. log = FirstSync /\ batches = 1 BY <2>1 DEF Init
        <3>2. scope.legs = Legs /\ scope.rows >= 4 BY <1>1, <2>1, ScopesAssumption
        <3>3. /\ FirstSync \in Seq(LogRecords) /\ Len(FirstSync) = 4
              /\ \A i \in 1 .. 4 : /\ Sound(FirstSync[i], scope, 1)
                                   /\ FirstSync[i].undone = 0 /\ FirstSync[i].move = None
                                   /\ FirstSync[i].entity \in Legs
            BY <1>1, <3>2, FirstSyncIs
        <3> HIDE DEF FirstSync
        <3>4. Rows = 1 .. 4 BY <3>1, <3>3 DEF Rows
        <3>5. /\ log \in Seq(LogRecords) /\ Len(log) = 4 /\ batches \in Nat /\ 4 <= scope.rows
            BY <1>1, <3>1, <3>2, <3>3
        <3>6. \A i \in Rows : /\ Sound(log[i], scope, batches) /\ log[i].undone = 0
                             /\ log[i].move = None /\ log[i].entity \in Legs
            BY <3>1, <3>3, <3>4
        <3> QED BY <3>5, <3>6, <1>1
    <2>2. CASE ~scope.arrived
        <3>1. log = <<>> /\ batches = 0 BY <2>2 DEF Init
        <3>2. Rows = {} BY <3>1 DEF Rows
        <3> QED BY <1>1, <3>1, <3>2
    <2> QED BY <2>1, <2>2
<1>6. Len(log) \in Nat /\ Rows = 1 .. Len(log) BY <1>5 DEF Rows
<1>7. MovesWhole(log) BY <1>5, <1>6 DEF MovesWhole
<1>8. BatchesPure(log) BY <1>5, <1>6 DEF BatchesPure
<1>9. SyncApart(log, syncing) BY <1>5, <1>6 DEF SyncApart
<1>10. LogSound
    <2>1. 0 \in 0 .. MaxUndos /\ moves \subseteq 1 .. batches /\ undoSeq \in Nat
        BY <1>2, BoundsAssumption
    <2>2. raced \in BOOLEAN /\ forced \in BOOLEAN /\ torn \in BOOLEAN BY DEF Init
    <2>3. \A i \in Rows : Sound(log[i], scope, batches) /\ log[i].undone <= undoSeq BY <1>2, <1>5
    <2> QED BY <2>1, <2>2, <2>3, <1>1, <1>2, <1>4, <1>5, <1>7, <1>8, <1>9 DEF LogSound
<1>11. InFlight BY <1>2 DEF InFlight
<1>12. Listed BY <1>5 DEF Listed
<1>13. AssignedIsReplay
    <2> SUFFICES ASSUME NEW e \in scope.envelopes PROVE db[e].assigned = Replay(e)
        BY DEF AssignedIsReplay
    <2> DEFINE live == {i \in Rows : IsLive(i)}
    <2>1. e \in Entities /\ e \notin Legs BY <1>3
    <2>2. db[e].assigned = 0 BY <2>1 DEF Init
    <2>3. \A n \in 1 .. Len(log) : log[n].entity # e BY <2>1, <1>5, <1>6
    <2>4. Priced(log, e) BY <2>3, <1>6 DEF Priced
    <2>5. PICK f \in [0 .. Len(log) -> Int] :
              /\ f[0] = 0 /\ WorthOf(log, e, live) = f[Len(log)]
              /\ \A n \in 1 .. Len(log) : f[n] = f[n - 1] + Share(log, e, live, n)
        BY <2>4, WorthUnfolds
    <2>6. \A n \in 1 .. Len(log) : Share(log, e, live, n) = 0 BY <2>3 DEF Share
    <2>7. \A n \in 1 .. Len(log) : f[n] = f[n - 1] + 0 BY <2>5, <2>6
    <2>8. f[Len(log)] = 0
        <3> DEFINE N == Len(log)
        <3>1. N \in Nat /\ N <= 4 /\ f[0] = 0
            <4>1. N \in Nat BY <1>6
            <4>2. N <= 4 BY <1>5
            <4> QED BY <4>1, <4>2, <2>5
        <3>2. \A n \in 1 .. N : f[n] = f[n - 1] + 0 BY <2>7
        <3> HIDE DEF N
        <3>3. N >= 1 => f[1] = f[0] + 0 BY <3>1, <3>2
        <3>4. N >= 2 => f[2] = f[1] + 0 BY <3>1, <3>2
        <3>5. N >= 3 => f[3] = f[2] + 0 BY <3>1, <3>2
        <3>6. N >= 4 => f[4] = f[3] + 0 BY <3>1, <3>2
        <3>7. N = 0 \/ N = 1 \/ N = 2 \/ N = 3 \/ N = 4 BY <3>1
        <3>8. f[N] = 0 BY <3>1, <3>3, <3>4, <3>5, <3>6, <3>7
        <3> QED BY <3>8 DEF N
    <2> QED BY <2>2, <2>5, <2>8 DEF Replay
<1> QED BY <1>10, <1>11, <1>12, <1>13 DEF LogKept

-----------------------------------------------------------------------------
(* However requests interleave, with nothing but a reading and a writing   *)
(* to hold them together, the log keeps its rules: its rows are sound, the *)
(* rows of a move are two neighbours in one batch, a request in flight     *)
(* holds what it read, and the two promises below.                         *)
THEOREM ChangeLogKept == Spec => []LogKept
<1>1. Init => LogKept BY InitKeeps
<1>2. LogKept /\ [Next]_vars => LogKept' BY StepKeeps
<1> QED BY <1>1, <1>2, PTL DEF Spec

(* Every row of the log is about an entity the budget has and names who    *)
(* wrote it, undo numbers never pass the last one handed out, and rows,    *)
(* moves and requests stay within what was handed out.                     *)
THEOREM ChangeLogTypeOK == Spec => []TypeOK
<1>1. LogKept => TypeOK
    <2> SUFFICES ASSUME LogSound PROVE TypeOK BY DEF LogKept
    <2>1. DOMAIN db = Entities /\ \A e \in Entities : db[e] \in Kind(scope, e)
        BY DEF LogSound, Tables, Entities
    <2>2. ASSUME NEW i \in Rows
          PROVE  log[i].entity \in Entities /\ log[i].source \in Source /\ log[i].undone \in 0 .. undoSeq
        <3>1. log[i] \in LogRecords /\ log[i].entity \in Entities BY RowIs
        <3>2. log[i].undone \in Nat /\ log[i].source \in Source BY <3>1 DEF LogRecords
        <3>3. log[i].undone <= undoSeq /\ undoSeq \in Nat BY DEF LogSound
        <3> QED BY <3>1, <3>2, <3>3
    <2>3. \A e \in Entities : db[e] \in IF e \in Legs THEN Transaction ELSE Assignment
        BY <2>1 DEF Kind
    <2> QED BY <2>1, <2>2, <2>3 DEF TypeOK, LogSound
<1> QED BY <1>1, ChangeLogKept, PTL

(* An envelope holds what the live rows of the log add up to, after any    *)
(* mixture of typed figures, moves, undos by snapshot (of the latest, of   *)
(* one change, of a batch, of a sync, of everything newer), undos of a     *)
(* move by difference, and redos: only a request that wrote from a stale   *)
(* reading, or force, makes or loses money.                                *)
THEOREM ChangeLogAssignedIsReplay == Spec => []AssignedIsReplay
<1>1. LogKept => AssignedIsReplay BY DEF LogKept
<1> QED BY <1>1, ChangeLogKept, PTL

(* The month's list of moves has a move exactly while its rows are live,   *)
(* and its two rows are live or undone together, by whichever of the ways  *)
(* of undoing they were reached.                                           *)
THEOREM ChangeLogMoveAudit == Spec => []MoveAudit
<1>1. LogKept => MoveAudit
    <2> SUFFICES ASSUME Listed, ~raced, NEW i \in Rows, log[i].move # None
                 PROVE  /\ IsLive(i) <=> log[i].move \in moves
                        /\ \A k \in MoveRows(log[i].move) : IsLive(k) <=> IsLive(i)
        BY DEF LogKept, MoveAudit
    <2>1. IsLive(i) <=> log[i].move \in moves BY DEF Listed
    <2>2. ASSUME NEW k \in MoveRows(log[i].move) PROVE IsLive(k) <=> IsLive(i)
        <3>1. k \in Rows /\ log[k].move = log[i].move BY DEF MoveRows, Visible
        <3>2. IsLive(k) <=> log[k].move \in moves BY <3>1 DEF Listed
        <3> QED BY <2>1, <3>1, <3>2
    <2> QED BY <2>1, <2>2
<1> QED BY <1>1, ChangeLogKept, PTL

-----------------------------------------------------------------------------
(* The money of a reconciled row.                                          *)

Held(row) == Reconciled(row) /\ row.live
SameMoney(row, was) ==
  row.live = was.live /\ row.amount = was.amount /\ row.cleared = was.cleared

(* What is written back to a reconciled row passes over its money.         *)
LEMMA WrittenMoney ==
    ASSUME NEW x \in Transaction, Held(x), NEW side
    PROVE  SameMoney(WrittenBack(x, side), x)
<1>1. DOMAIN x = {"live", "amount", "cleared", "memo", "linked"} BY DEF Transaction
<1>2. Skip(x) = {"amount", "cleared"} BY <1>1 DEF Skip, Held, LockedFields
<1>3. \A f \in {"live", "amount", "cleared"} : WrittenBack(x, side)[f] = x[f]
    BY <1>1, <1>2 DEF WrittenBack
<1> QED BY <1>3 DEF SameMoney

(* Taking one change back leaves it alone, unless it is the lock.          *)
LEMMA UndoneMoney ==
    ASSUME LogSound, NEW i \in Rows, NEW d \in Tables(scope), NEW l \in scope.legs, Held(d[l]),
           log[i].entity = l => UndoAllowed(i, d) /\ log[i].action # "reconcile"
    PROVE  SameMoney(Undone(i, d)[l], d[l])
<1>1. l \in Entities /\ l \in Legs /\ d[l] \in Transaction /\ l \in DOMAIN d
    BY ScopesAssumption DEF LogSound, Entities, Tables, Kind
<1>2. CASE log[i].entity # l BY <1>1, <1>2, UndoneIs DEF SameMoney
<1>3. CASE log[i].entity = l
    <2>1. log[i].action \in Actions BY RowIs DEF LogRecords
    <2>2. "live" \in DOMAIN d[l] BY <1>1 DEF Transaction
    <2>3. log[i].action = "update"
        <3>1. log[i].action # "import" BY <1>3 DEF UndoAllowed, Held
        <3>2. log[i].action # "delete" BY <1>3 DEF UndoAllowed, Held
        <3> QED BY <3>1, <3>2, <2>1, <1>3 DEF Actions
    <2>4. Undone(i, d)[l] = WrittenBack(d[l], log[i].before) BY <1>1, <1>3, <2>3 DEF Undone
    <2> QED BY <1>1, <2>4, WrittenMoney
<1> QED BY <1>2, <1>3

(* So does replaying one that is no lock and no delete.                    *)
LEMMA RedoneMoney ==
    ASSUME LogSound, NEW i \in Rows, NEW d \in Tables(scope), NEW l \in scope.legs, Held(d[l]),
           RedoAllowed(i, d), log[i].entity = l => log[i].action \notin {"reconcile", "delete"}
    PROVE  SameMoney(Redone(i, d)[l], d[l])
<1>1. l \in Entities /\ l \in Legs /\ d[l] \in Transaction /\ l \in DOMAIN d
    BY ScopesAssumption DEF LogSound, Entities, Tables, Kind
<1>2. CASE log[i].entity # l BY <1>1, <1>2, RedoneIs DEF SameMoney
<1>3. CASE log[i].entity = l
    <2>1. log[i].action \in Actions BY RowIs DEF LogRecords
    <2>2. log[i].action = "update"
        <3>1. log[i].action # "import" BY <1>3 DEF RedoAllowed, Held
        <3> QED BY <3>1, <2>1, <1>3 DEF Actions
    <2>3. Redone(i, d)[l] = WrittenBack(d[l], log[i].after) BY <1>1, <1>3, <2>2 DEF Redone
    <2> QED BY <1>1, <2>3, WrittenMoney
<1> QED BY <1>2, <1>3

(* A pass that judges each row it takes leaves the money of a locked row,  *)
(* and a pass over moves has nothing to do with the bank's rows.           *)
LEMMA SweepMoney ==
    ASSUME LogSound, NEW S \in SUBSET Rows, NEW pass \in {"allowed", "fresh", "moves"},
           pass = "moves" => \A i \in S : log[i].move # None,
           NEW l \in scope.legs, Held(db[l]),
           \A i \in Sweep(S, pass).took : log[i].entity = l => log[i].action # "reconcile"
    PROVE  SameMoney(Sweep(S, pass).db[l], db[l])
<1> DEFINE N == Len(log)
<1>1. N \in Nat BY DEF LogSound
<1>2. PICK past : Stages(S, pass, past) /\ Sweep(S, pass) = past[N]
    BY SweepUnfolds DEF Stages
<1> DEFINE T == {n \in Nat : n <= N => SameMoney(past[n].db[l], db[l])}
<1>3. 0 \in T BY <1>2 DEF Stages, Begun, SameMoney
<1>4. ASSUME NEW n \in Nat, n \in T PROVE n + 1 \in T
    <2> DEFINE m == n + 1
    <2> DEFINE i == RowAt(m)
    <2>1. SUFFICES ASSUME m <= N PROVE SameMoney(past[m].db[l], db[l]) OBVIOUS
    <2>2. m \in 1..N /\ m - 1 = n /\ n <= N BY <2>1, <1>1
    <2>3. SameMoney(past[n].db[l], db[l]) BY <1>4, <2>2
    <2>4. i \in Rows /\ past[m - 1].db \in Tables(scope) BY <1>2, <2>2, StageIs
    <2>5. CASE i \notin past[m].took
        <3>1. past[m] = past[m - 1] BY <1>2, <2>2, <2>5, StageIs
        <3> QED BY <3>1, <2>2, <2>3
    <2>6. CASE i \in past[m].took
        <3>1. Takes(pass, i, past[m - 1].db, past[m - 1].took) BY <1>2, <2>2, <2>6, StageIs
        <3>2. past[m].db = Undone(i, past[m - 1].db)
            <4>1. past[m] = After(S, pass, m, past[m - 1]) BY <1>2, <2>2 DEF Stages
            <4>2. i \notin past[m - 1].took BY <1>2, <2>2, StageIs
            <4>3. past[m] # past[m - 1] BY <4>2, <2>6
            <4> QED BY <4>1, <4>3 DEF After, RowAt
        <3>3. i \in past[N].took BY <1>2, <2>2, <2>6, StageIs
        <3> DEFINE d == past[n].db
        <3>4. d \in Tables(scope) /\ past[m].db = Undone(i, d) BY <2>2, <2>4, <3>2
        <3>5. log[i].entity = l => UndoAllowed(i, d)
            <4>1. pass # "moves" => UndoAllowed(i, d) BY <2>2, <3>1 DEF Takes, TakeFresh
            <4>2. i \in S BY <1>2, <2>2, <2>6, StageIs
            <4>3. log[i].entity \in Legs => log[i].move = None BY <2>4, RowIs DEF Sound
            <4>4. l \in Legs BY ScopesAssumption DEF LogSound
            <4> QED BY <4>1, <4>2, <4>3, <4>4
        <3>6. log[i].entity = l => log[i].action # "reconcile" BY <3>3, <1>2
        <3>7. SameMoney(d[l], db[l]) BY <2>3
        <3> HIDE DEF d, i, m
        <3>8. Held(d[l]) BY <3>7 DEF Held, SameMoney, Reconciled
        <3>9. SameMoney(Undone(i, d)[l], d[l]) BY <2>4, <3>4, <3>5, <3>6, <3>8, UndoneMoney
        <3> QED BY <3>4, <3>7, <3>9 DEF SameMoney
    <2> QED BY <2>5, <2>6
<1> HIDE DEF T
<1>5. Nat \subseteq T BY <1>3, <1>4, Induct
<1> QED BY <1>1, <1>2, <1>5 DEF T

(* A replay that nothing refuses does, apart from deletes.                 *)
LEMMA ReplayMoney ==
    ASSUME LogSound, NEW S \in SUBSET Rows, Replayed(S).ok, NEW l \in scope.legs, Held(db[l]),
           \A i \in S : log[i].entity = l => log[i].action \notin {"reconcile", "delete"}
    PROVE  SameMoney(Replayed(S).db[l], db[l])
<1> DEFINE N == Len(log)
<1>1. N \in Nat BY DEF LogSound
<1>2. PICK upto \in [0..N -> Retraced] :
              /\ upto[0] = Standing /\ Replayed(S) = upto[N]
              /\ \A n \in 1..N : upto[n] = Onto(S, n, upto[n - 1])
    BY ReplayUnfolds
<1> DEFINE T == {n \in Nat : n <= N /\ upto[n].ok => SameMoney(upto[n].db[l], db[l])}
<1>3. 0 \in T BY <1>2 DEF Standing, SameMoney
<1>4. ASSUME NEW n \in Nat, n \in T PROVE n + 1 \in T
    <2> DEFINE m == n + 1
    <2>1. SUFFICES ASSUME m <= N, upto[m].ok PROVE SameMoney(upto[m].db[l], db[l]) OBVIOUS
    <2>2. m \in 1..N /\ m - 1 = n /\ n <= N /\ n \in 0..N /\ m \in Rows BY <2>1, <1>1 DEF Rows
    <2>3. upto[m] = Onto(S, m, upto[n]) BY <1>2, <2>2
    <2>4. upto[n].db \in Tables(scope) BY <1>2, <2>2 DEF Retraced
    <2>5. CASE m \notin S
        <3>1. upto[m] = upto[n] BY <2>3, <2>5 DEF Onto
        <3> QED BY <3>1, <2>1, <2>2, <1>4
    <2>6. CASE m \in S
        <3> DEFINE d == upto[n].db
        <3>1. upto[m].db = Redone(m, d) /\ upto[n].ok /\ RedoAllowed(m, d)
            <4>1. upto[m] = [db |-> Redone(m, d), ok |-> upto[n].ok /\ RedoAllowed(m, d),
                             fresh |-> upto[n].fresh /\ RedoFresh(m, d)]
                BY <2>3, <2>6 DEF Onto
            <4>2. upto[m].ok = (upto[n].ok /\ RedoAllowed(m, d)) BY <4>1
            <4>3. upto[m].db = Redone(m, d) BY <4>1
            <4> QED BY <4>2, <4>3, <2>1
        <3>2. SameMoney(d[l], db[l]) BY <3>1, <2>2, <1>4
        <3>3. Held(d[l]) BY <3>2 DEF Held, SameMoney, Reconciled
        <3>4. log[m].entity = l => log[m].action \notin {"reconcile", "delete"} BY <2>6
        <3> HIDE DEF d, m
        <3>5. SameMoney(Redone(m, d)[l], d[l]) BY <3>1, <3>3, <3>4, <2>2, <2>4, RedoneMoney DEF d
        <3> QED BY <3>1, <3>2, <3>5 DEF SameMoney
    <2> QED BY <2>5, <2>6
<1> HIDE DEF T
<1>5. Nat \subseteq T BY <1>3, <1>4, Induct
<1> QED BY <1>1, <1>2, <1>5 DEF T

-----------------------------------------------------------------------------
(* What undo and redo may do to a reconciled row that is still there: its   *)
(* money stays, unless a record of a reconciliation of that row goes with   *)
(* it, or redo carries out a delete of that row again. This is LockedStays  *)
(* without its condition on which deletes redo may carry out.               *)
LocksGiveWay(l) == \/ Turned \cap Lockings(l) # {}
                   \/ did' = "redo" /\ Turned \cap Deletes(l) # {}
                   \/ Untouched(l)
LocksHold ==
  did' \in {"undo", "key", "newer", "lenient", "redo"} =>
    \A l \in scope.legs : Held(db[l]) => LocksGiveWay(l)

(* The rows taken back are the ones whose mark turns.                      *)
LEMMA TurnedIs ==
    ASSUME LogSound, NEW S \in SUBSET Live, NEW d, TakeBack(S, d)
    PROVE  Turned = S
<1>1. log' = Marked(S) BY DEF TakeBack
<1>2. S \in SUBSET Rows /\ Rows = 1 .. Len(log) /\ S \subseteq LiveOf(log)
    BY DEF Live, Visible, Rows, LiveOf, IsLive
<1>3. /\ SameButMarks(log, Marked(S)) /\ LiveOf(Marked(S)) = LiveOf(log) \ S
    BY <1>2, MarkedIs
<1>4. Len(Marked(S)) = Len(log) BY <1>3 DEF SameButMarks
<1>5. \A i \in Rows : Marked(S)[i].undone = 0 <=> i \in LiveOf(log) \ S
    BY <1>2, <1>3, <1>4 DEF LiveOf
<1>6. \A i \in Rows : IsLive(i) <=> i \in LiveOf(log) BY <1>2 DEF IsLive, LiveOf
<1>7. \A i \in Rows : i \in Turned <=> i \in S
    <2> SUFFICES ASSUME NEW i \in Rows PROVE i \in Turned <=> i \in S OBVIOUS
    <2>1. log'[i].undone = 0 <=> i \in LiveOf(log) \ S BY <1>1, <1>5
    <2>2. i \in Turned <=> ~(IsLive(i) <=> log'[i].undone = 0) BY DEF Turned, IsLive
    <2>3. IsLive(i) <=> i \in LiveOf(log) BY <1>6
    <2> QED BY <2>1, <2>2, <2>3, <1>2
<1>8. Turned \subseteq Rows BY DEF Turned
<1> QED BY <1>2, <1>7, <1>8

(* Each way of undoing is a pass, and leaves the money of a locked row.    *)
LEMMA PassSpares ==
    ASSUME LogSound, NEW S \in SUBSET Live, NEW pass \in {"allowed", "fresh", "moves"},
           pass = "moves" => \A i \in S : log[i].move # None,
           TakeBack(Sweep(S, pass).took, Sweep(S, pass).db),
           NEW l \in scope.legs, Held(db[l])
    PROVE  LocksGiveWay(l)
<1>1. PICK took, d : took = Sweep(S, pass).took /\ d = Sweep(S, pass).db OBVIOUS
<1>2. S \in SUBSET Rows BY DEF Live, Visible
<1>3. took \subseteq S BY <1>1, <1>2, SweepTyped
<1>4. TakeBack(took, d) BY <1>1
<1>5. took \in SUBSET Live BY <1>3
<1>6. Turned = took BY <1>4, <1>5, TurnedIs
<1>7. db' = d BY <1>4 DEF TakeBack
<1>8. CASE \E i \in took : log[i].entity = l /\ log[i].action = "reconcile"
    <2>1. Turned \cap Lockings(l) # {} BY <1>2, <1>3, <1>6, <1>8 DEF Lockings
    <2> QED BY <2>1 DEF LocksGiveWay
<1>9. CASE \A i \in took : log[i].entity = l => log[i].action # "reconcile"
    <2>1. SameMoney(d[l], db[l]) BY <1>1, <1>2, <1>9, SweepMoney
    <2>2. Untouched(l) BY <1>7, <2>1 DEF Untouched, SameMoney
    <2> QED BY <2>2 DEF LocksGiveWay
<1> QED BY <1>8, <1>9

LEMMA UndoSpares ==
    ASSUME LogSound, NEW l \in scope.legs, Held(db[l]), NEW i, NEW force, NEW kind,
           UndoPending(UndoBatchOf(i), force, kind)
           \/ UndoNewer(i, force) \/ UndoBatchLeniently(i)
    PROVE  LocksGiveWay(l)
<1>1. CASE UndoPending(UndoBatchOf(i), force, kind)
    <2>1. PICK S : S = UndoBatchOf(i) OBVIOUS
    <2>2. S \in SUBSET Live BY <2>1 DEF UndoBatchOf
    <2>3. IF IsMoveBatch(S) /\ ~force
            THEN TakeBack(Sweep(S, "moves").took, Sweep(S, "moves").db)
            ELSE Sweep(S, "allowed").took = S /\ TakeBack(S, Sweep(S, "allowed").db)
        BY <1>1, <2>1 DEF UndoPending, TakeBack
    <2>4. CASE IsMoveBatch(S) /\ ~force
        <3>1. \A k \in S : log[k].move # None BY <2>4 DEF IsMoveBatch
        <3>2. TakeBack(Sweep(S, "moves").took, Sweep(S, "moves").db) BY <2>3, <2>4
        <3> QED BY <2>2, <3>1, <3>2, PassSpares
    <2>5. CASE ~(IsMoveBatch(S) /\ ~force)
        <3>1. TakeBack(Sweep(S, "allowed").took, Sweep(S, "allowed").db) BY <2>3, <2>5
        <3> QED BY <2>2, <3>1, PassSpares
    <2> QED BY <2>4, <2>5
<1>2. CASE UndoNewer(i, force)
    <2>1. PICK S : S = {k \in Live : k > Newest(BatchOf(i))} OBVIOUS
    <2>2. S \in SUBSET Live BY <2>1
    <2>3. Sweep(S, "allowed").took = S /\ TakeBack(S, Sweep(S, "allowed").db)
        BY <1>2, <2>1 DEF UndoNewer, TakeBack
    <2>4. TakeBack(Sweep(S, "allowed").took, Sweep(S, "allowed").db) BY <2>3
    <2> QED BY <2>2, <2>4, PassSpares
<1>3. CASE UndoBatchLeniently(i)
    <2>1. PICK S : S = UndoBatchOf(i) OBVIOUS
    <2>2. S \in SUBSET Live BY <2>1 DEF UndoBatchOf
    <2>3. TakeBack(Sweep(S, "fresh").took, Sweep(S, "fresh").db)
        BY <1>3, <2>1 DEF UndoBatchLeniently, TakeBack
    <2> QED BY <2>2, <2>3, PassSpares
<1> QED BY <1>1, <1>2, <1>3

(* Redo does too, apart from a delete.                                     *)
LEMMA RedoSpares ==
    ASSUME LogSound, NEW l \in scope.legs, Held(db[l]), NEW force, RedoLatest(force)
    PROVE  LocksGiveWay(l)
<1>1. PICK S : S = RedoRows OBVIOUS
<1>2. /\ Undoed # {} /\ Replayed(S).ok /\ db' = Replayed(S).db /\ did' = "redo"
      /\ log' = [i \in Rows |-> IF i \in S THEN [log[i] EXCEPT !.undone = 0] ELSE log[i]]
    BY <1>1 DEF RedoLatest
<1>3. Candidate \in Undoed BY <1>2, CandidateIs
<1>4. S \in SUBSET Rows /\ \A i \in S : ~IsLive(i)
    BY <1>1, <1>3 DEF RedoRows, BatchOf, Undoed, Visible
<1>5. ASSUME NEW i \in S PROVE i \in Turned
    <2>1. i \in Rows /\ ~IsLive(i) /\ log[i] \in LogRecords BY <1>4, RowIs
    <2>2. log'[i] = [log[i] EXCEPT !.undone = 0] BY <1>2, <2>1
    <2>3. log'[i].undone = 0 BY <2>1, <2>2 DEF LogRecords
    <2> QED BY <2>1, <2>3 DEF Turned
<1>6. CASE \E i \in S : log[i].entity = l /\ log[i].action = "reconcile"
    <2>1. Turned \cap Lockings(l) # {} BY <1>4, <1>5, <1>6 DEF Lockings
    <2> QED BY <2>1 DEF LocksGiveWay
<1>7. CASE \E i \in S : log[i].entity = l /\ log[i].action = "delete"
    <2>1. Turned \cap Deletes(l) # {} BY <1>4, <1>5, <1>7 DEF Deletes
    <2> QED BY <1>2, <2>1 DEF LocksGiveWay
<1>8. CASE \A i \in S : log[i].entity = l => log[i].action \notin {"reconcile", "delete"}
    <2>1. SameMoney(Replayed(S).db[l], db[l]) BY <1>2, <1>4, <1>8, ReplayMoney
    <2>2. Untouched(l) BY <1>2, <2>1 DEF Untouched, SameMoney
    <2> QED BY <2>2 DEF LocksGiveWay
<1> QED BY <1>6, <1>7, <1>8

LEMMA StepSpares == ASSUME LogSound, [Next]_vars, NEW l \in scope.legs, Held(db[l]),
                           did' \in {"undo", "key", "newer", "lenient", "redo"}
                    PROVE  LocksGiveWay(l)
<1>1. CASE UNCHANGED vars
    <2>1. Untouched(l) BY <1>1 DEF vars, Untouched
    <2> QED BY <2>1 DEF LocksGiveWay
<1>2. CASE \E e \in scope.envelopes, n \in Figures : BeginAssign(e, n)
    BY <1>2 DEF BeginAssign, BeginRequest
<1>3. CASE \E list \in MoveLists : BeginMoves(list) BY <1>3 DEF BeginMoves, BeginRequest
<1>4. CASE \E m \in moves : BeginUndoMove(m) BY <1>4 DEF BeginUndoMove, BeginRequest
<1>5. CASE FinishAssign \/ FinishMoves BY <1>5 DEF FinishAssign, FinishMoves, EndRequest
<1>6. CASE FinishUndoMove BY <1>6 DEF FinishUndoMove
<1>7. CASE \E m \in scope.legs : SyncImport(m) BY <1>7 DEF SyncImport
<1>8. CASE SyncCommit BY <1>8 DEF SyncCommit
<1>9. CASE \E m \in scope.legs : \/ EditMemo(m) \/ EditAmount(m) \/ ToggleCleared(m)
                                 \/ Delete(m) \/ Unreconcile(m) \/ Finish(m)
    <2>1. did' = "edit" BY <1>9 DEF EditMemo, EditAmount, ToggleCleared, Delete, Unreconcile,
                                    Finish, WritePair, Edited
    <2> QED BY <2>1
<1>10. CASE UndoLatest BY <1>10, UndoSpares DEF UndoLatest
<1>11. CASE \E i \in Rows, force \in Forces : UndoChange(i, force) \/ UndoNewer(i, force)
    BY <1>11, UndoSpares DEF UndoChange
<1>12. CASE \E i \in Rows : UndoBatchLeniently(i) BY <1>12, UndoSpares
<1>13. CASE \E force \in Forces : RedoLatest(force) BY <1>13, RedoSpares
<1> QED BY <1>1, <1>2, <1>3, <1>4, <1>5, <1>6, <1>7, <1>8, <1>9, <1>10, <1>11, <1>12, <1>13
        DEF Next

(* Undo and redo, forced or not, of one change, a batch, a sync's run or   *)
(* everything newer, leave the money of a reconciled row where it is: they *)
(* reach it only through the record of a reconciliation of that row, and   *)
(* redo through a delete of that row made before.                          *)
THEOREM ChangeLogLocksHold == Spec => [][LocksHold]_vars
<1>1. LogKept /\ [Next]_vars => [LocksHold]_vars
    <2> SUFFICES ASSUME LogKept, [Next]_vars PROVE LocksHold OBVIOUS
    <2>1. LogSound BY DEF LogKept
    <2> QED BY <2>1, StepSpares DEF LocksHold
<1> QED BY <1>1, ChangeLogKept, PTL DEF Spec

=============================================================================
