---------------------------- MODULE LedgerProofs ----------------------------
(***************************************************************************)
(* What the register keeps, for every set of accounts, amounts and ledgers *)
(* and for as many requests as one likes. The rules of Ledger are said of  *)
(* a table, so that a request is a lemma about two tables: the one it      *)
(* reads and the one it writes.                                            *)
(***************************************************************************)
EXTENDS Ledger, Induction, SequenceTheorems

-----------------------------------------------------------------------------
(* Totals. *)

\* What row n adds to the total of S.
Share(R, S, n) == IF n \in S /\ n \in 1..Len(R) THEN R[n].amount ELSE 0
Priced(R) == Len(R) \in Nat /\ \A n \in 1..Len(R) : R[n].amount \in Int
Summed(R, S, f) ==
    f = [n \in 0..Len(R) |->
            IF n = 0 THEN 0 ELSE f[n - 1] + IF n \in S THEN R[n].amount ELSE 0]

(* A total is the last of its partial sums.                                *)
LEMMA TotalUnfolds ==
    ASSUME NEW R, NEW S, Priced(R)
    PROVE  \E f \in [0..Len(R) -> Int] :
              /\ f[0] = 0 /\ Total(R, S) = f[Len(R)]
              /\ \A n \in 1..Len(R) : f[n] = f[n - 1] + Share(R, S, n)
<1> DEFINE N == Len(R)
<1> DEFINE step == [p \in (1..N) \X Int |-> p[2] + Share(R, S, p[1])]
<1>1. N \in Nat /\ 0 \in Int /\ \A n \in 1..N : Share(R, S, n) \in Int BY DEF Share, Priced
<1> HIDE DEF N
<1>2. step \in [(1..N) \X Int -> Int] BY <1>1
<1> HIDE DEF step
<1>3. PICK f \in [0..N -> Int] : Unfolds(f, N, 0, step) BY <1>1, <1>2, RecursionExists
<1>4. f[0] = 0 /\ \A n \in 1..N : f[n] = f[n - 1] + Share(R, S, n)
    <2>1. ASSUME NEW n \in 1..N PROVE f[n] = f[n - 1] + Share(R, S, n)
        <3>1. n - 1 \in 0..N BY <1>1
        <3>2. f[n - 1] \in Int BY <3>1
        <3>3. step[<<n, f[n - 1]>>] = f[n - 1] + Share(R, S, n) BY <3>2 DEF step
        <3> QED BY <3>3, <1>3 DEF Unfolds
    <2> QED BY <2>1, <1>3 DEF Unfolds
<1>5. Summed(R, S, f)
    <2>1. \A n \in 1..N : Share(R, S, n) = IF n \in S THEN R[n].amount ELSE 0
        BY DEF Share, N
    <2>2. \A n \in 0..N : f[n] = IF n = 0 THEN 0
                                 ELSE f[n - 1] + IF n \in S THEN R[n].amount ELSE 0
        BY <1>4, <2>1, <1>1
    <2> QED BY <2>2 DEF Summed, N
<1> DEFINE u == CHOOSE g : Summed(R, S, g)
<1>6. Summed(R, S, u) BY <1>5
<1>7. Total(R, S) = u[N] BY DEF Total, Summed, N
<1> HIDE DEF u
<1>8. u[0] = 0 /\ \A n \in 1..N : u[n] = u[n - 1] + Share(R, S, n)
    BY <1>6, <1>1 DEF Summed, N, Share
<1>9. \A n \in 0..N : u[n] = f[n]
    <2> DEFINE T == {n \in Nat : n <= N => u[n] = f[n]}
    <2>1. 0 \in T BY <1>4, <1>8
    <2>2. ASSUME NEW n \in Nat, n \in T PROVE n + 1 \in T
        <3>1. SUFFICES ASSUME n + 1 <= N PROVE u[n + 1] = f[n + 1] OBVIOUS
        <3>2. n + 1 \in 1..N /\ (n + 1) - 1 = n BY <3>1
        <3>3. u[n] = f[n] BY <2>2, <3>1, <1>1
        <3> QED BY <3>2, <3>3, <1>4, <1>8
    <2> HIDE DEF T
    <2>3. Nat \subseteq T BY <2>1, <2>2, Induct
    <2> QED BY <2>3 DEF T
<1>10. u[N] = f[N] BY <1>9, <1>1
<1> QED BY <1>4, <1>7, <1>10 DEF N

(* Two tables, the second as long at least, whose rows share alike but for *)
(* one, which shares d more.                                               *)
LEMMA TotalDiffers ==
    ASSUME NEW R, NEW S, Priced(R), NEW R2, NEW S2, Priced(R2), Len(R) <= Len(R2),
           NEW m \in 1..Len(R2), NEW d \in Int,
           Share(R2, S2, m) = Share(R, S, m) + d,
           \A n \in 1..Len(R2) : n # m => Share(R2, S2, n) = Share(R, S, n)
    PROVE  Total(R2, S2) = Total(R, S) + d
<1> DEFINE N == Len(R)
<1> DEFINE M == Len(R2)
<1>1. N \in Nat /\ M \in Nat /\ N <= M BY DEF Priced
<1>2. PICK f \in [0..N -> Int] :
              /\ f[0] = 0 /\ Total(R, S) = f[N]
              /\ \A n \in 1..N : f[n] = f[n - 1] + Share(R, S, n) BY TotalUnfolds
<1>3. PICK g \in [0..M -> Int] :
              /\ g[0] = 0 /\ Total(R2, S2) = g[M]
              /\ \A n \in 1..M : g[n] = g[n - 1] + Share(R2, S2, n) BY TotalUnfolds
<1> DEFINE low(n) == IF n <= N THEN f[n] ELSE f[N]
<1> DEFINE T == {n \in Nat : n <= M => g[n] = low(n) + IF m <= n THEN d ELSE 0}
<1>4. \A n \in 1..M : /\ Share(R, S, n) \in Int
                      /\ n > N => Share(R, S, n) = 0
    BY <1>1 DEF Share, Priced
<1>5. 0 \in T BY <1>1, <1>2, <1>3
<1>6. ASSUME NEW n \in Nat, n \in T PROVE n + 1 \in T
    <2>1. SUFFICES ASSUME n + 1 <= M
                   PROVE  g[n + 1] = low(n + 1) + IF m <= n + 1 THEN d ELSE 0
        OBVIOUS
    <2>2. n + 1 \in 1..M /\ (n + 1) - 1 = n /\ n <= M BY <2>1, <1>1
    <2>3. g[n] = low(n) + IF m <= n THEN d ELSE 0 BY <1>6, <2>2
    <2>4. g[n + 1] = g[n] + Share(R2, S2, n + 1) BY <2>2, <1>3
    <2>5. low(n) \in Int BY <1>1
    <2>6. low(n + 1) = low(n) + Share(R, S, n + 1)
        <3>1. CASE n + 1 <= N
            <4>1. n + 1 \in 1..N /\ n <= N BY <3>1, <1>1
            <4>2. f[n + 1] = f[n] + Share(R, S, n + 1) BY <4>1, <2>2, <1>2
            <4> QED BY <3>1, <4>1, <4>2
        <3>2. CASE ~(n + 1 <= N)
            <4>1. Share(R, S, n + 1) = 0 BY <3>2, <1>4, <2>2, <1>1
            <4>2. low(n) = f[N] /\ low(n + 1) = f[N] BY <3>2, <1>1
            <4>3. f[N] \in Int BY <1>1
            <4> QED BY <4>1, <4>2, <4>3
        <3> QED BY <3>1, <3>2
    <2>7. Share(R, S, n + 1) \in Int BY <2>2, <1>4
    <2> HIDE DEF low
    <2>8. CASE m = n + 1
        <3>1. Share(R2, S2, n + 1) = Share(R, S, n + 1) + d BY <2>8
        <3>2. ~(m <= n) BY <2>8
        <3> QED BY <3>1, <3>2, <2>3, <2>4, <2>5, <2>6, <2>7, <2>8
    <2>9. CASE m # n + 1
        <3>1. Share(R2, S2, n + 1) = Share(R, S, n + 1) BY <2>9, <2>2
        <3>2. (m <= n) = (m <= n + 1) BY <2>9
        <3> QED BY <3>1, <3>2, <2>3, <2>4, <2>5, <2>6, <2>7
    <2> QED BY <2>8, <2>9
<1> HIDE DEF T
<1>7. Nat \subseteq T BY <1>5, <1>6, Induct
<1>8. g[M] = low(M) + d BY <1>7, <1>1 DEF T
<1>9. low(M) = f[N]
    <2>1. CASE M = N BY <2>1
    <2>2. CASE M # N BY <2>2, <1>1
    <2> QED BY <2>1, <2>2
<1> QED BY <1>2, <1>3, <1>8, <1>9

(* Rows that share alike have one total.                                   *)
LEMMA TotalSame ==
    ASSUME NEW R, NEW S, Priced(R), NEW R2, NEW S2, Priced(R2), Len(R) <= Len(R2),
           \A n \in 1..Len(R2) : Share(R2, S2, n) = Share(R, S, n)
    PROVE  Total(R2, S2) = Total(R, S)
<1>1. CASE Len(R2) = 0
    <2>1. Len(R) = 0 BY <1>1 DEF Priced
    <2> QED BY <1>1, <2>1, TotalUnfolds
<1>2. CASE Len(R2) # 0
    <2>1. 1 \in 1..Len(R2) BY <1>2 DEF Priced
    <2>2. Share(R, S, 1) \in Int BY DEF Share, Priced
    <2>3. Share(R2, S2, 1) = Share(R, S, 1) + 0 BY <2>1, <2>2
    <2>4. Total(R2, S2) = Total(R, S) + 0 BY <2>1, <2>3, TotalDiffers
    <2>5. Total(R, S) \in Int BY TotalUnfolds DEF Priced
    <2> QED BY <2>4, <2>5
<1> QED BY <1>1, <1>2

(* A total is a number.                                                    *)
LEMMA TotalType ==
    ASSUME NEW R, NEW S, Priced(R) PROVE Total(R, S) \in Int
BY TotalUnfolds DEF Priced

(* Of no rows it is zero.                                                  *)
LEMMA TotalOfNone ==
    ASSUME NEW R, Priced(R) PROVE Total(R, {}) = 0
<1> DEFINE N == Len(R)
<1>1. PICK f \in [0..N -> Int] :
          /\ f[0] = 0 /\ Total(R, {}) = f[N]
          /\ \A n \in 1..N : f[n] = f[n - 1] + Share(R, {}, n) BY TotalUnfolds
<1>2. N \in Nat /\ \A n \in 1..N : Share(R, {}, n) = 0 BY DEF Share, Priced
<1> DEFINE T == {n \in Nat : n <= N => f[n] = 0}
<1>3. 0 \in T BY <1>1
<1>4. ASSUME NEW n \in Nat, n \in T PROVE n + 1 \in T
    <2>1. SUFFICES ASSUME n + 1 <= N PROVE f[n + 1] = 0 OBVIOUS
    <2>2. n + 1 \in 1..N /\ (n + 1) - 1 = n BY <2>1, <1>2
    <2>3. f[n] = 0 BY <1>4, <2>1, <1>2
    <2> QED BY <2>2, <2>3, <1>1, <1>2
<1> HIDE DEF T
<1>5. Nat \subseteq T BY <1>3, <1>4, Induct
<1> QED BY <1>1, <1>2, <1>5 DEF T

(* One row more in the set adds its amount.                                *)
LEMMA TotalWith ==
    ASSUME NEW R, NEW S, Priced(R), NEW m \in 1..Len(R), m \notin S
    PROVE  Total(R, S \cup {m}) = Total(R, S) + R[m].amount
<1> DEFINE S2 == S \cup {m}
<1> DEFINE d == R[m].amount
<1>1. d \in Int /\ Len(R) <= Len(R) BY DEF Priced
<1>2. Share(R, S2, m) = Share(R, S, m) + d BY <1>1 DEF Share
<1>3. \A n \in 1..Len(R) : n # m => Share(R, S2, n) = Share(R, S, n) BY DEF Share
<1> HIDE DEF S2, d
<1>4. Total(R, S2) = Total(R, S) + d BY <1>1, <1>2, <1>3, TotalDiffers
<1> QED BY <1>4 DEF S2, d

(* Of two rows it is the sum of their amounts.                             *)
LEMMA TotalOfTwo ==
    ASSUME NEW R, Priced(R), NEW m \in 1..Len(R), NEW n \in 1..Len(R), m # n
    PROVE  Total(R, {m, n}) = R[m].amount + R[n].amount
<1> DEFINE S == {}
<1> DEFINE S1 == S \cup {m}
<1>1. m \notin S /\ n \notin S1 OBVIOUS
<1>2. S1 \cup {n} = {m, n} OBVIOUS
<1>3. Total(R, S) = 0 BY TotalOfNone
<1>4. R[m].amount \in Int BY DEF Priced
<1> HIDE DEF S
<1>5. Total(R, S1) = Total(R, S) + R[m].amount BY <1>1, TotalWith
<1>6. Total(R, S1) = R[m].amount BY <1>3, <1>4, <1>5
<1> HIDE DEF S1
<1>7. Total(R, S1 \cup {n}) = Total(R, S1) + R[n].amount BY <1>1, TotalWith
<1> QED BY <1>2, <1>6, <1>7

-----------------------------------------------------------------------------
(* Tables, and what may be kept of one in the next. *)

Leg(R, i) == i \in Live(R) /\ R[i].partner # None
Divided(R, i) == i \in Live(R) /\ R[i].split
IsLine(R, i) == i \in Live(R) /\ R[i].parent # None
IsLocked(R, i) ==
    i \in DOMAIN R /\ R[i].live /\ R[i].parent = None /\ R[i].cleared = "reconciled"

\* The rules of the register, of one table.
Good(R, loose, statements) ==
    /\ Formed(R) /\ SplitsWhole(R, loose) /\ LegsPaired(R) /\ FiledRight(R, loose)
    /\ Agrees(R, statements) /\ NoZeros(R)

SameLeg(R, R2, i) ==
    /\ i \in Live(R2) /\ R2[i].partner = R[i].partner /\ R2[i].amount = R[i].amount
    /\ R2[i].account = R[i].account /\ R2[i].payee = R[i].payee
SameSplit(R, R2, i, loose2) ==
    /\ R2[i].amount = R[i].amount
    /\ R2[i].category => R[i].category
    /\ Lines(R2, i) = Lines(R, i)
    /\ \A j \in Lines(R2, i) :
          /\ R2[j].amount = R[j].amount /\ R2[j].account = R2[i].account
          /\ R2[j].cleared = R2[i].cleared \/ j \in loose2
SameFiling(R, R2, i) ==
    /\ R2[i].category => R[i].category
    /\ R2[i].account = R[i].account /\ R2[i].partner = R[i].partner
    /\ R[i].partner = None => R2[i].payee = R[i].payee
    /\ R[i].partner # None => R2[R[i].partner].account = R[R[i].partner].account


\* From R to R2: the legs, the splits, the locks and the categories that are
\* not in X keep what makes them right; those of X are right anew.
LegsFit(R, R2, X) ==
    /\ \A i : Leg(R, i) /\ i \notin X => SameLeg(R, R2, i) /\ R[i].partner \notin X
    /\ \A i : Leg(R2, i) /\ i \notin X => Leg(R, i)
    /\ \A i \in X : Leg(R2, i) => Paired(R2, i, R2[i].partner)
SplitsFit(R, R2, loose2, X) ==
    /\ \A i : Divided(R2, i) /\ i \notin X => Divided(R, i) /\ SameSplit(R, R2, i, loose2)
    /\ \A i \in X : Divided(R2, i) => Whole(R2, i, loose2)
    /\ \A i : IsLine(R2, i) => R2[R2[i].parent].live /\ R2[R2[i].parent].split
LocksFit(R, R2) ==
    /\ \A i : IsLocked(R2, i) <=> IsLocked(R, i)
    /\ \A i : IsLocked(R, i) => R2[i].amount = R[i].amount /\ R2[i].account = R[i].account
FilesFit(R, R2, loose, loose2) ==
    \A i \in Live(R2) \ loose2 :
        Placed(R2, i) \/ (i \in Live(R) \ loose /\ SameFiling(R, R2, i))

\* The second table is as long at least, and well typed.
Follows(R, R2) ==
    /\ R2 \in Seq(RowType) /\ Len(R) <= Len(R2)
    /\ DOMAIN R2 = 1..Len(R2) /\ Priced(R2)

(* What a table of rows is, as a sequence.                                 *)
LEMMA TableRows ==
    ASSUME NEW R \in Seq(RowType)
    PROVE  /\ Len(R) \in Nat /\ DOMAIN R = 1..Len(R) /\ Priced(R)
           /\ None \notin DOMAIN R /\ None \notin Int
           /\ \A i \in DOMAIN R : R[i] \in RowType
<1>1. Len(R) \in Nat /\ DOMAIN R = 1..Len(R) /\ \A i \in DOMAIN R : R[i] \in RowType
    BY LenProperties, ElementOfSeq
<1>2. \A i \in DOMAIN R : R[i].amount \in Int BY <1>1 DEF RowType
<1> QED BY <1>1, <1>2, LedgerAssumption DEF Priced

(* A function on 1..n whose values are rows is a table.                    *)
LEMMA RowsTable ==
    ASSUME NEW n \in Nat, NEW f, DOMAIN f = 1..n, f = [i \in 1..n |-> f[i]],
           \A i \in 1..n : f[i] \in RowType
    PROVE  f \in Seq(RowType) /\ Len(f) = n
<1>1. f \in [1..n -> RowType] OBVIOUS
<1>2. f \in Seq(RowType) BY <1>1, SeqDef
<1> QED BY <1>2, LenProperties

(* In a table that is formed links name rows, or nothing.                  *)
LEMMA FormedRows ==
    ASSUME NEW R, Formed(R)
    PROVE  /\ Len(R) \in Nat /\ DOMAIN R = 1..Len(R) /\ Priced(R)
           /\ None \notin DOMAIN R /\ None \notin Int
           /\ \A i \in DOMAIN R : R[i] \in RowType
           /\ \A i \in DOMAIN R : /\ R[i].partner \in DOMAIN R \cup {None}
                                  /\ R[i].parent \in DOMAIN R \cup {None}
BY TableRows DEF Formed

(* Legs: those of X are shown to be paired, the others are as they were.   *)
LEMMA LegsFrame ==
    ASSUME NEW R, NEW R2, NEW X, Formed(R), LegsPaired(R), LegsFit(R, R2, X)
    PROVE  LegsPaired(R2)
<1> SUFFICES ASSUME NEW i \in Live(R2), R2[i].partner # None, i \notin X
             PROVE  Paired(R2, i, R2[i].partner)
    BY DEF LegsPaired, Leg, LegsFit
<1> DEFINE p == R[i].partner
<1>1. Leg(R, i) /\ SameLeg(R, R2, i) /\ p \notin X /\ p = R2[i].partner
    BY DEF Leg, SameLeg, LegsFit
<1>2. Paired(R, i, p) /\ i # None /\ p \in DOMAIN R
    BY <1>1, FormedRows DEF LegsPaired, Leg, Live
<1>3. Leg(R, p) BY <1>2 DEF Paired, Leg, Live
<1>4. SameLeg(R, R2, p) BY <1>3, <1>1 DEF LegsFit
<1> QED BY <1>1, <1>2, <1>4 DEF Paired, SameLeg, Live

(* Lines that keep their amounts keep their total.                         *)
LEMMA SameLines ==
    ASSUME NEW R, NEW R2, Priced(R), Priced(R2), Len(R) <= Len(R2), NEW S \in SUBSET (1..Len(R)),
           \A j \in S : R2[j].amount = R[j].amount
    PROVE  Total(R2, S) = Total(R, S)
<1>1. \A n \in 1..Len(R2) : Share(R2, S, n) = Share(R, S, n)
    BY DEF Share, Priced
<1> QED BY <1>1, TotalSame

(* Splits: those of X are shown to be whole, the others keep their lines.  *)
LEMMA SplitsFrame ==
    ASSUME NEW R, NEW R2, NEW loose, NEW loose2, NEW X, Formed(R), Follows(R, R2),
           SplitsWhole(R, loose), SplitsFit(R, R2, loose2, X)
    PROVE  SplitsWhole(R2, loose2)
<1>1. SUFFICES ASSUME NEW i, Divided(R2, i), i \notin X PROVE Whole(R2, i, loose2)
    BY DEF SplitsWhole, Divided, IsLine, SplitsFit
<1>2. Divided(R, i) /\ SameSplit(R, R2, i, loose2) BY <1>1 DEF SplitsFit
<1>3. Whole(R, i, loose) BY <1>2 DEF SplitsWhole, Divided
<1>4. Lines(R, i) \in SUBSET (1..Len(R)) /\ Priced(R) BY FormedRows DEF Lines
<1>5. Total(R2, Lines(R, i)) = Total(R, Lines(R, i))
    BY <1>4, <1>2, SameLines DEF SameSplit, Follows
<1> QED BY <1>2, <1>3, <1>5 DEF Whole, SameSplit

(* Statements: the locked rows are the same ones.                          *)
LEMMA AgreesFrame ==
    ASSUME NEW R, NEW R2, NEW statements, Formed(R), Follows(R, R2),
           Agrees(R, statements), LocksFit(R, R2)
    PROVE  Agrees(R2, statements)
<1> SUFFICES ASSUME NEW a \in Accounts
             PROVE  Total(R2, Locked(R2, a)) = Total(R, Locked(R, a))
    BY DEF Agrees
<1>1. \A Q : \A i : i \in Locked(Q, a) <=> IsLocked(Q, i) /\ Q[i].account = a
    BY DEF Locked, Tops, IsLocked
<1>2. Locked(R2, a) = Locked(R, a) BY <1>1 DEF LocksFit
<1>3. Locked(R, a) \in SUBSET (1..Len(R)) /\ Priced(R) BY FormedRows DEF Locked, Tops
<1>4. \A i \in Locked(R, a) : R2[i].amount = R[i].amount BY <1>1 DEF LocksFit
<1> QED BY <1>2, <1>3, <1>4, SameLines DEF Follows

(* Categories: a row is shown to be placed, or is filed as it was.         *)
LEMMA FiledFrame ==
    ASSUME NEW R, NEW R2, NEW loose, NEW loose2, FiledRight(R, loose),
           FilesFit(R, R2, loose, loose2)
    PROVE  FiledRight(R2, loose2)
<1> SUFFICES ASSUME NEW i \in Live(R2) \ loose2 PROVE Placed(R2, i)
    BY DEF FiledRight
<1>1. CASE i \in Live(R) \ loose /\ SameFiling(R, R2, i)
    <2>1. Placed(R, i) BY <1>1 DEF FiledRight
    <2> QED BY <1>1, <2>1 DEF Placed, SameFiling
<1> QED BY <1>1 DEF FilesFit

(* The four, and the shape of the rows, make the second table good.        *)
LEMMA GoodFrame ==
    ASSUME NEW R, NEW R2, NEW loose, NEW loose2, NEW statements, NEW X, NEW Y,
           Good(R, loose, statements), Follows(R, R2), Formed(R2), NoZeros(R2),
           LegsFit(R, R2, X), SplitsFit(R, R2, loose2, Y), LocksFit(R, R2),
           FilesFit(R, R2, loose, loose2)
    PROVE  Good(R2, loose2, statements)
BY LegsFrame, SplitsFrame, AgreesFrame, FiledFrame DEF Good

-----------------------------------------------------------------------------
(* One lemma for each way a request rewrites the table. *)

(* A row leaves the exempt ones once it is no line and is filed right.     *)
LEMMA Reloose ==
    ASSUME NEW R, NEW loose, NEW loose2, NEW statements, Good(R, loose, statements),
           \A i \in loose \ loose2 : i \in Live(R) => R[i].parent = None /\ Placed(R, i)
    PROVE  Good(R, loose2, statements)
<1>1. SplitsWhole(R, loose2)
    <2> SUFFICES ASSUME NEW i \in Live(R), R[i].split PROVE Whole(R, i, loose2)
        BY DEF Good, SplitsWhole
    <2>1. Whole(R, i, loose) /\ i # None BY FormedRows DEF Good, SplitsWhole, Live
    <2>2. \A j \in Lines(R, i) : j \in loose => j \in loose2 BY <2>1 DEF Lines, Live
    <2> QED BY <2>1, <2>2 DEF Whole
<1>2. FiledRight(R, loose2) BY DEF Good, FiledRight
<1> QED BY <1>1, <1>2 DEF Good

Plain(row) ==
    /\ row \in RowType
    /\ row.live /\ row.parent = None /\ row.partner = None /\ ~row.split
    /\ row.cleared # "reconciled" /\ row.amount # 0 /\ row.bank # 0
    /\ row.category => Fileable(row.account, row.payee)

(* A plain row is entered.                                                 *)
LEMMA AppendGood ==
    ASSUME NEW R, NEW loose, NEW statements, Good(R, loose, statements), NEW row, Plain(row)
    PROVE  Good(Append(R, row), loose, statements)
<1> DEFINE R2 == Append(R, row)
<1> DEFINE n == Len(R) + 1
<1>1. /\ Formed(R) /\ SplitsWhole(R, loose) /\ LegsPaired(R) /\ FiledRight(R, loose)
      /\ Agrees(R, statements) /\ NoZeros(R) /\ R \in Seq(RowType) BY DEF Good, Formed
<1>2. /\ Len(R) \in Nat /\ DOMAIN R = 1..Len(R) /\ None \notin Int
      /\ \A i \in DOMAIN R : R[i].partner # n /\ R[i].parent # n
    BY <1>1, FormedRows
<1>3. /\ R2 \in Seq(RowType) /\ Len(R2) = n /\ R2[n] = row
      /\ \A k \in DOMAIN R : R2[k] = R[k]
    BY <1>1, <1>2, AppendProperties DEF Plain
<1> HIDE DEF R2
<1>4. /\ Follows(R, R2) /\ DOMAIN R2 = DOMAIN R \cup {n} /\ n \notin DOMAIN R /\ n # None
    BY <1>2, <1>3, TableRows DEF Follows
<1>5. Formed(R2)
    BY <1>1, <1>2, <1>3, <1>4 DEF Formed, Structured, Plain
<1>6. LegsFit(R, R2, {}) BY <1>3, <1>4 DEF LegsFit, Leg, SameLeg, Live, Plain
<1>7. SplitsFit(R, R2, loose, {})
    <2>1. \A i : Divided(R2, i) => Divided(R, i) BY <1>3, <1>4 DEF Divided, Live, Plain
    <2>2. \A i \in DOMAIN R : Lines(R2, i) = Lines(R, i)
        BY <1>2, <1>3, <1>4 DEF Lines, Plain
    <2>3. ASSUME NEW i, Divided(R, i) PROVE SameSplit(R, R2, i, loose)
        <3>1. i \in DOMAIN R /\ Whole(R, i, loose) BY <2>3, <1>1 DEF Divided, Live, SplitsWhole
        <3>2. Lines(R, i) \subseteq DOMAIN R BY DEF Lines
        <3> QED BY <3>1, <3>2, <2>2, <1>3 DEF SameSplit, Whole
    <2>4. ASSUME NEW i, IsLine(R2, i) PROVE R2[R2[i].parent].live /\ R2[R2[i].parent].split
        <3>1. i \in Live(R) /\ R2[i] = R[i] /\ R[i].parent \in DOMAIN R
            BY <2>4, <1>3, <1>4, <1>1, FormedRows DEF IsLine, Live, Plain
        <3> QED BY <3>1, <2>4, <1>1, <1>3 DEF IsLine, SplitsWhole
    <2> QED BY <2>1, <2>3, <2>4 DEF SplitsFit
<1>8. LocksFit(R, R2) BY <1>3, <1>4 DEF IsLocked, LocksFit, Plain
<1>9. FilesFit(R, R2, loose, loose)
    <2>1. ASSUME NEW i \in Live(R2) \ loose, i # n
          PROVE  i \in Live(R) \ loose /\ SameFiling(R, R2, i)
        <3>1. i \in Live(R) /\ R2[i] = R[i] BY <2>1, <1>3, <1>4 DEF Live
        <3>2. R[i].partner # None => R2[R[i].partner] = R[R[i].partner]
            BY <3>1, <1>1, <1>3, FormedRows DEF Live
        <3> QED BY <3>1, <3>2, <2>1 DEF SameFiling
    <2>2. Placed(R2, n) BY <1>3 DEF Plain, Placed, Fileable
    <2> QED BY <2>1, <2>2 DEF FilesFit
<1>10. NoZeros(R2) BY <1>1, <1>3, <1>4 DEF NoZeros, Plain
<1> QED BY <1>4, <1>5, <1>6, <1>7, <1>8, <1>9, <1>10, GoodFrame DEF R2

\* Row i is rewritten where it stands: its partner keeps the opposite amount
\* and names its account, its lines follow it.
Rewritten(R, R2, i) ==
    /\ R2 \in Seq(RowType) /\ Len(R2) = Len(R)
    /\ R2[i].live /\ R2[i].partner = R[i].partner
    /\ R2[i].parent = R[i].parent /\ R2[i].split = R[i].split
    /\ \A j \in DOMAIN R \ {i} :
          /\ j = R[i].partner =>
                R2[j] = [R[j] EXCEPT !.amount = -R2[i].amount, !.payee = R2[i].account]
          /\ j \in Lines(R, i) =>
                /\ R2[j] = [R[j] EXCEPT !.cleared = R2[j].cleared, !.account = R2[i].account]
                /\ \/ R2[j].cleared = R2[i].cleared
                   \/ R2[j].cleared = R[j].cleared /\ R2[i].cleared = R[i].cleared
          /\ j # R[i].partner /\ j \notin Lines(R, i) => R2[j] = R[j]

(* What a live row's links say of it.                                      *)
LEMMA LinksOf ==
    ASSUME NEW R, NEW loose, NEW statements, Good(R, loose, statements), NEW i \in Live(R)
    PROVE  /\ i \in DOMAIN R /\ i # None /\ R[i] \in RowType
           /\ R[i].partner # None =>
                 /\ R[i].partner \in Live(R) /\ R[i].partner # i
                 /\ R[R[i].partner].partner = i
                 /\ R[i].parent = None /\ R[R[i].partner].parent = None
                 /\ ~R[i].split /\ ~R[R[i].partner].split
                 /\ R[R[i].partner].amount = -R[i].amount
                 /\ R[i].payee = R[R[i].partner].account
                 /\ R[R[i].partner].payee = R[i].account
                 /\ Lines(R, i) = {} /\ Lines(R, R[i].partner) = {}
           /\ R[i].parent # None =>
                 /\ R[i].parent \in Live(R) /\ R[R[i].parent].split /\ R[R[i].parent].parent = None
                 /\ ~R[i].split /\ R[i].partner = None
           /\ \A j \in Lines(R, i) : j \in DOMAIN R /\ j # i
           /\ ~R[i].split => Lines(R, i) = {}
<1>1. /\ Formed(R) /\ SplitsWhole(R, loose) /\ LegsPaired(R) /\ NoZeros(R) BY DEF Good
<1>2. /\ DOMAIN R = 1..Len(R) /\ None \notin DOMAIN R
      /\ \A k \in DOMAIN R : R[k] \in RowType /\ R[k].partner \in DOMAIN R \cup {None}
                             /\ R[k].parent \in DOMAIN R \cup {None}
    BY <1>1, FormedRows
<1>3. \A k \in Live(R) : R[k].amount \in Int /\ k \in DOMAIN R BY <1>2 DEF Live, RowType
<1>4. i \in DOMAIN R /\ i # None /\ R[i] \in RowType BY <1>2 DEF Live
<1>5. \A k \in Live(R) : ~R[k].split => Lines(R, k) = {}
    <2> SUFFICES ASSUME NEW k \in Live(R), ~R[k].split, NEW j \in Lines(R, k) PROVE FALSE
        OBVIOUS
    <2>1. j \in Live(R) /\ R[j].parent = k /\ k # None BY <1>2 DEF Lines, Live
    <2> QED BY <2>1, <1>1 DEF SplitsWhole
<1>6. ASSUME NEW k \in Live(R), R[k].partner # None
      PROVE  /\ R[k].partner \in Live(R) /\ R[R[k].partner].partner = k
             /\ R[k].parent = None /\ ~R[k].split
             /\ R[R[k].partner].amount = -R[k].amount
             /\ R[k].payee = R[R[k].partner].account
    <2>1. Paired(R, k, R[k].partner) BY <1>6, <1>1 DEF LegsPaired
    <2>2. R[k].partner \in Live(R) BY <2>1, <1>6, <1>2 DEF Paired, Live
    <2>3. R[k].parent = None /\ ~R[k].split BY <1>6, <1>1 DEF Formed, Live, Structured
    <2>4. R[R[k].partner].amount \in Int /\ R[k].amount \in Int BY <2>2, <1>3
    <2> QED BY <2>1, <2>2, <2>3, <2>4 DEF Paired
<1>7. ASSUME R[i].partner # None PROVE R[i].partner # i
    <2>1. R[i].parent = None /\ R[R[i].partner].amount = -R[i].amount BY <1>6, <1>7
    <2>2. R[i].amount # 0 /\ R[i].amount \in Int BY <2>1, <1>1, <1>3, <1>4 DEF NoZeros
    <2> QED BY <2>1, <2>2
<1>8. ASSUME R[i].partner # None
      PROVE  /\ R[R[i].partner].parent = None /\ ~R[R[i].partner].split
             /\ R[R[i].partner].payee = R[i].account
    <2>1. R[i].partner \in Live(R) /\ R[R[i].partner].partner = i BY <1>6, <1>8
    <2> QED BY <2>1, <1>4, <1>6
<1>9. ASSUME R[i].parent # None
      PROVE  /\ R[i].parent \in Live(R) /\ R[R[i].parent].split /\ R[R[i].parent].parent = None
             /\ ~R[i].split /\ R[i].partner = None
    <2>1. R[i].parent \in Live(R) /\ R[R[i].parent].split
        BY <1>9, <1>1, <1>2, <1>4 DEF SplitsWhole, Live
    <2>2. ~R[i].split /\ R[i].partner = None BY <1>9, <1>1 DEF Formed, Live, Structured
    <2>3. R[R[i].parent].parent = None
        BY <2>1, <1>1 DEF Formed, Live, Structured
    <2> QED BY <2>1, <2>2, <2>3
<1>10. \A j \in Lines(R, i) : j \in DOMAIN R /\ j # i
    BY <1>9, <1>4 DEF Lines, Live
<1> QED BY <1>4, <1>5, <1>6, <1>7, <1>8, <1>9, <1>10

(* What the rewriting may change.                                          *)
LEMMA RewriteGood ==
    ASSUME NEW R, NEW R2, NEW loose, NEW loose2, NEW statements, NEW i \in Live(R),
           Good(R, loose, statements), Rewritten(R, R2, i), loose \subseteq loose2,
           \* a line keeps its amount, its state and its account
           R[i].parent # None =>
              /\ R2[i].amount = R[i].amount /\ R2[i].cleared = R[i].cleared
              /\ R2[i].account = R[i].account,
           R[i].split => R2[i].amount = R[i].amount /\ ~R2[i].category,
           R[i].partner # None =>
              /\ R2[i].payee = R[i].payee
              /\ R2[i].amount # R[i].amount => R[R[i].partner].cleared # "reconciled",
           \* so does a locked row, and none is locked
           (R[i].cleared = "reconciled" \/ R2[i].cleared = "reconciled") =>
              /\ R2[i].amount = R[i].amount /\ R2[i].cleared = R[i].cleared
              /\ R2[i].account = R[i].account,
           R2[i].bank # 0, R[i].parent = None => R2[i].amount # 0,
           i \in loose2 \/ Placed(R2, i),
           R2[i].account # R[i].account =>
              ({R[i].partner} \cup Lines(R, i)) \ {None} \subseteq loose2
    PROVE  Good(R2, loose2, statements)
<1> DEFINE p == R[i].partner
<1> DEFINE L == Lines(R, i)
<1>1. /\ Formed(R) /\ SplitsWhole(R, loose) /\ LegsPaired(R) /\ FiledRight(R, loose)
      /\ NoZeros(R) BY DEF Good
<1>2. /\ R2 \in Seq(RowType) /\ Len(R2) = Len(R) /\ Len(R) \in Nat /\ DOMAIN R = 1..Len(R)
      /\ DOMAIN R2 = DOMAIN R /\ Follows(R, R2) /\ None \notin DOMAIN R
      /\ \A k \in DOMAIN R : R[k] \in RowType /\ R2[k] \in RowType
                             /\ R[k].partner \in DOMAIN R \cup {None}
                             /\ R[k].parent \in DOMAIN R \cup {None}
    <2>1. R2 \in Seq(RowType) /\ Len(R2) = Len(R) BY DEF Rewritten
    <2>2. /\ Len(R2) \in Nat /\ DOMAIN R2 = 1..Len(R2) /\ Priced(R2)
          /\ \A k \in DOMAIN R2 : R2[k] \in RowType
        BY <2>1, TableRows
    <2> QED BY <1>1, <2>1, <2>2, FormedRows DEF Follows
<1>3. /\ i \in DOMAIN R /\ i # None /\ R[i].live /\ R2[i].live
      /\ \A j \in L : j \in DOMAIN R /\ j # i /\ R[j].live /\ R[j].parent = i
                      /\ R[j].partner = None /\ ~R[j].split /\ j # p
    <2>1. /\ i \in DOMAIN R /\ i # None /\ R[i].live /\ R2[i].live
          /\ \A j \in L : j \in DOMAIN R /\ j # i
        BY LinksOf DEF Live, Rewritten
    <2>2. ASSUME NEW j \in L
          PROVE  /\ R[j].live /\ R[j].parent = i /\ R[j].partner = None /\ ~R[j].split /\ j # p
        <3>1. j \in Live(R) /\ R[j].parent = i BY DEF Lines, Live
        <3>2. R[j].partner = None /\ ~R[j].split BY <3>1, <2>1, LinksOf
        <3>3. j # p
            <4>1. CASE p = None BY <4>1, <3>1, <1>2 DEF Live
            <4>2. CASE p # None BY <4>2, <3>1, <2>1, LinksOf
            <4> QED BY <4>1, <4>2
        <3> QED BY <3>1, <3>2, <3>3 DEF Live
    <2> QED BY <2>1, <2>2
<1>4. p # None =>
          /\ p \in Live(R) /\ p \in DOMAIN R /\ p # i /\ R[p].partner = i /\ R[i].parent = None
          /\ R[p].parent = None /\ ~R[i].split /\ ~R[p].split /\ R[p].amount = -R[i].amount
          /\ R[i].payee = R[p].account /\ R[p].payee = R[i].account /\ L = {}
    BY LinksOf DEF Live
<1> HIDE DEF p, L
<1>5. p # None =>
          /\ R2[p].live = R[p].live /\ R2[p].account = R[p].account
          /\ R2[p].cleared = R[p].cleared /\ R2[p].category = R[p].category
          /\ R2[p].partner = i /\ R2[p].parent = None /\ R2[p].split = R[p].split
          /\ R2[p].bank = R[p].bank
          /\ R2[p].amount = -R2[i].amount /\ R2[p].payee = R2[i].account
    <2> SUFFICES ASSUME p # None
                 PROVE  /\ R2[p].live = R[p].live /\ R2[p].account = R[p].account
                        /\ R2[p].cleared = R[p].cleared /\ R2[p].category = R[p].category
                        /\ R2[p].partner = i /\ R2[p].parent = None
                        /\ R2[p].split = R[p].split /\ R2[p].bank = R[p].bank
                        /\ R2[p].amount = -R2[i].amount /\ R2[p].payee = R2[i].account
        OBVIOUS
    <2>1. R2[p] = [R[p] EXCEPT !.amount = -R2[i].amount, !.payee = R2[i].account]
        BY <1>4 DEF Rewritten, p
    <2>2. R[p] \in RowType /\ R[p].partner = i /\ R[p].parent = None BY <1>2, <1>4
    <2> QED BY <2>1, <2>2 DEF RowType
<1>6. \A j \in L :
          /\ R2[j].live = R[j].live /\ R2[j].amount = R[j].amount
          /\ R2[j].category = R[j].category /\ R2[j].payee = R[j].payee
          /\ R2[j].partner = R[j].partner /\ R2[j].parent = R[j].parent
          /\ R2[j].split = R[j].split /\ R2[j].bank = R[j].bank
          /\ R2[j].account = R2[i].account
          /\ \/ R2[j].cleared = R2[i].cleared
             \/ R2[j].cleared = R[j].cleared /\ R2[i].cleared = R[i].cleared
    <2> TAKE j \in L
    <2>1. /\ R2[j] = [R[j] EXCEPT !.cleared = R2[j].cleared, !.account = R2[i].account]
          /\ \/ R2[j].cleared = R2[i].cleared
             \/ R2[j].cleared = R[j].cleared /\ R2[i].cleared = R[i].cleared
        BY <1>3 DEF Rewritten, L
    <2>2. R[j] \in RowType BY <1>2, <1>3
    <2> QED BY <2>1, <2>2 DEF RowType
<1>7. \A k \in DOMAIN R : k # i /\ k # p /\ k \notin L => R2[k] = R[k]
    BY DEF Rewritten, p, L
<1>8. \A k \in DOMAIN R :
          /\ R2[k].live = R[k].live /\ R2[k].partner = R[k].partner
          /\ R2[k].parent = R[k].parent /\ R2[k].split = R[k].split
    <2> TAKE k \in DOMAIN R
    <2>1. CASE k = i BY <2>1, <1>3 DEF Rewritten
    <2>2. CASE k = p /\ k # i BY <2>2, <1>2, <1>4, <1>5
    <2>3. CASE k \in L /\ k # i BY <2>3, <1>6
    <2>4. CASE k # i /\ k # p /\ k \notin L BY <2>4, <1>7
    <2> QED BY <2>1, <2>2, <2>3, <2>4
<1>9. Live(R2) = Live(R) /\ \A k : Lines(R2, k) = Lines(R, k)
    BY <1>2, <1>8 DEF Live, Lines
<1>10. Formed(R2) BY <1>1, <1>2, <1>8 DEF Formed, Structured
<1>11. NoZeros(R2)
    <2> SUFFICES ASSUME NEW k \in DOMAIN R
                 PROVE  R2[k].bank # 0 /\ (R2[k].parent = None => R2[k].amount # 0)
        BY <1>2 DEF NoZeros
    <2>1. R[k].bank # 0 /\ (R[k].parent = None => R[k].amount # 0) BY <1>1 DEF NoZeros
    <2>2. CASE k = i BY <2>2, <1>8
    <2>3. CASE k = p /\ k # i
        <3>1. R2[i].amount \in Int /\ R2[i].amount # 0 BY <2>3, <1>2, <1>3, <1>4 DEF RowType
        <3> QED BY <2>1, <2>3, <3>1, <1>2, <1>5
    <2>4. CASE k \in L /\ k # i BY <2>1, <2>4, <1>6
    <2>5. CASE k # i /\ k # p /\ k \notin L BY <2>1, <2>5, <1>7
    <2> QED BY <2>2, <2>3, <2>4, <2>5
<1>12. LegsFit(R, R2, {i, p})
    <2>1. ASSUME NEW k, Leg(R, k), k \notin {i, p}
          PROVE  SameLeg(R, R2, k) /\ R[k].partner \notin {i, p}
        <3>1. /\ k \in Live(R) /\ k \in DOMAIN R /\ R[k].partner # None /\ k \notin L /\ R2[k] = R[k]
            BY <2>1, <1>3, <1>7 DEF Leg, Live
        <3>2. R[R[k].partner].partner = k BY <3>1, LinksOf
        <3> QED BY <3>1, <3>2, <2>1, <1>4, <1>9 DEF SameLeg, p
    <2>2. Leg(R2, i) => Paired(R2, i, R2[i].partner)
        <3>1. SUFFICES ASSUME p # None PROVE Paired(R2, i, p)
            BY <1>3, <1>8 DEF Leg, p
        <3>2. R2[i].amount \in Int BY <1>2, <1>3 DEF RowType
        <3> QED BY <3>1, <3>2, <1>3, <1>4, <1>5 DEF Paired, Live, p
    <2>3. Leg(R2, p) => Paired(R2, p, R2[p].partner)
        <3>1. SUFFICES ASSUME p # None PROVE Paired(R2, p, i)
            BY <1>2, <1>5 DEF Leg, Live
        <3>2. R2[i].amount \in Int BY <1>2, <1>3 DEF RowType
        <3> QED BY <3>1, <3>2, <1>3, <1>4, <1>5, <1>8 DEF Paired, Live, p
    <2>4. \A k : Leg(R2, k) => Leg(R, k) BY <1>8, <1>9, <1>2 DEF Leg, Live
    <2> QED BY <2>1, <2>2, <2>3, <2>4 DEF LegsFit
<1>13. SplitsFit(R, R2, loose2, {})
    <2>1. \A k : Divided(R2, k) => Divided(R, k) BY <1>8, <1>9 DEF Divided, Live
    <2>2. ASSUME NEW k, Divided(R, k) PROVE SameSplit(R, R2, k, loose2)
        <3>1. k \in Live(R) /\ k \in DOMAIN R /\ k # p /\ k \notin L /\ Whole(R, k, loose)
            BY <2>2, <1>1, <1>3, <1>4, <1>2 DEF Divided, Live, SplitsWhole
        <3>2. CASE k = i
            BY <3>1, <3>2, <2>2, <1>6, <1>9 DEF SameSplit, Whole, Divided, L
        <3>3. CASE k # i
            <4>1. R2[k] = R[k] BY <3>1, <3>3, <1>7
            <4>2. ASSUME NEW j \in Lines(R, k)
                  PROVE  /\ R2[j].amount = R[j].amount /\ R2[j].account = R[j].account
                         /\ R2[j].cleared = R[j].cleared
                <5>1. j \in DOMAIN R /\ R[j].parent = k /\ k # None /\ j # p
                    BY <3>1, <1>2, <1>4 DEF Lines
                <5>2. j \notin L BY <5>1, <3>3, <1>3
                <5> QED BY <5>1, <5>2, <1>7
            <4> QED BY <4>1, <4>2, <3>1, <1>9 DEF SameSplit, Whole
        <3> QED BY <3>2, <3>3
    <2>3. ASSUME NEW k, IsLine(R2, k) PROVE R2[R2[k].parent].live /\ R2[R2[k].parent].split
        <3>1. k \in Live(R) /\ R2[k].parent = R[k].parent /\ R[k].parent # None
            BY <2>3, <1>8, <1>9 DEF IsLine, Live
        <3>2. R[k].parent \in Live(R) /\ R[R[k].parent].split BY <3>1, LinksOf
        <3> QED BY <3>1, <3>2, <1>8 DEF Live
    <2> QED BY <2>1, <2>2, <2>3 DEF SplitsFit
<1>14. LocksFit(R, R2)
    <2>1. ASSUME NEW k \in DOMAIN R, R[k].live, R[k].parent = None
          PROVE  /\ (R2[k].cleared = "reconciled") = (R[k].cleared = "reconciled")
                 /\ R[k].cleared = "reconciled" =>
                       R2[k].amount = R[k].amount /\ R2[k].account = R[k].account
        <3>1. k \notin L BY <2>1, <1>3
        <3>2. CASE k = i BY <3>2
        <3>3. CASE k = p /\ k # i
            <4>1. p # None /\ R[i].amount \in Int /\ R2[i].amount \in Int
                BY <3>3, <1>2, <1>3 DEF RowType
            <4>2. R[k].cleared = "reconciled" => R2[i].amount = R[i].amount
                BY <4>1, <3>3 DEF p
            <4> QED BY <4>1, <4>2, <3>3, <1>4, <1>5
        <3>4. CASE k # p /\ k # i BY <3>1, <3>4, <1>7
        <3> QED BY <3>2, <3>3, <3>4
    <2> QED BY <2>1, <1>2, <1>8 DEF LocksFit, IsLocked
<1>15. FilesFit(R, R2, loose, loose2)
    <2> SUFFICES ASSUME NEW k \in Live(R) \ loose2, k # i PROVE SameFiling(R, R2, k)
        BY <1>9 DEF FilesFit
    <2>1. k \in DOMAIN R /\ k \notin loose BY DEF Live
    <2>2. ASSUME R[k].partner # None, R[k].partner # i
          PROVE  R2[R[k].partner].account = R[R[k].partner].account
        <3>1. /\ R[k].partner \in DOMAIN R /\ R[R[k].partner].partner # None
            BY <2>1, <2>2, LinksOf DEF Live
        <3> QED BY <3>1, <2>2, <1>3, <1>5, <1>7
    <2>3. R[k].partner = i => k = p BY <1>3, LinksOf DEF p
    <2>4. CASE k = p
        <3>1. R2[i].account = R[i].account BY <2>4, <2>1, <1>2 DEF p
        <3> QED BY <2>4, <3>1, <2>1, <1>2, <1>3, <1>4, <1>5 DEF SameFiling
    <2>5. CASE k \in L
        <3>1. R2[i].account = R[i].account BY <2>5, <2>1, <1>2 DEF L
        <3>2. R[k].account = R[i].account
            <4>1. R[i].split BY <2>5, LinksOf DEF L
            <4> QED BY <4>1, <2>5, <1>1 DEF SplitsWhole, Whole, L
        <3> QED BY <2>5, <3>1, <3>2, <1>3, <1>6 DEF SameFiling
    <2>6. CASE k # p /\ k \notin L
        BY <2>1, <2>2, <2>3, <2>6, <1>7 DEF SameFiling
    <2> QED BY <2>4, <2>5, <2>6
<1> QED BY <1>2, <1>10, <1>11, <1>12, <1>13, <1>14, <1>15, GoodFrame

\* Rows that have nothing to do with the others: no live one is the partner,
\* the parent or a line of a row outside.
Within(R, k, C) == R[k].live => {R[k].partner, R[k].parent} \subseteq C \cup {None}
Apart(R, C) == \A k \in C \cap Live(R) : Within(R, k, C) /\ Lines(R, k) \subseteq C
\* A row as the rules want it.
Sound(R, k, loose) ==
    /\ {R[k].partner, R[k].parent} \subseteq DOMAIN R \cup {None}
    /\ R[k].bank # 0 /\ (R[k].parent = None => R[k].amount # 0)
    /\ R[k].live =>
          /\ R[k].parent # None =>
                ~Structured(R[k]) /\ R[R[k].parent].live /\ R[R[k].parent].split
          /\ R[k].partner # None => ~R[k].split /\ Paired(R, k, R[k].partner)
          /\ R[k].split => Whole(R, k, loose)
          /\ k \in loose \/ Placed(R, k)
\* The rows of C are written anew.
Changed(R, R2, C) ==
    /\ R2 \in Seq(RowType) /\ Len(R) <= Len(R2)
    /\ \A k \in DOMAIN R2 \ C : k \in DOMAIN R /\ R2[k] = R[k]
LocksFitAt(R, R2, k) ==
    /\ IsLocked(R2, k) <=> IsLocked(R, k)
    /\ IsLocked(R, k) => R2[k].amount = R[k].amount /\ R2[k].account = R[k].account

(* Rows apart from the others are written anew: it is enough that they are *)
(* right among themselves.                                                 *)
LEMMA ChangeGood ==
    ASSUME NEW R, NEW R2, NEW loose, NEW loose2, NEW statements, NEW C,
           Good(R, loose, statements), Changed(R, R2, C), loose \subseteq loose2,
           Apart(R, C),
           \A k \in C \cap DOMAIN R2 :
              Sound(R2, k, loose2) /\ Within(R2, k, C) /\ LocksFitAt(R, R2, k)
    PROVE  Good(R2, loose2, statements)
<1>1. /\ Formed(R) /\ SplitsWhole(R, loose) /\ LegsPaired(R) /\ FiledRight(R, loose)
      /\ NoZeros(R) BY DEF Good
<1>2. /\ DOMAIN R = 1..Len(R) /\ Len(R) \in Nat /\ None \notin DOMAIN R
      /\ \A k \in DOMAIN R : R[k] \in RowType /\ R[k].partner \in DOMAIN R \cup {None}
                             /\ R[k].parent \in DOMAIN R \cup {None}
    BY <1>1, FormedRows
<1>3. /\ R2 \in Seq(RowType) /\ Len(R2) \in Nat /\ Len(R) <= Len(R2)
      /\ DOMAIN R2 = 1..Len(R2) /\ Priced(R2) /\ None \notin DOMAIN R2
      /\ DOMAIN R \subseteq DOMAIN R2
    <2>1. R2 \in Seq(RowType) /\ Len(R) <= Len(R2) BY DEF Changed
    <2> QED BY <2>1, <1>2, TableRows
<1>4. \A k \in DOMAIN R2 \ C : k \in DOMAIN R /\ R2[k] = R[k] BY DEF Changed
<1>5. Follows(R, R2) BY <1>3 DEF Follows
<1>6. Formed(R2)
    <2>1. \A k \in DOMAIN R2 : {R2[k].partner, R2[k].parent} \subseteq DOMAIN R2 \cup {None}
        BY <1>2, <1>3, <1>4 DEF Sound
    <2>2. \A k \in DOMAIN R2 :
             /\ R2[k].live /\ R2[k].parent # None => ~Structured(R2[k])
             /\ R2[k].live => ~(R2[k].split /\ R2[k].partner # None)
        BY <1>1, <1>4 DEF Sound, Formed
    <2> QED BY <2>1, <2>2, <1>3 DEF Formed
<1>7. NoZeros(R2) BY <1>1, <1>4 DEF NoZeros, Sound
<1>8. ASSUME NEW k \in Live(R), k \notin C
      PROVE  /\ k \in DOMAIN R /\ k \in Live(R2) /\ R2[k] = R[k]
             /\ R[k].partner \notin C \/ R[k].partner = None
             /\ R[k].partner # None => R2[R[k].partner] = R[R[k].partner]
    <2>1. k \in DOMAIN R /\ k \in Live(R2) /\ R2[k] = R[k] BY <1>8, <1>3, <1>4 DEF Live
    <2>2. SUFFICES ASSUME R[k].partner # None
                   PROVE  R[k].partner \notin C /\ R2[R[k].partner] = R[R[k].partner]
        BY <2>1
    <2>3. R[k].partner \in Live(R) /\ R[R[k].partner].partner = k /\ k # None
        BY <2>2, LinksOf
    <2>4. R[k].partner \notin C BY <2>3, <1>8 DEF Apart, Within, Live
    <2> QED BY <2>3, <2>4, <1>3, <1>4 DEF Live
<1>9. LegsFit(R, R2, C)
    <2>1. ASSUME NEW k, Leg(R, k), k \notin C
          PROVE  SameLeg(R, R2, k) /\ R[k].partner \notin C
        BY <2>1, <1>8 DEF Leg, SameLeg
    <2>2. \A k : Leg(R2, k) /\ k \notin C => Leg(R, k) BY <1>4 DEF Leg, Live
    <2>3. \A k \in C : Leg(R2, k) => Paired(R2, k, R2[k].partner)
        BY DEF Leg, Live, Sound
    <2> QED BY <2>1, <2>2, <2>3 DEF LegsFit
<1>10. SplitsFit(R, R2, loose2, C)
    <2>1. ASSUME NEW k, Divided(R2, k), k \notin C
          PROVE  Divided(R, k) /\ SameSplit(R, R2, k, loose2)
        <3>1. Divided(R, k) /\ R2[k] = R[k] BY <2>1, <1>4 DEF Divided, Live
        <3>2. Whole(R, k, loose) /\ k # None BY <3>1, <1>1, <1>2 DEF Divided, SplitsWhole, Live
        <3>3. \A j \in Lines(R, k) : j \in DOMAIN R2 /\ j \notin C /\ R2[j] = R[j]
            <4> TAKE j \in Lines(R, k)
            <4>1. j \in Live(R) /\ R[j].parent = k BY DEF Lines, Live
            <4>2. j \notin C BY <4>1, <3>2, <2>1 DEF Apart, Within, Live
            <4> QED BY <4>1, <4>2, <1>3, <1>4 DEF Live
        <3>4. \A j \in Lines(R2, k) : j \in Lines(R, k)
            <4> TAKE j \in Lines(R2, k)
            <4>1. j \in Live(R2) /\ R2[j].parent = k BY DEF Lines, Live
            <4>2. j \notin C BY <4>1, <3>2, <2>1 DEF Within, Live
            <4> QED BY <4>1, <4>2, <1>4 DEF Live, Lines
        <3>5. Lines(R2, k) = Lines(R, k) BY <3>3, <3>4 DEF Lines
        <3> QED BY <3>1, <3>2, <3>3, <3>5 DEF SameSplit, Whole
    <2>2. \A k \in C : Divided(R2, k) => Whole(R2, k, loose2) BY DEF Divided, Live, Sound
    <2>3. ASSUME NEW k, IsLine(R2, k) PROVE R2[R2[k].parent].live /\ R2[R2[k].parent].split
        <3>1. CASE k \in C BY <2>3, <3>1 DEF IsLine, Live, Sound
        <3>2. CASE k \notin C
            <4>1. k \in Live(R) /\ R2[k] = R[k] /\ R[k].parent # None
                BY <2>3, <3>2, <1>4 DEF IsLine, Live
            <4>2. R[k].parent \in Live(R) /\ R[R[k].parent].split BY <4>1, LinksOf
            <4>3. k \in Lines(R, R[k].parent) BY <4>1 DEF Lines, Live
            <4>4. R[k].parent \notin C BY <4>2, <4>3, <3>2 DEF Apart
            <4> QED BY <4>1, <4>2, <4>4, <1>8 DEF Live
        <3> QED BY <3>1, <3>2
    <2> QED BY <2>1, <2>2, <2>3 DEF SplitsFit
<1>11. LocksFit(R, R2)
    <2> SUFFICES ASSUME NEW k PROVE LocksFitAt(R, R2, k) BY DEF LocksFit, LocksFitAt
    <2>1. CASE k \in C /\ k \in DOMAIN R2 BY <2>1
    <2>2. CASE k \notin DOMAIN R2 BY <2>2, <1>3 DEF LocksFitAt, IsLocked
    <2>3. CASE k \in DOMAIN R2 \ C BY <2>3, <1>4 DEF LocksFitAt, IsLocked
    <2> QED BY <2>1, <2>2, <2>3
<1>12. FilesFit(R, R2, loose, loose2)
    <2> SUFFICES ASSUME NEW k \in Live(R2) \ loose2
                 PROVE  Placed(R2, k) \/ (k \in Live(R) \ loose /\ SameFiling(R, R2, k))
        BY DEF FilesFit
    <2>1. CASE k \in C BY <2>1 DEF Sound, Live
    <2>2. CASE k \notin C
        <3>1. k \in Live(R) \ loose BY <2>2, <1>4 DEF Live
        <3> QED BY <3>1, <2>2, <1>8 DEF SameFiling
    <2> QED BY <2>1, <2>2
<1> QED BY <1>5, <1>6, <1>7, <1>9, <1>10, <1>11, <1>12, GoodFrame

(* Two rows joined as the legs of one transfer.                            *)
LEMMA CoupleSound ==
    ASSUME NEW R, NEW i \in DOMAIN R, NEW j \in DOMAIN R, i # None, j # None, NEW loose,
           R[i].live /\ R[j].live, R[i].partner = j /\ R[j].partner = i,
           R[i].parent = None /\ R[j].parent = None, ~R[i].split /\ ~R[j].split,
           R[i].amount \in Int, R[j].amount = -R[i].amount,
           R[i].amount # 0, R[i].bank # 0,
           R[i].payee = R[j].account,
           i \in loose \/ (R[i].category => MayCarry(R[i].account, R[j].account))
    PROVE  Sound(R, i, loose) /\ Within(R, i, {i, j})
BY DEF Sound, Within, Paired, Placed

\* Pairs of rows free to be linked, no row in two of them.
Linkable(R, pairs) ==
    /\ \A pair \in pairs :
          /\ pair \in Pairable(R) \X Pairable(R) /\ pair[1] # pair[2]
          /\ R[pair[2]].amount = -R[pair[1]].amount
    /\ \A pair \in pairs, other \in pairs :
          {pair[1], pair[2]} \cap {other[1], other[2]} # {} => pair = other

Linked(R, pair, i, j) ==
    /\ LinkLegs(R, pair)[i] =
           [R[i] EXCEPT !.partner = j, !.payee = R[j].account,
                        !.category = @ /\ i \notin Forbidden(R, pair[1], pair[2])]
    /\ i \in Forbidden(R, pair[1], pair[2]) <=>
           R[i].category /\ ~MayCarry(R[i].account, R[j].account)

(* What link_legs leaves of the two rows.                                  *)
LEMMA LinkedLegs ==
    ASSUME NEW R \in Seq(RowType), NEW i \in DOMAIN R, NEW j \in DOMAIN R, i # j,
           NEW pair \in {<<i, j>>, <<j, i>>}
    PROVE  /\ Linked(R, pair, i, j)
           /\ DOMAIN LinkLegs(R, pair) = DOMAIN R
           /\ \A k \in DOMAIN R \ {i, j} : LinkLegs(R, pair)[k] = R[k]
<1>1. DOMAIN R = 1..Len(R) /\ \A k \in DOMAIN R : R[k] \in RowType BY TableRows
<1>2. i \in Forbidden(R, pair[1], pair[2]) <=>
          R[i].category /\ ~MayCarry(R[i].account, R[j].account)
    BY DEF Forbidden
<1> DEFINE J == Joined(R, pair[1], pair[2])
<1>3. /\ DOMAIN J = DOMAIN R
      /\ J[i] = [R[i] EXCEPT !.partner = j, !.payee = R[j].account]
      /\ \A k \in DOMAIN R \ {i, j} : J[k] = R[k]
    <2>1. CASE pair = <<i, j>> BY <2>1 DEF Joined
    <2>2. CASE pair = <<j, i>> BY <2>2 DEF Joined
    <2> QED BY <2>1, <2>2
<1> DEFINE F == Forbidden(R, pair[1], pair[2])
<1>4. F \subseteq {i, j} BY DEF Forbidden
<1>5. LinkLegs(R, pair) = [k \in DOMAIN J |-> [J[k] EXCEPT !.category = @ /\ k \notin F]]
    BY DEF LinkLegs, Uncategorized
<1> HIDE DEF J, F
<1>6. LinkLegs(R, pair)[i] = [J[i] EXCEPT !.category = @ /\ i \notin F] BY <1>3, <1>5
<1>7. [J[i] EXCEPT !.category = @ /\ i \notin F]
          = [R[i] EXCEPT !.partner = j, !.payee = R[j].account, !.category = @ /\ i \notin F]
    BY <1>1, <1>3 DEF RowType
<1>8. ASSUME NEW k \in DOMAIN R \ {i, j} PROVE LinkLegs(R, pair)[k] = R[k]
    <2>1. LinkLegs(R, pair)[k] = [R[k] EXCEPT !.category = @ /\ k \notin F]
        BY <1>3, <1>5
    <2>2. k \notin F /\ R[k] \in RowType BY <1>1, <1>4
    <2> QED BY <2>1, <2>2 DEF RowType
<1> QED BY <1>2, <1>3, <1>5, <1>6, <1>7, <1>8 DEF F, Linked

(* Pairs are linked, and the categories the rule forbids dropped.          *)
LEMMA LinkAllGood ==
    ASSUME NEW R, NEW loose, NEW statements, Good(R, loose, statements),
           NEW pairs, Linkable(R, pairs)
    PROVE  /\ Good(LinkAll(R, pairs), loose, statements)
           /\ DOMAIN LinkAll(R, pairs) = DOMAIN R
<1> DEFINE R2 == LinkAll(R, pairs)
<1> DEFINE In(k, pair) == k \in {pair[1], pair[2]}
<1> DEFINE C == {k \in DOMAIN R : \E pair \in pairs : In(k, pair)}
<1>1. /\ Formed(R) /\ NoZeros(R) /\ R \in Seq(RowType) BY DEF Good, Formed
<1>2. /\ DOMAIN R = 1..Len(R) /\ Len(R) \in Nat /\ None \notin DOMAIN R
      /\ \A k \in DOMAIN R : R[k] \in RowType
    BY <1>1, FormedRows
<1>3. ASSUME NEW pair \in pairs, NEW k, In(k, pair)
      PROVE  /\ R2[k] = LinkLegs(R, pair)[k] /\ k \in C
             /\ \E j \in C : j # k /\ pair \in {<<k, j>>, <<j, k>>} /\ In(j, pair)
             /\ k \in Pairable(R)
    <2>1. \A q \in pairs : In(k, q) => q = pair BY <1>3 DEF Linkable
    <2>2. (CHOOSE q \in pairs : In(k, q)) = pair BY <2>1, <1>3
    <2>3. /\ pair \in Pairable(R) \X Pairable(R) /\ pair[1] # pair[2]
          /\ Pairable(R) \subseteq DOMAIN R BY DEF Linkable, Pairable, Live
    <2>4. k \in C BY <2>3, <1>3
    <2>5. R2[k] = LinkLegs(R, CHOOSE q \in pairs : In(k, q))[k]
        BY <2>4, <1>3 DEF LinkAll
    <2> DEFINE j == IF k = pair[1] THEN pair[2] ELSE pair[1]
    <2>6. j \in C /\ j # k /\ pair \in {<<k, j>>, <<j, k>>} /\ In(j, pair) BY <2>3, <1>3
    <2> QED BY <2>2, <2>3, <2>4, <2>5, <2>6, <1>3
<1>4. DOMAIN R2 = DOMAIN R /\ \A k \in DOMAIN R \ C : R2[k] = R[k] BY DEF LinkAll
<1>5. ASSUME NEW k \in C
      PROVE  \E j \in C :
                /\ j # k /\ j \in Pairable(R) /\ k \in Pairable(R) /\ R[k].amount = -R[j].amount
                /\ \E F : /\ R2[k] = [R[k] EXCEPT !.partner = j, !.payee = R[j].account,
                                                  !.category = @ /\ k \notin F]
                          /\ k \in F <=> R[k].category /\ ~MayCarry(R[k].account, R[j].account)
                /\ R2[j].partner = k
                /\ R2[j].account = R[j].account /\ R2[j].live /\ R2[j].amount = R[j].amount
                /\ R2[j].parent = None /\ ~R2[j].split
    <2>1. PICK pair \in pairs : In(k, pair) OBVIOUS
    <2>2. PICK j \in C : j # k /\ pair \in {<<k, j>>, <<j, k>>} /\ In(j, pair) BY <2>1, <1>3
    <2>3. k \in Pairable(R) /\ j \in Pairable(R) /\ R[j] \in RowType BY <2>1, <2>2, <1>2, <1>3
    <2>4. R2[k] = LinkLegs(R, pair)[k] /\ R2[j] = LinkLegs(R, pair)[j]
        BY <2>1, <2>2, <1>3
    <2>5. R[pair[2]].amount = -R[pair[1]].amount BY DEF Linkable
    <2>6. R[k].amount = -R[j].amount
        <3>1. R[j].amount \in Int /\ R[k].amount \in Int BY <1>2, <2>2 DEF RowType
        <3>2. pair = <<k, j>> \/ pair = <<j, k>> BY <2>2
        <3> QED BY <3>1, <3>2, <2>5
    <2>7. Linked(R, pair, j, k) /\ Linked(R, pair, k, j)
        <3>1. /\ j \in DOMAIN R /\ k \in DOMAIN R /\ j # k
              /\ pair \in {<<k, j>>, <<j, k>>} /\ pair \in {<<j, k>>, <<k, j>>} BY <2>2
        <3> HIDE DEF C, In
        <3> QED BY <3>1, <1>1, LinkedLegs
    <2>8. /\ R2[j].partner = k /\ R2[j].account = R[j].account /\ R2[j].live
          /\ R2[j].amount = R[j].amount /\ R2[j].parent = None /\ ~R2[j].split
        BY <2>3, <2>4, <2>7 DEF RowType, Pairable, Live, Linked
    <2>9. \E F : /\ R2[k] = [R[k] EXCEPT !.partner = j, !.payee = R[j].account,
                                          !.category = @ /\ k \notin F]
                 /\ k \in F <=> R[k].category /\ ~MayCarry(R[k].account, R[j].account)
        <3> WITNESS Forbidden(R, pair[1], pair[2])
        <3> QED BY <2>4, <2>7 DEF Linked
    <2> QED BY <2>2, <2>3, <2>6, <2>8, <2>9
<1> HIDE DEF C, In, R2
<1>6. C \subseteq DOMAIN R BY DEF C
<1>7. ASSUME NEW k \in C
      PROVE  /\ R2[k] \in RowType /\ Sound(R2, k, loose) /\ Within(R2, k, C)
             /\ LocksFitAt(R, R2, k) /\ R[k].partner = None /\ R[k].parent = None /\ ~R[k].split
    <2>1. PICK j \in C :
                /\ j # k /\ j \in Pairable(R) /\ k \in Pairable(R) /\ R[k].amount = -R[j].amount
                /\ \E F : /\ R2[k] = [R[k] EXCEPT !.partner = j, !.payee = R[j].account,
                                                  !.category = @ /\ k \notin F]
                          /\ k \in F <=> R[k].category /\ ~MayCarry(R[k].account, R[j].account)
                /\ R2[j].partner = k
                /\ R2[j].account = R[j].account /\ R2[j].live /\ R2[j].amount = R[j].amount
                /\ R2[j].parent = None /\ ~R2[j].split
        BY <1>5
    <2>2. PICK F : /\ R2[k] = [R[k] EXCEPT !.partner = j, !.payee = R[j].account,
                                           !.category = @ /\ k \notin F]
                   /\ k \in F <=> R[k].category /\ ~MayCarry(R[k].account, R[j].account)
        BY <2>1
    <2>3. /\ R[k] \in RowType /\ R[j] \in RowType /\ k \in Nat /\ j \in Nat /\ k # None /\ j # None
          /\ k \in DOMAIN R /\ j \in DOMAIN R
        BY <1>2, <1>6
    <2>4. R[j].account \in Accounts /\ R[j].amount \in Int BY <2>3 DEF RowType
    <2>5. /\ R[k].live /\ ~R[k].split /\ R[k].parent = None /\ R[k].partner = None
        BY <2>1 DEF Pairable, Live
    <2>6. /\ R2[k].live /\ ~R2[k].split /\ R2[k].parent = None /\ R2[k].partner = j
          /\ R2[k].amount = R[k].amount /\ R2[k].account = R[k].account
          /\ R2[k].cleared = R[k].cleared /\ R2[k].bank = R[k].bank
          /\ R2[k].payee = R[j].account /\ (R2[k].category <=> R[k].category /\ k \notin F)
        BY <2>2, <2>3, <2>5 DEF RowType
    <2>7. R2[k] \in RowType BY <2>2, <2>3, <2>4 DEF RowType
    <2>8. R[k].amount # 0 /\ R[k].bank # 0 /\ R[k].amount \in Int
        BY <1>1, <2>3, <2>5 DEF NoZeros, RowType
    <2>9. R[j].amount = -R[k].amount BY <2>1, <2>4, <2>8
    <2>10. R2[k].category => MayCarry(R2[k].account, R2[j].account) BY <2>1, <2>2, <2>6
    <2>11. Sound(R2, k, loose) /\ Within(R2, k, {k, j})
        <3>1. k \in DOMAIN R2 /\ j \in DOMAIN R2 BY <1>4, <2>3
        <3>2. /\ R2[k].amount \in Int /\ R2[j].amount = -R2[k].amount
              /\ R2[k].amount # 0 /\ R2[k].bank # 0
            BY <2>1, <2>6, <2>8, <2>9
        <3>3. R2[k].payee = R2[j].account BY <2>1, <2>6
        <3>4. /\ k # None /\ j # None /\ R2[k].live /\ R2[j].live
              /\ R2[k].partner = j /\ R2[j].partner = k
              /\ R2[k].parent = None /\ R2[j].parent = None /\ ~R2[k].split /\ ~R2[j].split
            BY <2>1, <2>3, <2>6
        <3> QED BY <3>1, <3>2, <3>3, <3>4, <2>10, CoupleSound
    <2>12. Within(R2, k, C) BY <2>11 DEF Within
    <2>13. LocksFitAt(R, R2, k) BY <2>3, <2>5, <2>6, <1>4 DEF LocksFitAt, IsLocked
    <2> QED BY <2>5, <2>7, <2>11, <2>12, <2>13
<1>8. R2 \in Seq(RowType) /\ Len(R2) = Len(R)
    <2>1. \A k \in DOMAIN R : R2[k] \in RowType BY <1>2, <1>4, <1>7
    <2>2. R2 = [k \in 1..Len(R) |-> R2[k]] BY <1>2 DEF LinkAll, R2
    <2> QED BY <2>1, <2>2, <1>2, <1>4, RowsTable
<1>9. Changed(R, R2, C) BY <1>2, <1>4, <1>8 DEF Changed
<1>10. Apart(R, C)
    <2>1. \A k \in C \cap Live(R) : Lines(R, k) = {} BY <1>7, LinksOf
    <2> QED BY <2>1, <1>7 DEF Apart, Within
<1>11. Good(R2, loose, statements) BY <1>7, <1>9, <1>10, ChangeGood
<1> QED BY <1>4, <1>11 DEF R2

-----------------------------------------------------------------------------
(* The invariant, and one lemma for each request. *)

IInv == Good(rows, strayed, vouched) /\ TypeOK

(* A request that leaves a good table keeps the invariant.                 *)
LEMMA Written ==
    ASSUME IInv, NEW R, NEW stray, Write(R, stray), Good(R, strayed \cup stray, vouched),
           DOMAIN rows \subseteq DOMAIN R, stray \subseteq DOMAIN R \cup {None}
    PROVE  IInv'
BY DEF IInv, Write, Good, TypeOK

(* A request that exempts none.                                            *)
LEMMA WrittenRight ==
    ASSUME IInv, NEW R, Write(R, {}), Good(R, strayed, vouched), DOMAIN rows \subseteq DOMAIN R
    PROVE  IInv'
<1>1. strayed \cup {} = strayed OBVIOUS
<1> QED BY <1>1, Written

Unlocked == {"pending", "uncleared", "cleared"}

(* A row as a person enters it is plain.                                   *)
LEMMA PlainRow ==
    ASSUME NEW account \in Accounts, NEW amount \in Int, amount # 0, NEW cleared \in Unlocked,
           NEW category \in BOOLEAN, NEW payee \in Accounts \cup {Shop},
           category => Fileable(account, payee),
           NEW row, row = [Row(account, amount, cleared)
                             EXCEPT !.category = category, !.payee = payee]
    PROVE  Plain(row)
<1>1. row \in RowType BY DEF Row, RowType, Unlocked
<1>2. /\ row.live /\ row.account = account /\ row.amount = amount /\ row.cleared = cleared
      /\ row.category = category /\ row.payee = payee /\ row.partner = None
      /\ row.parent = None /\ row.split = FALSE /\ row.bank = None
    BY DEF Row
<1> QED BY <1>1, <1>2, LedgerAssumption DEF Plain, Unlocked

Bare(row, account, amount, cleared) ==
    /\ Plain(row) /\ ~row.category /\ row.category \in BOOLEAN
    /\ row.account = account /\ row.amount = amount /\ row.cleared = cleared

(* So is one with no category.                                             *)
LEMMA BareRow ==
    ASSUME NEW account \in Accounts, NEW amount \in Int, amount # 0, NEW cleared \in Unlocked
    PROVE  Bare(Row(account, amount, cleared), account, amount, cleared)
<1>1. Row(account, amount, cleared) \in RowType BY DEF Row, RowType, Unlocked
<1> QED BY <1>1, LedgerAssumption DEF Row, Plain, Bare, Unlocked

(* NULL is no number and no account.                                       *)
LEMMA NoneIsNoNumber == None \notin Int /\ None # 0 /\ None \notin Accounts
BY LedgerAssumption

(* An appended row leaves the others where they are.                       *)
LEMMA AppendAt ==
    ASSUME NEW R \in Seq(RowType), NEW row
    PROVE  /\ DOMAIN Append(R, row) = DOMAIN R \cup {Len(R) + 1}
           /\ Len(R) + 1 \notin DOMAIN R /\ Len(R) + 1 \in Nat
           /\ Len(Append(R, row)) = Len(R) + 1
           /\ Append(R, row)[Len(R) + 1] = row
           /\ \A k \in DOMAIN R : Append(R, row)[k] = R[k]
BY TableRows, AppendProperties

(* A plain row is entered.                                                 *)
LEMMA CreateKeeps ==
    ASSUME IInv, NEW account \in Accounts, NEW amount \in Amounts, NEW category \in BOOLEAN,
           NEW payee \in Payees, Create(account, amount, "cleared", category, payee)
    PROVE  IInv'
<1> DEFINE row == [Row(account, amount, "cleared")
                    EXCEPT !.category = category, !.payee = payee]
<1>1. Plain(row)
    <2>2. amount \in Int /\ amount # 0 BY LedgerAssumption
    <2>3. category => Fileable(account, payee) BY DEF Create
    <2>4. payee \in Accounts \cup {Shop} /\ "cleared" \in Unlocked BY DEF Payees, Unlocked
    <2> QED BY <2>2, <2>3, <2>4, PlainRow
<1>2. Write(Append(rows, row), {}) BY DEF Create
<1>3. Good(rows, strayed, vouched) /\ rows \in Seq(RowType) BY DEF IInv, TypeOK, Formed
<1> HIDE DEF row
<1>4. Good(Append(rows, row), strayed, vouched) BY <1>1, <1>3, AppendGood
<1>5. DOMAIN rows \subseteq DOMAIN Append(rows, row) BY <1>3, AppendAt
<1> QED BY <1>2, <1>4, <1>5, WrittenRight

Coupled(R, R2, i, j, c, d) ==
    /\ DOMAIN R2 = DOMAIN R /\ R2 = [k \in DOMAIN R2 |-> R2[k]]
    /\ R2[i] = [R[i] EXCEPT !.partner = j, !.payee = R[j].account, !.category = c]
    /\ R2[j] = [R[j] EXCEPT !.partner = i, !.payee = R[i].account, !.category = d]
    /\ \A k \in DOMAIN R \ {i, j} : R2[k] = R[k]

(* Two plain rows are joined.                                              *)
LEMMA CoupleGood ==
    ASSUME NEW R, NEW loose, NEW loose2, NEW statements, Good(R, loose, statements),
           NEW i \in Pairable(R), NEW j \in Pairable(R), i # j,
           R[j].amount = -R[i].amount,
           NEW c \in BOOLEAN, NEW d \in BOOLEAN, NEW R2,
           Coupled(R, R2, i, j, c, d),
           loose \subseteq loose2,
           i \in loose2 \/ (c => MayCarry(R[i].account, R[j].account)),
           j \in loose2 \/ (d => MayCarry(R[j].account, R[i].account))
    PROVE  Good(R2, loose2, statements) /\ DOMAIN R2 = DOMAIN R
<1>1. /\ Formed(R) /\ NoZeros(R) /\ R \in Seq(RowType) BY DEF Good, Formed
<1>2. /\ DOMAIN R = 1..Len(R) /\ Len(R) \in Nat /\ None \notin DOMAIN R
      /\ \A k \in DOMAIN R : R[k] \in RowType
    BY <1>1, FormedRows
<1>3. /\ i \in DOMAIN R /\ j \in DOMAIN R /\ i # None /\ j # None /\ i \in Nat /\ j \in Nat
      /\ R[i] \in RowType /\ R[j] \in RowType
      /\ R[i].live /\ ~R[i].split /\ R[i].parent = None /\ R[i].partner = None
      /\ R[j].live /\ ~R[j].split /\ R[j].parent = None /\ R[j].partner = None
    BY <1>2 DEF Pairable, Live
<1>4. /\ R2[i] = [R[i] EXCEPT !.partner = j, !.payee = R[j].account, !.category = c]
      /\ R2[j] = [R[j] EXCEPT !.partner = i, !.payee = R[i].account, !.category = d]
      /\ \A k \in DOMAIN R \ {i, j} : R2[k] = R[k]
      /\ DOMAIN R2 = DOMAIN R
      /\ R2 = [k \in DOMAIN R |-> R2[k]]
    BY <1>3 DEF Coupled
<1>5. /\ R[i].account \in Accounts /\ R[j].account \in Accounts
      /\ R[i].amount \in Int /\ R[j].amount \in Int
      /\ R[i].amount # 0 /\ R[i].bank # 0 /\ R[j].amount # 0 /\ R[j].bank # 0
    BY <1>1, <1>3 DEF RowType, NoZeros
<1>6. /\ R2[i] \in RowType /\ R2[i].live /\ ~R2[i].split /\ R2[i].parent = None
      /\ R2[i].partner = j /\ R2[i].amount = R[i].amount /\ R2[i].account = R[i].account
      /\ R2[i].cleared = R[i].cleared /\ R2[i].bank = R[i].bank
      /\ R2[i].payee = R[j].account /\ R2[i].category = c
    BY <1>3, <1>4, <1>5 DEF RowType
<1>7. /\ R2[j] \in RowType /\ R2[j].live /\ ~R2[j].split /\ R2[j].parent = None
      /\ R2[j].partner = i /\ R2[j].amount = R[j].amount /\ R2[j].account = R[j].account
      /\ R2[j].cleared = R[j].cleared /\ R2[j].bank = R[j].bank
      /\ R2[j].payee = R[i].account /\ R2[j].category = d
    BY <1>3, <1>4, <1>5 DEF RowType
<1>8. R2 \in Seq(RowType) /\ Len(R2) = Len(R)
    <2>1. \A k \in DOMAIN R : R2[k] \in RowType BY <1>2, <1>4, <1>6, <1>7
    <2> QED BY <2>1, <1>2, <1>4, RowsTable
<1>9. Sound(R2, i, loose2) /\ Within(R2, i, {i, j})
    <2>1. /\ R2[j].amount = -R2[i].amount /\ R2[i].payee = R2[j].account
          /\ R2[i].amount \in Int /\ R2[i].amount # 0 /\ R2[i].bank # 0
          /\ i \in loose2 \/ (R2[i].category => MayCarry(R2[i].account, R2[j].account))
        BY <1>5, <1>6, <1>7
    <2> QED BY <2>1, <1>3, <1>4, <1>6, <1>7, CoupleSound
<1>10. Sound(R2, j, loose2) /\ Within(R2, j, {i, j})
    <2>1. /\ R2[i].amount = -R2[j].amount /\ R2[j].payee = R2[i].account
          /\ R2[j].amount \in Int /\ R2[j].amount # 0 /\ R2[j].bank # 0
          /\ j \in loose2 \/ (R2[j].category => MayCarry(R2[j].account, R2[i].account))
        BY <1>5, <1>6, <1>7
    <2>2. Sound(R2, j, loose2) /\ Within(R2, j, {j, i})
        BY <2>1, <1>3, <1>4, <1>6, <1>7, CoupleSound
    <2> QED BY <2>2 DEF Within
<1>11. LocksFitAt(R, R2, i) /\ LocksFitAt(R, R2, j)
    BY <1>3, <1>4, <1>6, <1>7 DEF LocksFitAt, IsLocked
<1>12. Changed(R, R2, {i, j}) BY <1>2, <1>4, <1>8 DEF Changed
<1>13. Apart(R, {i, j})
    <2>1. Lines(R, i) = {} /\ Lines(R, j) = {} BY <1>3, LinksOf DEF Live
    <2> QED BY <2>1, <1>3 DEF Apart, Within
<1> QED BY <1>4, <1>9, <1>10, <1>11, <1>12, <1>13, ChangeGood

(* A transfer is two plain rows, entered and joined.                       *)
LEMMA CreateTransferKeeps ==
    ASSUME IInv, NEW from \in Accounts, NEW to \in Accounts, NEW amount \in Amounts, amount > 0,
           NEW category \in BOOLEAN,
           CreateTransfer(from, to, amount, "cleared", category)
    PROVE  IInv'
<1> DEFINE n == Len(rows) + 1
<1> DEFINE m == Len(rows) + 2
<1> DEFINE c == category /\ MayCarry(from, to)
<1> DEFINE d == category /\ MayCarry(to, from)
<1> DEFINE near == [Row(from, -amount, "cleared") EXCEPT !.category = FALSE, !.payee = Shop]
<1> DEFINE far == [Row(to, amount, "uncleared") EXCEPT !.category = FALSE, !.payee = Shop]
<1> DEFINE nearLeg == [Row(from, -amount, "cleared")
                         EXCEPT !.category = c, !.payee = to, !.partner = m]
<1> DEFINE farLeg == [Row(to, amount, "uncleared")
                         EXCEPT !.category = d, !.payee = from, !.partner = n]
<1> DEFINE R1 == Append(rows, near)
<1> DEFINE R == Append(R1, far)
<1> DEFINE R2 == rows \o <<nearLeg, farLeg>>
<1>1. amount \in Int /\ -amount \in Int /\ amount # 0 /\ -amount # 0
    BY LedgerAssumption
<1>2. Good(rows, strayed, vouched) /\ rows \in Seq(RowType) BY DEF IInv, TypeOK, Formed
<1>3. Plain(near) /\ Plain(far)
    <2>1. "cleared" \in Unlocked /\ "uncleared" \in Unlocked BY DEF Unlocked
    <2> QED BY <2>1, <1>1, PlainRow
<1>4. /\ near \in RowType /\ far \in RowType /\ near.live /\ far.live /\ ~near.split /\ ~far.split
      /\ near.parent = None /\ far.parent = None /\ near.partner = None /\ far.partner = None
      /\ near.amount = -amount /\ far.amount = amount
      /\ near.account = from /\ far.account = to
    <2>1. near.amount = -amount /\ far.amount = amount /\ near.account = from /\ far.account = to
        BY DEF Row
    <2> QED BY <2>1, <1>3 DEF Plain
<1>5. /\ nearLeg = [near EXCEPT !.partner = m, !.payee = to, !.category = c]
      /\ farLeg = [far EXCEPT !.partner = n, !.payee = from, !.category = d]
    BY DEF Row
<1>6. Write(R2, {})
    BY DEF CreateTransfer
<1>7. nearLeg \in RowType /\ farLeg \in RowType
    <2>1. Len(rows) \in Nat /\ n \in Nat /\ m \in Nat BY <1>2, TableRows
    <2> HIDE DEF n, m
    <2> QED BY <2>1, <1>1 DEF Row, RowType
<1> HIDE DEF near, far, nearLeg, farLeg, c, d
<1>8. /\ R1 \in Seq(RowType) /\ Len(R1) = n /\ n \in Nat
      /\ DOMAIN R1 = DOMAIN rows \cup {n} /\ n \notin DOMAIN rows /\ R1[n] = near
      /\ \A k \in DOMAIN rows : R1[k] = rows[k]
    BY <1>2, <1>4, AppendAt, AppendProperties
<1>9. /\ R \in Seq(RowType) /\ m = n + 1 /\ m \in Nat /\ Len(R) = m
      /\ DOMAIN R = DOMAIN R1 \cup {m} /\ m \notin DOMAIN R1 /\ R[m] = far
      /\ \A k \in DOMAIN R1 : R[k] = R1[k]
    <2>1. m = n + 1 BY <1>2, TableRows
    <2> HIDE DEF n, m, R1
    <2> QED BY <2>1, <1>4, <1>8, AppendAt, AppendProperties
<1>10. Good(R, strayed, vouched)
    <2>1. Good(R1, strayed, vouched) BY <1>2, <1>3, AppendGood
    <2> HIDE DEF R1
    <2> QED BY <2>1, <1>3, AppendGood
<1>11. /\ DOMAIN R2 = DOMAIN R /\ R2[n] = nearLeg /\ R2[m] = farLeg
       /\ \A k \in DOMAIN rows : R2[k] = rows[k]
       /\ R2 = [k \in DOMAIN R2 |-> R2[k]]
    <2>1. <<nearLeg, farLeg>> \in Seq(RowType) /\ Len(<<nearLeg, farLeg>>) = 2 BY <1>7
    <2>2. /\ R2 \in Seq(RowType) /\ Len(R2) = Len(rows) + 2
          /\ \A k \in 1..Len(rows) + 2 :
                R2[k] = IF k <= Len(rows) THEN rows[k] ELSE <<nearLeg, farLeg>>[k - Len(rows)]
        BY <2>1, <1>2, ConcatProperties
    <2>3. Len(rows) \in Nat /\ DOMAIN rows = 1..Len(rows) BY <1>2, TableRows
    <2>4. DOMAIN R2 = 1..Len(R2) /\ R2 = [k \in DOMAIN R2 |-> R2[k]]
        BY <2>2, LenProperties
    <2> HIDE DEF R2, R, R1
    <2>5. DOMAIN R2 = DOMAIN R BY <2>2, <2>3, <2>4, <1>8, <1>9
    <2>6. \A k \in DOMAIN rows : R2[k] = rows[k] BY <2>2, <2>3
    <2>7. n \in 1..Len(rows) + 2 /\ ~(n <= Len(rows)) /\ n - Len(rows) = 1
          /\ m \in 1..Len(rows) + 2 /\ ~(m <= Len(rows)) /\ m - Len(rows) = 2 BY <2>3
    <2>8. R2[n] = nearLeg /\ R2[m] = farLeg BY <2>2, <2>7
    <2> QED BY <2>4, <2>5, <2>6, <2>8
<1> HIDE DEF n, m, R, R1, R2
<1>12. Coupled(R, R2, n, m, c, d)
    <2>1. R[n] = near /\ R[m] = far BY <1>8, <1>9
    <2>2. \A k \in DOMAIN R \ {n, m} : R2[k] = R[k] BY <1>8, <1>9, <1>11
    <2>3. R2[n] = [R[n] EXCEPT !.partner = m, !.payee = R[m].account, !.category = c]
        BY <2>1, <1>4, <1>5, <1>11
    <2>4. R2[m] = [R[m] EXCEPT !.partner = n, !.payee = R[n].account, !.category = d]
        BY <2>1, <1>4, <1>5, <1>11
    <2> QED BY <2>2, <2>3, <2>4, <1>11 DEF Coupled
<1>13. Good(R2, strayed, vouched)
    <2>1. n \in Pairable(R) /\ m \in Pairable(R) /\ n # m
        BY <1>4, <1>8, <1>9 DEF Pairable, Live
    <2>2. /\ R[n] = near /\ R[m] = far /\ c \in BOOLEAN /\ d \in BOOLEAN
          /\ R[m].amount = -R[n].amount
          /\ c => MayCarry(R[n].account, R[m].account)
          /\ d => MayCarry(R[m].account, R[n].account)
        BY <1>1, <1>4, <1>8, <1>9 DEF c, d
    <2> QED BY <2>1, <2>2, <1>10, <1>12, CoupleGood
<1>14. DOMAIN rows \subseteq DOMAIN R2 BY <1>8, <1>9, <1>11
<1> QED BY <1>6, <1>13, <1>14, WrittenRight

(* The table the invariant holds of.                                       *)
LEMMA Invariant ==
    ASSUME IInv
    PROVE  /\ Good(rows, strayed, vouched) /\ Formed(rows) /\ NoZeros(rows)
           /\ rows \in Seq(RowType) /\ Len(rows) \in Nat /\ DOMAIN rows = 1..Len(rows)
           /\ None \notin DOMAIN rows
           /\ \A k \in DOMAIN rows : rows[k] \in RowType
BY FormedRows DEF IInv, Good, Formed

(* A linked pair is apart from the other rows.                             *)
LEMMA PairApart ==
    ASSUME NEW R, NEW loose, NEW statements, Good(R, loose, statements), NEW i \in Live(R),
           R[i].partner # None
    PROVE  Apart(R, {i, R[i].partner})
BY LinksOf DEF Apart, Within

(* A new table, row by row.                                                *)
LEMMA ChangedTable ==
    ASSUME NEW R \in Seq(RowType), NEW R2, DOMAIN R2 = DOMAIN R, R2 = [k \in DOMAIN R2 |-> R2[k]],
           NEW C, \A k \in DOMAIN R \ C : R2[k] = R[k],
           \A k \in C \cap DOMAIN R : R2[k] \in RowType
    PROVE  Changed(R, R2, C) /\ R2 \in Seq(RowType) /\ Len(R2) = Len(R)
<1>1. /\ Len(R) \in Nat /\ DOMAIN R = 1..Len(R)
      /\ \A k \in DOMAIN R : R[k] \in RowType BY TableRows
<1>2. \A k \in DOMAIN R : R2[k] \in RowType BY <1>1
<1>3. R2 \in Seq(RowType) /\ Len(R2) = Len(R) BY <1>1, <1>2, RowsTable
<1> QED BY <1>1, <1>3 DEF Changed

(* A row on its own is right where it is filed.                            *)
LEMMA SingleSound ==
    ASSUME NEW R, NEW i, NEW C, NEW loose, R[i].partner = None, R[i].parent = None, ~R[i].split,
           R[i].amount # 0, R[i].bank # 0, i \in loose \/ Placed(R, i)
    PROVE  Sound(R, i, loose) /\ Within(R, i, C)
BY DEF Sound, Within

(* A transfer is broken into two plain rows.                               *)
LEMMA BreakKeeps ==
    ASSUME IInv, NEW i \in DOMAIN rows, NEW category \in BOOLEAN, Break(i, category)
    PROVE  IInv'
<1> DEFINE p == rows[i].partner
<1> DEFINE R2 == [Filed(i, category) EXCEPT ![i].partner = None, ![p].partner = None]
<1> DEFINE stray == IF category = rows[i].category THEN {} ELSE {i}
<1>1. i \in Live(rows) /\ p # None /\ Write(R2, stray) /\ rows[i].category \in BOOLEAN
    BY Invariant DEF Break, MayRelink, Live, RowType
<1>2. /\ p \in Live(rows) /\ p \in DOMAIN rows /\ p # i /\ rows[p].partner = i
      /\ rows[i].parent = None /\ rows[p].parent = None /\ ~rows[i].split /\ ~rows[p].split
      /\ rows[i].payee = rows[p].account /\ rows[p].payee = rows[i].account
    BY <1>1, Invariant, LinksOf DEF Live
<1>3. /\ rows[i] \in RowType /\ rows[p] \in RowType
      /\ rows[i].amount # 0 /\ rows[i].bank # 0 /\ rows[p].amount # 0 /\ rows[p].bank # 0
    BY <1>2, Invariant DEF NoZeros
<1>4. /\ R2[i] = [rows[i] EXCEPT !.category = category, !.partner = None]
      /\ R2[p] = [rows[p] EXCEPT !.partner = None]
      /\ \A k \in DOMAIN rows \ {i, p} : R2[k] = rows[k]
      /\ DOMAIN R2 = DOMAIN rows /\ R2 = [k \in DOMAIN R2 |-> R2[k]]
    BY <1>2, <1>3 DEF Filed
<1> HIDE DEF R2, p, stray
<1>5. /\ R2[i] \in RowType /\ R2[i].live /\ ~R2[i].split /\ R2[i].parent = None
      /\ R2[i].partner = None /\ R2[i].amount = rows[i].amount
      /\ R2[i].account = rows[i].account /\ R2[i].cleared = rows[i].cleared
      /\ R2[i].bank = rows[i].bank /\ R2[i].payee = rows[i].payee /\ R2[i].category = category
    <2>1. R2[i] \in RowType BY <1>3, <1>4 DEF RowType
    <2>2. /\ R2[i].live = rows[i].live /\ R2[i].split = rows[i].split
          /\ R2[i].parent = rows[i].parent /\ R2[i].partner = None
          /\ R2[i].amount = rows[i].amount /\ R2[i].account = rows[i].account
          /\ R2[i].cleared = rows[i].cleared /\ R2[i].bank = rows[i].bank
          /\ R2[i].payee = rows[i].payee /\ R2[i].category = category
        BY <1>3, <1>4 DEF RowType
    <2> QED BY <2>1, <2>2, <1>1, <1>2 DEF Live
<1>6. /\ R2[p] \in RowType /\ R2[p].live /\ ~R2[p].split /\ R2[p].parent = None
      /\ R2[p].partner = None /\ R2[p].amount = rows[p].amount
      /\ R2[p].account = rows[p].account /\ R2[p].cleared = rows[p].cleared
      /\ R2[p].bank = rows[p].bank /\ R2[p].payee = rows[p].payee
      /\ R2[p].category = rows[p].category
    BY <1>1, <1>2, <1>3, <1>4 DEF RowType, Live
<1>7. /\ rows[i].account \in Accounts /\ rows[p].account \in Accounts
      /\ rows[i].payee \in Accounts /\ rows[p].payee \in Accounts
    BY <1>2, <1>3 DEF RowType
<1>8. Changed(rows, R2, {i, p}) BY <1>4, <1>5, <1>6, Invariant, ChangedTable
<1>9. FiledRight(rows, strayed) BY Invariant DEF Good
<1>10. Sound(R2, i, strayed \cup stray) /\ Within(R2, i, {i, p})
    <2>1. i \in strayed \cup stray \/ Placed(R2, i)
        <3>1. CASE category = rows[i].category
            <4>1. i \in strayed \/ Placed(rows, i) BY <1>1, <1>9 DEF FiledRight
            <4> QED BY <3>1, <4>1, <1>1, <1>2, <1>5, <1>7 DEF Placed, Named, p
        <3>2. CASE category # rows[i].category BY <3>2 DEF stray
        <3> QED BY <3>1, <3>2
    <2> QED BY <2>1, <1>3, <1>5, SingleSound
<1>11. Sound(R2, p, strayed \cup stray) /\ Within(R2, p, {i, p})
    <2>1. p \in strayed \/ Placed(rows, p) BY <1>2, <1>9 DEF FiledRight
    <2>2. p \in strayed \cup stray \/ Placed(R2, p)
        BY <2>1, <1>2, <1>6, <1>7, Invariant DEF Placed, Named
    <2> QED BY <2>2, <1>3, <1>6, SingleSound
<1>12. LocksFitAt(rows, R2, i) /\ LocksFitAt(rows, R2, p)
    BY <1>1, <1>2, <1>4, <1>5, <1>6 DEF LocksFitAt, IsLocked, Live
<1>13. Good(R2, strayed \cup stray, vouched)
    <2>1. Apart(rows, {i, p}) BY <1>1, Invariant, PairApart DEF p
    <2>2. strayed \subseteq strayed \cup stray /\ {i, p} \cap DOMAIN R2 \subseteq {i, p} OBVIOUS
    <2> QED BY <2>1, <2>2, <1>8, <1>10, <1>11, <1>12, Invariant, ChangeGood
<1>14. DOMAIN rows \subseteq DOMAIN R2 /\ stray \subseteq DOMAIN R2 \cup {None}
    BY <1>4 DEF stray
<1> QED BY <1>1, <1>13, <1>14, Written

(* The far leg moves to another account.                                   *)
LEMMA RetargetKeeps ==
    ASSUME IInv, NEW i \in DOMAIN rows, NEW target \in Accounts, NEW category \in BOOLEAN,
           Retarget(i, target, category)
    PROVE  IInv'
<1> DEFINE p == rows[i].partner
<1> DEFINE R2 == [Filed(i, category) EXCEPT ![i].payee = target, ![p].account = target,
                                            ![p].payee = rows[i].account]
<1>1. /\ i \in Live(rows) /\ p # None /\ Write(R2, {p}) /\ rows[p].cleared # "reconciled"
      /\ category => MayCarry(rows[i].account, target)
    BY DEF Retarget, PlanTo, MayRelink, Live
<1>2. /\ p \in Live(rows) /\ p \in DOMAIN rows /\ p # i /\ rows[p].partner = i
      /\ rows[i].parent = None /\ rows[p].parent = None /\ ~rows[i].split /\ ~rows[p].split
      /\ rows[p].amount = -rows[i].amount
    BY <1>1, Invariant, LinksOf DEF Live
<1>3. /\ rows[i] \in RowType /\ rows[p] \in RowType /\ i # None /\ p # None
      /\ rows[i].amount # 0 /\ rows[i].bank # 0 /\ rows[p].amount # 0 /\ rows[p].bank # 0
    BY <1>1, <1>2, Invariant DEF NoZeros
<1>4. /\ R2[i] = [rows[i] EXCEPT !.category = category, !.payee = target]
      /\ R2[p] = [rows[p] EXCEPT !.account = target, !.payee = rows[i].account]
      /\ \A k \in DOMAIN rows \ {i, p} : R2[k] = rows[k]
      /\ DOMAIN R2 = DOMAIN rows /\ R2 = [k \in DOMAIN R2 |-> R2[k]]
    BY <1>2, <1>3 DEF Filed
<1> HIDE DEF R2, p
<1>5. rows[i].account \in Accounts /\ rows[i].amount \in Int /\ rows[p].amount \in Int
    BY <1>3 DEF RowType
<1>6. /\ R2[i] \in RowType /\ R2[i].live /\ ~R2[i].split /\ R2[i].parent = None
      /\ R2[i].partner = p /\ R2[i].amount = rows[i].amount
      /\ R2[i].account = rows[i].account /\ R2[i].cleared = rows[i].cleared
      /\ R2[i].bank = rows[i].bank /\ R2[i].payee = target /\ R2[i].category = category
    <2>1. R2[i] \in RowType BY <1>3, <1>4 DEF RowType
    <2>2. /\ R2[i].live = rows[i].live /\ R2[i].split = rows[i].split
          /\ R2[i].parent = rows[i].parent /\ R2[i].partner = rows[i].partner
          /\ R2[i].amount = rows[i].amount /\ R2[i].account = rows[i].account
          /\ R2[i].cleared = rows[i].cleared /\ R2[i].bank = rows[i].bank
          /\ R2[i].payee = target /\ R2[i].category = category
        BY <1>3, <1>4 DEF RowType
    <2> QED BY <2>1, <2>2, <1>1, <1>2 DEF Live, p
<1>7. /\ R2[p] \in RowType /\ R2[p].live /\ ~R2[p].split /\ R2[p].parent = None
      /\ R2[p].partner = i /\ R2[p].amount = rows[p].amount
      /\ R2[p].account = target /\ R2[p].cleared = rows[p].cleared
      /\ R2[p].bank = rows[p].bank /\ R2[p].payee = rows[i].account
    <2>1. R2[p] \in RowType BY <1>3, <1>4, <1>5 DEF RowType
    <2>2. /\ R2[p].live = rows[p].live /\ R2[p].split = rows[p].split
          /\ R2[p].parent = rows[p].parent /\ R2[p].partner = rows[p].partner
          /\ R2[p].amount = rows[p].amount /\ R2[p].account = target
          /\ R2[p].cleared = rows[p].cleared /\ R2[p].bank = rows[p].bank
          /\ R2[p].payee = rows[i].account
        BY <1>3, <1>4 DEF RowType
    <2> QED BY <2>1, <2>2, <1>1, <1>2 DEF Live
<1>8. Changed(rows, R2, {i, p}) BY <1>4, <1>6, <1>7, Invariant, ChangedTable
<1> DEFINE loose2 == strayed \cup {p}
<1>9. Sound(R2, i, loose2) /\ Within(R2, i, {i, p})
    <2>1. /\ R2[p].amount = -R2[i].amount /\ R2[i].payee = R2[p].account
          /\ R2[i].amount \in Int /\ R2[i].amount # 0 /\ R2[i].bank # 0
          /\ i \in loose2 \/ (R2[i].category => MayCarry(R2[i].account, R2[p].account))
        BY <1>1, <1>2, <1>3, <1>5, <1>6, <1>7
    <2> HIDE DEF loose2
    <2> QED BY <2>1, <1>2, <1>3, <1>4, <1>6, <1>7, CoupleSound
<1>10. Sound(R2, p, loose2) /\ Within(R2, p, {p, i})
    <2>1. /\ R2[i].amount = -R2[p].amount /\ R2[p].payee = R2[i].account
          /\ R2[p].amount \in Int /\ R2[p].amount # 0 /\ R2[p].bank # 0
          /\ p \in loose2
        BY <1>1, <1>2, <1>3, <1>5, <1>6, <1>7
    <2> HIDE DEF loose2
    <2> QED BY <2>1, <1>2, <1>3, <1>4, <1>6, <1>7, CoupleSound
<1>11. LocksFitAt(rows, R2, i) /\ LocksFitAt(rows, R2, p)
    BY <1>1, <1>2, <1>4, <1>6, <1>7 DEF LocksFitAt, IsLocked, Live, p
<1>12. Good(R2, loose2, vouched)
    <2>1. Apart(rows, {i, p}) BY <1>1, Invariant, PairApart DEF p
    <2>2. Within(R2, p, {i, p}) BY <1>10 DEF Within
    <2>3. strayed \subseteq loose2 OBVIOUS
    <2> HIDE DEF loose2
    <2> QED BY <2>1, <2>2, <2>3, <1>8, <1>9, <1>10, <1>11, Invariant, ChangeGood
<1>13. DOMAIN rows \subseteq DOMAIN R2 /\ {p} \subseteq DOMAIN R2 \cup {None} BY <1>2, <1>4
<1> QED BY <1>1, <1>12, <1>13, Written

(* A plain row of the target account becomes the other leg.                *)
LEMMA LinkKeeps ==
    ASSUME IInv, NEW i \in DOMAIN rows, NEW target \in Accounts, NEW category \in BOOLEAN,
           NEW j \in DOMAIN rows, Link(i, target, category, j)
    PROVE  IInv'
<1> DEFINE R2 == Joined(Filed(i, category), i, j)
<1>1. /\ Write(R2, {j}) /\ i \in Pairable(rows) /\ j \in Pairable(rows) /\ j # i
      /\ rows[j].amount = -rows[i].amount /\ rows[j].account = target
      /\ category => MayCarry(rows[i].account, target)
    BY DEF Link, PlanTo, MayRelink, Candidates, Pairable, Live
<1>2. rows[i] \in RowType /\ rows[j] \in RowType /\ rows[j].category \in BOOLEAN
    BY Invariant DEF RowType
<1>3. Coupled(rows, R2, i, j, category, rows[j].category)
    <2> DEFINE F == Filed(i, category)
    <2>1. /\ DOMAIN F = DOMAIN rows /\ F[i] = [rows[i] EXCEPT !.category = category]
          /\ \A k \in DOMAIN rows \ {i} : F[k] = rows[k] BY DEF Filed
    <2> HIDE DEF F
    <2>2. /\ DOMAIN R2 = DOMAIN rows /\ R2 = [k \in DOMAIN R2 |-> R2[k]]
          /\ R2[i] = [F[i] EXCEPT !.partner = j, !.payee = F[j].account]
          /\ R2[j] = [F[j] EXCEPT !.partner = i, !.payee = F[i].account]
          /\ \A k \in DOMAIN rows \ {i, j} : R2[k] = F[k]
        BY <2>1, <1>1 DEF Joined, F
    <2> HIDE DEF R2
    <2>3. F[j] = rows[j] /\ F[i].account = rows[i].account BY <2>1, <1>1, <1>2 DEF RowType
    <2>4. R2[i] = [rows[i] EXCEPT !.partner = j, !.payee = rows[j].account, !.category = category]
        BY <2>1, <2>2, <2>3, <1>2 DEF RowType
    <2>5. R2[j] = [rows[j] EXCEPT !.partner = i, !.payee = rows[i].account,
                                  !.category = rows[j].category]
        BY <2>2, <2>3, <1>2 DEF RowType
    <2> QED BY <2>1, <2>2, <2>4, <2>5 DEF Coupled
<1> HIDE DEF R2
<1>4. Good(R2, strayed \cup {j}, vouched) /\ DOMAIN R2 = DOMAIN rows
    <2> DEFINE loose2 == strayed \cup {j}
    <2>1. strayed \subseteq loose2 /\ j \in loose2 OBVIOUS
    <2>2. category => MayCarry(rows[i].account, rows[j].account) BY <1>1
    <2>3. Good(rows, strayed, vouched) BY Invariant
    <2> HIDE DEF loose2
    <2>4. Good(R2, loose2, vouched) /\ DOMAIN R2 = DOMAIN rows
        BY <2>1, <2>2, <2>3, <1>1, <1>2, <1>3, CoupleGood
    <2> QED BY <2>4 DEF loose2
<1> QED BY <1>1, <1>4, Written

(* A row that names an account no longer does.                             *)
LEMMA UnmarkKeeps ==
    ASSUME IInv, NEW i \in DOMAIN rows, NEW category \in BOOLEAN, Unmark(i, category)
    PROVE  IInv'
<1> DEFINE R2 == [Filed(i, category) EXCEPT ![i].payee = None]
<1>1. /\ i \in Live(rows) /\ rows[i].partner = None /\ rows[i].parent = None /\ ~rows[i].split
      /\ rows[i].live /\ rows[i].payee \in Accounts /\ Write(R2, {})
      /\ category /\ ~rows[i].category => Fileable(rows[i].account, rows[i].payee)
    BY DEF Unmark, MayRelink, MayEnd, Live
<1>2. rows[i] \in RowType /\ rows[i].amount # 0 /\ rows[i].bank # 0
    BY <1>1, Invariant DEF NoZeros
<1>3. /\ R2[i] = [rows[i] EXCEPT !.category = category, !.payee = None]
      /\ \A k \in DOMAIN rows \ {i} : R2[k] = rows[k]
      /\ DOMAIN R2 = DOMAIN rows /\ R2 = [k \in DOMAIN R2 |-> R2[k]]
    BY <1>2 DEF Filed
<1> HIDE DEF R2
<1>4. /\ R2[i] \in RowType /\ R2[i].live = rows[i].live /\ R2[i].split = rows[i].split
      /\ R2[i].parent = rows[i].parent /\ R2[i].partner = rows[i].partner
      /\ R2[i].amount = rows[i].amount /\ R2[i].account = rows[i].account
      /\ R2[i].cleared = rows[i].cleared /\ R2[i].bank = rows[i].bank
      /\ R2[i].payee = None /\ R2[i].category = category
    BY <1>2, <1>3 DEF RowType
<1>5. i \in strayed \/ Placed(R2, i)
    <2>1. i \in strayed \/ Placed(rows, i) BY <1>1, Invariant DEF Good, FiledRight
    <2>2. None \notin OnBudget /\ None \notin Accounts BY LedgerAssumption
    <2> QED BY <2>1, <2>2, <1>1, <1>4 DEF Placed, Fileable, MayCarry, Named
<1>6. Sound(R2, i, strayed) /\ Within(R2, i, {i}) BY <1>1, <1>2, <1>4, <1>5, SingleSound
<1>7. LocksFitAt(rows, R2, i) BY <1>1, <1>3, <1>4 DEF LocksFitAt, IsLocked
<1>8. Good(R2, strayed, vouched)
    <2>1. Changed(rows, R2, {i}) BY <1>3, <1>4, Invariant, ChangedTable
    <2>2. Apart(rows, {i}) BY <1>1, Invariant, LinksOf DEF Apart, Within
    <2>3. strayed \subseteq strayed /\ Good(rows, strayed, vouched) BY Invariant
    <2>4. \A k \in {i} \cap DOMAIN R2 :
             Sound(R2, k, strayed) /\ Within(R2, k, {i}) /\ LocksFitAt(rows, R2, k)
        BY <1>6, <1>7
    <2> QED BY <2>1, <2>2, <2>3, <2>4, ChangeGood
<1> QED BY <1>1, <1>3, <1>8, WrittenRight

(* A far leg is a plain row, entered and joined to the near one.           *)
LEMMA CreateFarLegKeeps ==
    ASSUME IInv, NEW i \in DOMAIN rows, NEW target \in Accounts, NEW category \in BOOLEAN,
           NEW confirmed, CreateFarLeg(i, target, category, confirmed)
    PROVE  IInv'
<1> DEFINE n == Len(rows) + 1
<1> DEFINE row == Row(target, -rows[i].amount, "uncleared")
<1> DEFINE far == [Row(target, -rows[i].amount, "uncleared")
                     EXCEPT !.payee = rows[i].account, !.partner = i]
<1> DEFINE near == [Filed(i, category) EXCEPT ![i].payee = target, ![i].partner = Len(rows) + 1]
<1> DEFINE R == Append(rows, row)
<1> DEFINE R2 == Append(near, far)
<1>0. Write(R2, {}) BY DEF CreateFarLeg
<1>1. i \in Pairable(rows) /\ (category => MayCarry(rows[i].account, target))
    BY DEF CreateFarLeg, PlanTo, MayRelink, Pairable, Live
<1>2. /\ rows[i] \in RowType /\ i \in Nat /\ rows[i].amount # 0 /\ rows[i].amount \in Int
      /\ rows[i].account \in Accounts /\ n \in Nat /\ n \notin DOMAIN rows
    <2>1. i \in Nat /\ n \in Nat /\ n \notin DOMAIN rows BY Invariant
    <2>2. rows[i].parent = None BY <1>1 DEF Pairable
    <2>3. rows[i] \in RowType /\ rows[i].amount # 0 BY <2>2, Invariant DEF NoZeros
    <2> QED BY <2>1, <2>3 DEF RowType
<1>3. Plain(row) /\ ~row.category /\ row.category \in BOOLEAN
    <2> DEFINE x == -rows[i].amount
    <2>1. "uncleared" \in Unlocked /\ x \in Int /\ x # 0 BY <1>2 DEF Unlocked
    <2> HIDE DEF x
    <2>2. Bare(Row(target, x, "uncleared"), target, x, "uncleared")
        BY <2>1, BareRow
    <2> QED BY <2>2 DEF x, Bare
<1>4. /\ row \in RowType /\ row.live /\ ~row.split /\ row.parent = None /\ row.partner = None
      /\ row.amount = -rows[i].amount /\ row.account = target
    <2>1. row.amount = -rows[i].amount /\ row.account = target BY DEF Row
    <2> QED BY <2>1, <1>3 DEF Plain
<1>5. far = [row EXCEPT !.partner = i, !.payee = rows[i].account, !.category = FALSE]
    <2>1. far = [row EXCEPT !.payee = rows[i].account, !.partner = i] OBVIOUS
    <2> HIDE DEF row, far
    <2> QED BY <2>1, <1>3, <1>4 DEF RowType
<1>6. far \in RowType BY <1>2, <1>4, <1>5 DEF RowType
<1>7. /\ near[i] = [rows[i] EXCEPT !.category = category, !.payee = target, !.partner = n]
      /\ \A k \in DOMAIN rows \ {i} : near[k] = rows[k]
      /\ DOMAIN near = DOMAIN rows /\ near = [k \in DOMAIN near |-> near[k]]
    BY <1>2 DEF Filed
<1> HIDE DEF near, far, row, n
<1>8. near[i] = [rows[i] EXCEPT !.partner = n, !.payee = target, !.category = category]
      /\ near[i] \in RowType
    BY <1>2, <1>7 DEF RowType
<1>9. near \in Seq(RowType) /\ Len(near) = Len(rows)
    BY <1>7, <1>8, Invariant, ChangedTable
<1>10. /\ R \in Seq(RowType) /\ DOMAIN R = DOMAIN rows \cup {n} /\ R[n] = row
       /\ \A k \in DOMAIN rows : R[k] = rows[k]
    BY <1>4, Invariant, AppendAt, AppendProperties DEF n
<1>11. /\ R2 \in Seq(RowType) /\ DOMAIN R2 = DOMAIN rows \cup {n} /\ R2[n] = far
       /\ \A k \in DOMAIN rows : R2[k] = near[k]
    BY <1>6, <1>7, <1>9, AppendAt, AppendProperties DEF n
<1>12. R2 = [k \in DOMAIN R2 |-> R2[k]] BY <1>11, LenProperties
<1> HIDE DEF R, R2
<1>13. Good(R, strayed, vouched) BY <1>3, Invariant, AppendGood DEF R
<1> DEFINE d == FALSE
<1>14. Coupled(R, R2, i, n, category, d)
    <2>1. i # n BY <1>2
    <2>2. R[i] = rows[i] /\ R2[i] = near[i] /\ R[n] = row /\ R2[n] = far BY <1>10, <1>11
    <2>3. \A k \in DOMAIN R \ {i, n} : R2[k] = R[k] BY <1>7, <1>10, <1>11
    <2>4. R2[i] = [R[i] EXCEPT !.partner = n, !.payee = R[n].account, !.category = category]
        BY <2>2, <1>4, <1>8
    <2>5. R2[n] = [R[n] EXCEPT !.partner = i, !.payee = R[i].account, !.category = FALSE]
        BY <2>2, <1>5
    <2> QED BY <2>3, <2>4, <2>5, <1>10, <1>11, <1>12 DEF Coupled
<1>15. Good(R2, strayed, vouched)
    <2>1. i \in Pairable(R) /\ n \in Pairable(R) /\ i # n /\ R[n] = row /\ R[i] = rows[i]
        <3>1. i # n /\ R[n] = row /\ R[i] = rows[i] /\ i \in DOMAIN R /\ n \in DOMAIN R
            BY <1>2, <1>10
        <3>2. i \in Pairable(R) BY <3>1, <1>1 DEF Pairable, Live
        <3>3. n \in Pairable(R) BY <3>1, <1>4 DEF Pairable, Live
        <3> QED BY <3>1, <3>2, <3>3
    <2>2. /\ R[n].amount = -R[i].amount
          /\ category => MayCarry(R[i].account, R[n].account)
        BY <2>1, <1>1, <1>4
    <2>3. strayed \subseteq strayed /\ d \in BOOLEAN
          /\ (d => MayCarry(R[n].account, R[i].account)) OBVIOUS
    <2> HIDE DEF d
    <2>4. Good(R2, strayed, vouched) /\ DOMAIN R2 = DOMAIN R
        BY <2>1, <2>2, <2>3, <1>13, <1>14, CoupleGood
    <2> QED BY <2>4
<1> QED BY <1>0, <1>11, <1>15, WrittenRight

(* A row goes, and its other leg and its lines with it.                    *)
LEMMA DeleteKeeps ==
    ASSUME IInv, NEW i \in DOMAIN rows, Delete(i)
    PROVE  IInv'
<1> DEFINE p == rows[i].partner
<1> DEFINE C == {i, p} \cup Lines(rows, i)
<1> DEFINE R2 == Unlive(rows, C)
<1>1. /\ i \in Live(rows) /\ rows[i].cleared # "reconciled" /\ rows[i].parent = None
      /\ p # None => rows[p].cleared # "reconciled"
      /\ Write(R2, {})
    BY DEF Delete, Live
<1>2. /\ p # None => /\ rows[p].partner = i /\ rows[p].parent = None /\ p \in Live(rows)
                     /\ Lines(rows, i) = {} /\ Lines(rows, p) = {}
      /\ \A j \in Lines(rows, i) :
            j \in Live(rows) /\ rows[j].parent = i /\ rows[j].partner = None
            /\ Lines(rows, j) = {}
    <2>1. \A j \in Lines(rows, i) : j \in Live(rows) /\ rows[j].parent = i BY DEF Lines, Live
    <2>2. i # None BY <1>1, Invariant
    <2>3. \A j \in Lines(rows, i) : rows[j].partner = None /\ ~rows[j].split
        BY <2>1, <2>2, Invariant, LinksOf
    <2>4. \A j \in Lines(rows, i) : Lines(rows, j) = {} BY <2>1, <2>3, Invariant, LinksOf
    <2>5. p # None => /\ rows[p].partner = i /\ rows[p].parent = None /\ p \in Live(rows)
                      /\ Lines(rows, i) = {} /\ Lines(rows, p) = {}
        BY <1>1, Invariant, LinksOf
    <2> QED BY <2>1, <2>3, <2>4, <2>5
<1>3. Apart(rows, C)
    <2> SUFFICES ASSUME NEW k \in C \cap Live(rows)
                 PROVE  Within(rows, k, C) /\ Lines(rows, k) \subseteq C
        BY DEF Apart
    <2>1. CASE k = i BY <2>1, <1>1 DEF Within
    <2>2. CASE k = p
        <3>1. p # None BY <2>2, Invariant DEF Live
        <3> QED BY <2>2, <3>1, <1>2 DEF Within
    <2>3. CASE k \in Lines(rows, i) BY <2>3, <1>2 DEF Within
    <2> QED BY <2>1, <2>2, <2>3
<1>4. \A k \in DOMAIN rows \cap C : ~IsLocked(rows, k)
    BY <1>1, <1>2, Invariant DEF IsLocked, Live
<1>5. /\ DOMAIN R2 = DOMAIN rows /\ R2 = [k \in DOMAIN R2 |-> R2[k]]
      /\ \A k \in DOMAIN rows : R2[k] = [rows[k] EXCEPT !.live = @ /\ k \notin C]
    BY DEF Unlive
<1> HIDE DEF C, R2, p
<1>6. ASSUME NEW k \in DOMAIN rows
      PROVE  /\ R2[k] \in RowType
             /\ k \notin C => R2[k] = rows[k]
             /\ k \in C => ~R2[k].live /\ R2[k].partner = rows[k].partner
                           /\ R2[k].parent = rows[k].parent /\ R2[k].amount = rows[k].amount
                           /\ R2[k].bank = rows[k].bank
    <2>1. rows[k] \in RowType BY Invariant
    <2>2. R2[k] = [rows[k] EXCEPT !.live = @ /\ k \notin C] BY <1>5
    <2>3. CASE k \in C
        <3>1. R2[k] = [rows[k] EXCEPT !.live = FALSE] BY <2>2, <2>3
        <3> QED BY <2>1, <2>3, <3>1 DEF RowType
    <2>4. CASE k \notin C
        <3>1. R2[k] = [rows[k] EXCEPT !.live = rows[k].live]
            BY <2>1, <2>2, <2>4 DEF RowType
        <3>2. R2[k] = rows[k] BY <3>1, <2>1 DEF RowType
        <3> QED BY <2>1, <2>4, <3>2
    <2> QED BY <2>3, <2>4
<1>7. ASSUME NEW k \in C \cap DOMAIN R2
      PROVE  Sound(R2, k, strayed) /\ Within(R2, k, C) /\ LocksFitAt(rows, R2, k)
    <2>1. k \in DOMAIN rows /\ ~R2[k].live BY <1>5, <1>6
    <2>2. /\ {rows[k].partner, rows[k].parent} \subseteq DOMAIN rows \cup {None}
          /\ rows[k].bank # 0 /\ (rows[k].parent = None => rows[k].amount # 0)
        BY <2>1, Invariant DEF Formed, NoZeros
    <2> QED BY <2>1, <2>2, <1>4, <1>5, <1>6 DEF Sound, Within, LocksFitAt, IsLocked
<1>8. Changed(rows, R2, C) BY <1>5, <1>6, Invariant, ChangedTable
<1>9. Good(R2, strayed, vouched)
    <2>1. strayed \subseteq strayed OBVIOUS
    <2> QED BY <2>1, <1>3, <1>7, <1>8, Invariant, ChangeGood
<1> QED BY <1>1, <1>5, <1>9, WrittenRight

\* Row i becomes the split of the rows f and s: s is new, f is new or an old
\* line, the other old lines go.
Divides(R, R2, i, f, s, loose) ==
    /\ R2 \in Seq(RowType) /\ Len(R) <= Len(R2) /\ DOMAIN R2 = DOMAIN R \cup {f, s}
    /\ s \notin DOMAIN R /\ f # s /\ (f \in DOMAIN R => f \in Lines(R, i))
    /\ R2[i].live /\ R2[i].split /\ ~R2[i].category
    /\ R2[i].account = R[i].account /\ R2[i].amount = R[i].amount
    /\ R2[i].cleared = R[i].cleared /\ R2[i].bank = R[i].bank
    /\ R2[i].partner = None /\ R2[i].parent = None
    /\ \A k \in Lines(R, i) \ {f} :
          /\ ~R2[k].live /\ R2[k].partner = R[k].partner /\ R2[k].parent = R[k].parent
          /\ R2[k].bank = R[k].bank
    /\ \A k \in DOMAIN R : k \notin Lines(R, i) \cup {i} => R2[k] = R[k]
    /\ \A n \in {f, s} :
          /\ R2[n].live /\ R2[n].parent = i /\ R2[n].partner = None /\ ~R2[n].split
          /\ R2[n].account = R[i].account /\ R2[n].bank # 0
          /\ n \in loose \/ R2[n].cleared = R[i].cleared
          /\ n \in loose \/ (R2[n].category => MayCarry(R[i].account, Named(R2[n].payee)))
    /\ R2[f].amount + R2[s].amount = R[i].amount

(* A row divided into two lines that add up to it.                         *)
LEMMA DivideGood ==
    ASSUME NEW R, NEW loose, NEW loose2, NEW statements, Good(R, loose, statements),
           NEW i \in Live(R), R[i].partner = None, R[i].parent = None, loose \subseteq loose2,
           NEW f, NEW s, NEW R2, Divides(R, R2, i, f, s, loose2)
    PROVE  Good(R2, loose2, statements)
<1> DEFINE C == {i, f, s} \cup Lines(R, i)
<1>1. /\ R \in Seq(RowType) /\ NoZeros(R) /\ i \in DOMAIN R /\ None \notin DOMAIN R /\ i # None
      /\ Formed(R) /\ R[i].amount # 0 /\ R[i].bank # 0
    BY FormedRows DEF Good, Formed, Live, NoZeros
<1>2. /\ R2 \in Seq(RowType) /\ Len(R) <= Len(R2) /\ DOMAIN R2 = DOMAIN R \cup {f, s}
      /\ DOMAIN R2 = 1..Len(R2) /\ Priced(R2) /\ None \notin DOMAIN R2
      /\ s \notin DOMAIN R /\ f # s /\ (f \in DOMAIN R => f \in Lines(R, i))
    <2>1. R2 \in Seq(RowType) BY DEF Divides
    <2> QED BY <2>1, TableRows DEF Divides
<1>3. \A j \in Lines(R, i) :
          /\ j \in Live(R) /\ R[j].parent = i /\ R[j].partner = None /\ ~R[j].split
          /\ Lines(R, j) = {} /\ j # i
    <2>1. \A j \in Lines(R, i) : j \in Live(R) /\ R[j].parent = i BY DEF Lines, Live
    <2>2. \A j \in Lines(R, i) : R[j].partner = None /\ ~R[j].split
        BY <2>1, <1>1, LinksOf
    <2> QED BY <2>1, <2>2, <1>1, LinksOf
<1>4. f # i /\ s # i BY <1>1, <1>2, <1>3
<1>5. Apart(R, C)
    <2> SUFFICES ASSUME NEW k \in C \cap Live(R) PROVE Within(R, k, C) /\ Lines(R, k) \subseteq C
        BY DEF Apart
    <2>1. k \in DOMAIN R BY DEF Live
    <2>2. CASE k = i BY <2>2 DEF Within
    <2>3. CASE k # i
        <3>1. k \in Lines(R, i) BY <2>1, <2>3, <1>2
        <3> QED BY <3>1, <1>3 DEF Within
    <2> QED BY <2>2, <2>3
<1>6. Changed(R, R2, C) BY <1>2 DEF Changed, Divides
<1>7. Lines(R2, i) = {f, s}
    <2>1. ASSUME NEW j \in Lines(R2, i), j \notin {f, s} PROVE FALSE
        <3>1. j \in DOMAIN R /\ R2[j].live /\ R2[j].parent = i BY <2>1, <1>2 DEF Lines
        <3>2. j # i BY <3>1, <1>1 DEF Divides
        <3>3. j \notin Lines(R, i) BY <3>1, <2>1 DEF Divides
        <3>4. R2[j] = R[j] BY <3>1, <3>2, <3>3 DEF Divides
        <3> QED BY <3>1, <3>3, <3>4 DEF Lines
    <2>2. f \in Lines(R2, i) /\ s \in Lines(R2, i) BY <1>2 DEF Divides, Lines
    <2> QED BY <2>1, <2>2
<1>8. Total(R2, Lines(R2, i)) = R2[i].amount
    <2>1. f \in 1..Len(R2) /\ s \in 1..Len(R2) BY <1>2
    <2>2. Total(R2, {f, s}) = R2[f].amount + R2[s].amount BY <2>1, <1>2, TotalOfTwo
    <2> QED BY <2>2, <1>7 DEF Divides
<1>9. Whole(R2, i, loose2)
    <2>1. ~R2[i].category /\ Lines(R2, i) # {} BY <1>7 DEF Divides
    <2>2. \A j \in {f, s} : /\ R2[j].account = R2[i].account
                            /\ R2[j].cleared = R2[i].cleared \/ j \in loose2
        BY DEF Divides
    <2> QED BY <2>1, <2>2, <1>7, <1>8 DEF Whole
<1>10. ASSUME NEW k \in C \cap DOMAIN R2
       PROVE  Sound(R2, k, loose2) /\ Within(R2, k, C) /\ LocksFitAt(R, R2, k)
    <2>1. CASE k = i
        <3>1. /\ R2[i].live /\ R2[i].split /\ ~R2[i].category
              /\ R2[i].account = R[i].account /\ R2[i].amount = R[i].amount
              /\ R2[i].cleared = R[i].cleared /\ R2[i].bank = R[i].bank
              /\ R2[i].partner = None /\ R2[i].parent = None
            BY DEF Divides
        <3>2. Sound(R2, i, loose2) BY <3>1, <1>1, <1>9 DEF Sound, Placed
        <3>3. R[i].live BY DEF Live
        <3> QED BY <2>1, <3>1, <3>2, <3>3, <1>1, <1>2 DEF Within, LocksFitAt, IsLocked
    <2>2. CASE k \in {f, s}
        <3>1. /\ R2[k].live /\ R2[k].parent = i /\ R2[k].partner = None /\ ~R2[k].split
              /\ R2[k].account = R[i].account /\ R2[k].bank # 0
              /\ k \in loose2 \/ (R2[k].category => MayCarry(R[i].account, Named(R2[k].payee)))
            BY <2>2 DEF Divides
        <3>2. R2[i].live /\ R2[i].split /\ i \in DOMAIN R2 BY <1>1, <1>2 DEF Divides
        <3>3. Sound(R2, k, loose2) BY <3>1, <3>2, <1>1 DEF Sound, Placed, Structured
        <3>4. ~IsLocked(R, k) BY <2>2, <1>1, <1>2, <1>3 DEF IsLocked
        <3>5. ~IsLocked(R2, k) BY <3>1, <1>1 DEF IsLocked
        <3> QED BY <3>1, <3>3, <3>4, <3>5 DEF Within, LocksFitAt
    <2>3. CASE k \in Lines(R, i) \ {f}
        <3>1. /\ ~R2[k].live /\ R2[k].partner = None /\ R2[k].parent = i
              /\ R2[k].bank = R[k].bank
            BY <2>3, <1>3 DEF Divides
        <3>2. R[k].bank # 0 /\ i \in DOMAIN R2 BY <2>3, <1>1, <1>2 DEF NoZeros, Lines
        <3>3. ~IsLocked(R, k) /\ ~IsLocked(R2, k) BY <2>3, <3>1, <1>1, <1>3 DEF IsLocked
        <3> QED BY <3>1, <3>2, <3>3, <1>1 DEF Sound, Within, LocksFitAt
    <2> QED BY <2>1, <2>2, <2>3
<1> HIDE DEF C
<1> QED BY <1>5, <1>6, <1>10, ChangeGood

(* Two is two.                                                             *)
LEMMA PairCard == Cardinality({1, 2}) = 2
<1>1. IsFiniteSet({1}) /\ Cardinality({1}) = 1 BY FS_Singleton
<1>2. Cardinality({1} \cup {2}) = 1 + 1 BY <1>1, FS_AddElement
<1>3. {1} \cup {2} = {1, 2} OBVIOUS
<1> QED BY <1>2, <1>3

(* The lines a request adds, when it names one row or none.                *)
LEMMA TwoNewLines ==
    ASSUME NEW R, NEW i, NEW lines, DOMAIN lines = {1, 2}, lines[1].id = None, lines[2].id = None
    PROVE  NewLines(R, i, lines) =
              << [Row(R[i].account, lines[1].amount, R[i].cleared)
                   EXCEPT !.category = lines[1].category, !.parent = i],
                 [Row(R[i].account, lines[2].amount, R[i].cleared)
                   EXCEPT !.category = lines[2].category, !.parent = i] >>
<1> DEFINE new == {n \in DOMAIN lines : lines[n].id = None}
<1> DEFINE nth(k) == CHOOSE n \in new : Cardinality({m \in new : m <= n}) = k
<1> DEFINE row(n) == [Row(R[i].account, lines[n].amount, R[i].cleared)
                        EXCEPT !.category = lines[n].category, !.parent = i]
<1>1. new = {1, 2} /\ Cardinality(new) = 2
    <2>1. new = {1, 2} OBVIOUS
    <2> QED BY <2>1, PairCard
<1>2. {m \in new : m <= 1} = {1} /\ {m \in new : m <= 2} = {1, 2} BY <1>1
<1>3. Cardinality({m \in new : m <= 1}) = 1 /\ Cardinality({m \in new : m <= 2}) = 2
    BY <1>2, FS_Singleton, PairCard
<1>4. nth(1) = 1 /\ nth(2) = 2
    <2>1. \A n \in new : Cardinality({m \in new : m <= n}) = 1 <=> n = 1 BY <1>1, <1>3
    <2>2. \A n \in new : Cardinality({m \in new : m <= n}) = 2 <=> n = 2 BY <1>1, <1>3
    <2>3. 1 \in new /\ 2 \in new BY <1>1
    <2> HIDE DEF new
    <2> QED BY <2>1, <2>2, <2>3
<1>5. NewLines(R, i, lines) = [k \in 1..2 |-> row(nth(k))]
    BY <1>1 DEF NewLines
<1> HIDE DEF nth, row
<1>6. [k \in 1..2 |-> row(nth(k))] = <<row(1), row(2)>>
    BY <1>4
<1> QED BY <1>5, <1>6 DEF row

(* The line a request adds, when it names the other.                       *)
LEMMA OneNewLine ==
    ASSUME NEW R, NEW i, NEW lines, DOMAIN lines = {1, 2}, lines[1].id # None, lines[2].id = None
    PROVE  NewLines(R, i, lines) =
              << [Row(R[i].account, lines[2].amount, R[i].cleared)
                   EXCEPT !.category = lines[2].category, !.parent = i] >>
<1> DEFINE new == {n \in DOMAIN lines : lines[n].id = None}
<1> DEFINE nth(k) == CHOOSE n \in new : Cardinality({m \in new : m <= n}) = k
<1> DEFINE row(n) == [Row(R[i].account, lines[n].amount, R[i].cleared)
                        EXCEPT !.category = lines[n].category, !.parent = i]
<1>1. new = {2} /\ Cardinality(new) = 1
    <2>1. new = {2} OBVIOUS
    <2> QED BY <2>1, FS_Singleton
<1>2. {m \in new : m <= 2} = {2} BY <1>1
<1>3. nth(1) = 2
    <2>1. \A n \in new : Cardinality({m \in new : m <= n}) = 1 <=> n = 2
        BY <1>1, <1>2, FS_Singleton
    <2>2. 2 \in new BY <1>1
    <2> HIDE DEF new
    <2> QED BY <2>1, <2>2
<1>4. NewLines(R, i, lines) = [k \in 1..1 |-> row(nth(k))]
    BY <1>1 DEF NewLines
<1> HIDE DEF nth, row
<1>5. [k \in 1..1 |-> row(nth(k))] = <<row(2)>>
    BY <1>3
<1> QED BY <1>4, <1>5 DEF row

\* A line a request may name, among those of row i.
IsEdit(line, R, i) ==
    /\ line.id \in {None} \cup Lines(R, i) /\ line.amount \in Int /\ line.category \in BOOLEAN
    /\ line.category => MayCarry(R[i].account, None)

\* What is left of the rows there were: the named line, if one is named.
Rewrites(R, U, i, line) ==
    /\ U \in Seq(RowType) /\ Len(U) = Len(R) /\ DOMAIN U = DOMAIN R
    /\ U[i] = [R[i] EXCEPT !.split = TRUE, !.category = FALSE]
    /\ \A k \in Lines(R, i) :
          /\ k = line.id => U[k] = [R[k] EXCEPT !.amount = line.amount, !.category = line.category]
          /\ k # line.id => U[k] = [R[k] EXCEPT !.live = FALSE]
    /\ \A k \in DOMAIN R : k \notin Lines(R, i) \cup {i} => U[k] = R[k]

(* WithLines rewrites the rows there were and appends the new lines.       *)
LEMMA SplitTable ==
    ASSUME NEW R \in Seq(RowType), NEW i \in DOMAIN R, R[i].parent # i,
           NEW lines, DOMAIN lines = {1, 2}, lines[2].id = None, IsEdit(lines[1], R, i)
    PROVE  \E U : /\ Rewrites(R, U, i, lines[1])
                  /\ WithLines(AsSplit(R, i), i, lines) = U \o NewLines(AsSplit(R, i), i, lines)
<1> DEFINE S == AsSplit(R, i)
<1> DEFINE line == lines[1]
<1> DEFINE kept == {lines[n].id : n \in DOMAIN lines}
<1> DEFINE named(k) == CHOOSE n \in DOMAIN lines : lines[n].id = k
<1> DEFINE W == [k \in DOMAIN S |->
                    IF k \in Lines(S, i) /\ k \in kept
                    THEN [S[k] EXCEPT !.amount = lines[named(k)].amount,
                                      !.category = lines[named(k)].category]
                    ELSE S[k]]
<1> DEFINE U == Unlive(W, Lines(S, i) \ kept)
<1>1. /\ DOMAIN R = 1..Len(R) /\ None \notin DOMAIN R
      /\ \A k \in DOMAIN R : R[k] \in RowType BY TableRows
<1>2. /\ DOMAIN S = DOMAIN R /\ S[i] = [R[i] EXCEPT !.split = TRUE, !.category = FALSE]
      /\ \A k \in DOMAIN R \ {i} : S[k] = R[k]
    BY <1>1 DEF AsSplit, RowType
<1>3. Lines(S, i) = Lines(R, i) /\ i \notin Lines(R, i)
    <2>1. R[i] \in RowType BY <1>1
    <2>2. S[i].live = R[i].live /\ S[i].parent = R[i].parent BY <2>1, <1>2 DEF RowType
    <2> HIDE DEF S
    <2>3. \A k \in DOMAIN R : S[k].live = R[k].live /\ S[k].parent = R[k].parent
        BY <2>2, <1>2
    <2>4. Lines(S, i) = Lines(R, i) BY <2>3, <1>2 DEF Lines
    <2> QED BY <2>4 DEF Lines
<1>4. WithLines(S, i, lines) = U \o NewLines(S, i, lines) BY DEF WithLines
<1> HIDE DEF S
<1>5. kept = {line.id, None} BY DEF kept
<1>6. \A k \in Lines(R, i) : k \in DOMAIN R /\ k # None /\ (k \in kept <=> k = line.id)
    BY <1>1, <1>5 DEF Lines
<1>7. \A k \in Lines(R, i) : k = line.id => named(k) = 1
    BY <1>6
<1> HIDE DEF kept, named
<1>8. /\ DOMAIN W = DOMAIN R
      /\ \A k \in Lines(R, i) :
            /\ k = line.id => W[k] = [R[k] EXCEPT !.amount = line.amount, !.category = line.category]
            /\ k # line.id => W[k] = R[k]
      /\ \A k \in DOMAIN R \ Lines(R, i) : W[k] = S[k]
    BY <1>2, <1>3, <1>6, <1>7
<1> HIDE DEF W
<1>9. /\ DOMAIN U = DOMAIN R /\ U = [k \in DOMAIN U |-> U[k]]
      /\ \A k \in DOMAIN R : U[k] = [W[k] EXCEPT !.live = @ /\ k \notin Lines(S, i) \ kept]
    BY <1>8 DEF Unlive
<1> HIDE DEF U
<1>10. ASSUME NEW k \in DOMAIN R, W[k] \in RowType, k \notin Lines(S, i) \ kept
       PROVE  U[k] = W[k]
    <2>1. U[k] = [W[k] EXCEPT !.live = W[k].live] BY <1>9, <1>10 DEF RowType
    <2> QED BY <2>1, <1>10 DEF RowType
<1>11. U[i] = [R[i] EXCEPT !.split = TRUE, !.category = FALSE] /\ U[i] \in RowType
    <2>1. W[i] = S[i] /\ S[i] \in RowType BY <1>1, <1>2, <1>3, <1>8 DEF RowType
    <2> QED BY <2>1, <1>2, <1>3, <1>10
<1>12. ASSUME NEW k \in Lines(R, i)
       PROVE  /\ U[k] \in RowType
              /\ k = line.id => U[k] = [R[k] EXCEPT !.amount = line.amount,
                                                    !.category = line.category]
              /\ k # line.id => U[k] = [R[k] EXCEPT !.live = FALSE]
    <2>1. k \in DOMAIN R /\ R[k] \in RowType BY <1>1, <1>6
    <2>2. CASE k = line.id
        <3>1. W[k] = [R[k] EXCEPT !.amount = line.amount, !.category = line.category]
            BY <2>2, <1>8
        <3>2. line.amount \in Int /\ line.category \in BOOLEAN BY DEF IsEdit
        <3>3. W[k] \in RowType BY <2>1, <3>1, <3>2 DEF RowType
        <3> QED BY <2>1, <2>2, <3>1, <3>3, <1>6, <1>10
    <2>3. CASE k # line.id
        <3>1. U[k] = [R[k] EXCEPT !.live = FALSE]
            BY <2>1, <2>3, <1>3, <1>6, <1>8, <1>9
        <3> QED BY <2>1, <2>3, <3>1 DEF RowType
    <2> QED BY <2>2, <2>3
<1>13. ASSUME NEW k \in DOMAIN R, k \notin Lines(R, i) \cup {i}
       PROVE  U[k] = R[k] /\ U[k] \in RowType
    BY <1>13, <1>1, <1>2, <1>3, <1>8, <1>10
<1>14. U \in Seq(RowType) /\ Len(U) = Len(R)
    <2>1. \A k \in DOMAIN R : U[k] \in RowType BY <1>11, <1>12, <1>13
    <2>2. Len(R) \in Nat BY TableRows
    <2> QED BY <2>1, <2>2, <1>1, <1>9, RowsTable
<1>15. Rewrites(R, U, i, line) BY <1>9, <1>11, <1>12, <1>13, <1>14 DEF Rewrites
<1> QED BY <1>4, <1>15 DEF S

(* A split of two lines: the first named or new, the second new.           *)
LEMMA SplitDivides ==
    ASSUME NEW R, NEW loose, NEW loose2, NEW statements, Good(R, loose, statements),
           NEW i \in Live(R), R[i].partner = None, R[i].parent = None,
           loose \cup {j \in Lines(R, i) : R[j].payee \in Accounts} \subseteq loose2,
           NEW lines, DOMAIN lines = {1, 2}, lines[2].id = None,
           IsEdit(lines[1], R, i), IsEdit(lines[2], R, i),
           lines[1].amount + lines[2].amount = R[i].amount
    PROVE  LET R2 == WithLines(AsSplit(R, i), i, lines)
           IN  (\E f, s : Divides(R, R2, i, f, s, loose2)) /\ DOMAIN R \subseteq DOMAIN R2
<1> DEFINE S == AsSplit(R, i)
<1> DEFINE R2 == WithLines(S, i, lines)
<1> DEFINE fresh(n) == [Row(S[i].account, lines[n].amount, S[i].cleared)
                          EXCEPT !.category = lines[n].category, !.parent = i]
<1>1. /\ R \in Seq(RowType) /\ i \in DOMAIN R /\ None \notin DOMAIN R /\ i \in Nat
      /\ DOMAIN R = 1..Len(R) /\ Len(R) \in Nat /\ R[i] \in RowType /\ R[i].bank # 0 /\ R[i].live
      /\ NoZeros(R)
    BY FormedRows DEF Good, Formed, Live, NoZeros
<1>2. PICK U : Rewrites(R, U, i, lines[1]) /\ R2 = U \o NewLines(S, i, lines)
    BY <1>1, SplitTable
<1>3. S[i].account = R[i].account /\ S[i].cleared = R[i].cleared
    BY <1>1 DEF AsSplit, RowType
<1>4. ASSUME NEW n \in {1, 2}
      PROVE  /\ fresh(n) \in RowType /\ fresh(n).live /\ fresh(n).parent = i
             /\ fresh(n).partner = None /\ ~fresh(n).split
             /\ fresh(n).account = R[i].account /\ fresh(n).amount = lines[n].amount
             /\ fresh(n).cleared = R[i].cleared /\ fresh(n).bank # 0 /\ fresh(n).payee = Shop
             /\ fresh(n).category = lines[n].category
    <2>1. /\ S[i].account \in Accounts /\ lines[n].amount \in Int /\ lines[n].category \in BOOLEAN
          /\ S[i].cleared \in {"pending", "uncleared", "cleared", "reconciled"}
        BY <1>1, <1>3 DEF RowType, IsEdit
    <2> DEFINE row == fresh(n)
    <2> DEFINE account == S[i].account
    <2> DEFINE amount == lines[n].amount
    <2> DEFINE cleared == S[i].cleared
    <2> DEFINE category == lines[n].category
    <2>2. row = [Row(account, amount, cleared) EXCEPT !.category = category, !.parent = i]
        OBVIOUS
    <2>3. /\ account \in Accounts /\ amount \in Int /\ category \in BOOLEAN
          /\ cleared \in {"pending", "uncleared", "cleared", "reconciled"}
        BY <2>1
    <2> HIDE DEF S, fresh, row, account, amount, cleared, category
    <2>4. i \in Nat BY <1>1
    <2>5. row \in RowType BY <2>2, <2>3, <2>4 DEF Row, RowType
    <2>6. /\ row.live /\ row.parent = i /\ row.partner = None /\ row.split = FALSE
          /\ row.account = account /\ row.amount = amount /\ row.cleared = cleared
          /\ row.bank = None /\ row.payee = Shop /\ row.category = category
        BY <2>2, <2>3 DEF Row
    <2>7. None # 0 BY LedgerAssumption
    <2> QED BY <2>5, <2>6, <2>7, <1>3 DEF row, account, amount, cleared, category
<1>5. /\ lines[1].id # None => NewLines(S, i, lines) = <<fresh(2)>>
      /\ lines[1].id = None => NewLines(S, i, lines) = <<fresh(1), fresh(2)>>
    BY OneNewLine, TwoNewLines
<1> HIDE DEF S, R2, fresh
<1>6. /\ U \in Seq(RowType) /\ Len(U) = Len(R) /\ DOMAIN U = DOMAIN R
      /\ U[i].live /\ U[i].split /\ ~U[i].category
      /\ U[i].account = R[i].account /\ U[i].amount = R[i].amount
      /\ U[i].cleared = R[i].cleared /\ U[i].bank = R[i].bank
      /\ U[i].partner = None /\ U[i].parent = None
    <2>1. U[i] = [R[i] EXCEPT !.split = TRUE, !.category = FALSE] BY <1>2 DEF Rewrites
    <2>2. /\ U[i].live = R[i].live /\ U[i].split = TRUE /\ U[i].category = FALSE
          /\ U[i].account = R[i].account /\ U[i].amount = R[i].amount
          /\ U[i].cleared = R[i].cleared /\ U[i].bank = R[i].bank
          /\ U[i].partner = R[i].partner /\ U[i].parent = R[i].parent
        <3>1. R[i] \in RowType BY <1>1
        <3> QED BY <2>1, <3>1 DEF RowType
    <2> QED BY <2>2, <1>1, <1>2 DEF Rewrites
<1>7. ASSUME NEW k \in Lines(R, i)
      PROVE  /\ k \in DOMAIN R /\ R[k] \in RowType /\ R[k].live /\ R[k].parent = i
             /\ R[k].partner = None /\ ~R[k].split
             /\ R[k].bank # 0 /\ R[k].account = R[i].account
             /\ R[k].cleared = R[i].cleared \/ k \in loose2
             /\ R[k].payee \in Accounts => k \in loose2
             /\ k # i
    <2>1. k \in Live(R) /\ R[k].parent = i /\ k \in DOMAIN R /\ R[k].live BY DEF Lines, Live
    <2>2. R[k].partner = None /\ ~R[k].split /\ R[i].split
        BY <2>1, <1>1, LinksOf
    <2>3. Whole(R, i, loose) BY <2>2 DEF Good, SplitsWhole
    <2>4. R[k] \in RowType /\ R[k].bank # 0 BY <2>1, <1>1, TableRows DEF NoZeros
    <2> QED BY <2>1, <2>2, <2>3, <2>4, <1>1 DEF Whole
<1>8. ASSUME NEW k \in Lines(R, i)
      PROVE  /\ k # lines[1].id => /\ ~U[k].live /\ U[k].partner = R[k].partner
                                   /\ U[k].parent = R[k].parent /\ U[k].bank = R[k].bank
             /\ k = lines[1].id =>
                   /\ U[k].live /\ U[k].parent = i /\ U[k].partner = None /\ ~U[k].split
                   /\ U[k].account = R[i].account /\ U[k].amount = lines[1].amount
                   /\ U[k].cleared = R[k].cleared /\ U[k].bank # 0 /\ U[k].payee = R[k].payee
                   /\ U[k].category = lines[1].category
    <2>1. R[k] \in RowType BY <1>7
    <2>2. CASE k # lines[1].id
        <3>1. U[k] = [R[k] EXCEPT !.live = FALSE] BY <2>2, <1>2 DEF Rewrites
        <3> QED BY <2>1, <2>2, <3>1 DEF RowType
    <2>3. CASE k = lines[1].id
        <3>1. U[k] = [R[k] EXCEPT !.amount = lines[1].amount, !.category = lines[1].category]
            BY <2>3, <1>2 DEF Rewrites
        <3>2. /\ U[k].live = R[k].live /\ U[k].parent = R[k].parent /\ U[k].partner = R[k].partner
              /\ U[k].split = R[k].split
              /\ U[k].account = R[k].account /\ U[k].amount = lines[1].amount
              /\ U[k].cleared = R[k].cleared /\ U[k].bank = R[k].bank /\ U[k].payee = R[k].payee
              /\ U[k].category = lines[1].category
            BY <2>1, <3>1 DEF RowType
        <3> QED BY <2>3, <3>2, <1>7
    <2> QED BY <2>2, <2>3
<1>9. \A k \in DOMAIN R : k \notin Lines(R, i) \cup {i} => U[k] = R[k] BY <1>2 DEF Rewrites
<1>10. None \notin OnBudget /\ None \notin Accounts /\ Shop \notin Accounts BY LedgerAssumption
<1>11. \A n \in {1, 2} : lines[n].category => MayCarry(R[i].account, None) BY DEF IsEdit
<1>12. CASE lines[1].id = None
    <2> DEFINE f == Len(R) + 1
    <2> DEFINE s == Len(R) + 2
    <2>1. <<fresh(1), fresh(2)>> \in Seq(RowType) /\ Len(<<fresh(1), fresh(2)>>) = 2
        BY <1>4
    <2>2. /\ R2 \in Seq(RowType) /\ Len(R2) = Len(R) + 2
          /\ \A k \in 1..Len(R) + 2 :
                R2[k] = IF k <= Len(R) THEN U[k] ELSE <<fresh(1), fresh(2)>>[k - Len(R)]
        <3> DEFINE both == <<fresh(1), fresh(2)>>
        <3>1. both \in Seq(RowType) /\ Len(both) = 2 /\ R2 = U \o both BY <2>1, <1>2, <1>5, <1>12
        <3> HIDE DEF both
        <3>2. /\ R2 \in Seq(RowType) /\ Len(R2) = Len(U) + Len(both)
              /\ \A k \in 1..Len(U) + Len(both) :
                    R2[k] = IF k <= Len(U) THEN U[k] ELSE both[k - Len(U)]
            <4>1. /\ U \o both \in Seq(RowType) /\ Len(U \o both) = Len(U) + Len(both)
                  /\ \A k \in 1..Len(U) + Len(both) :
                        (U \o both)[k] = IF k <= Len(U) THEN U[k] ELSE both[k - Len(U)]
                <5>1. U \in Seq(RowType) /\ both \in Seq(RowType) BY <3>1, <1>6
                <5> QED BY <5>1, ConcatProperties
            <4> QED BY <4>1, <3>1
        <3> QED BY <3>1, <3>2, <1>6 DEF both
    <2>3. DOMAIN R2 = DOMAIN R \cup {f, s} BY <2>2, <1>1, TableRows
    <2>4. R2[f] = fresh(1) /\ R2[s] = fresh(2) /\ \A k \in DOMAIN R : R2[k] = U[k]
        BY <2>2, <1>1
    <2>5. f # s /\ f \notin DOMAIN R /\ s \notin DOMAIN R /\ Len(R) <= Len(R2) BY <2>2, <1>1
    <2> HIDE DEF f, s
    <2>6. \A k \in Lines(R, i) : k # lines[1].id /\ k # f /\ k \in DOMAIN R
        BY <2>5, <1>1, <1>7, <1>12
    <2>7. Divides(R, R2, i, f, s, loose2)
        BY <2>2, <2>3, <2>4, <2>5, <2>6, <1>1, <1>4, <1>6, <1>8, <1>9, <1>10, <1>11
           DEF Divides, Named
    <2> QED BY <2>3, <2>7 DEF R2, S
<1>13. CASE lines[1].id # None
    <2> DEFINE f == lines[1].id
    <2> DEFINE s == Len(R) + 1
    <2>1. <<fresh(2)>> \in Seq(RowType) /\ Len(<<fresh(2)>>) = 1
        BY <1>4
    <2>2. /\ R2 \in Seq(RowType) /\ Len(R2) = Len(R) + 1
          /\ \A k \in 1..Len(R) + 1 :
                R2[k] = IF k <= Len(R) THEN U[k] ELSE <<fresh(2)>>[k - Len(R)]
        BY <2>1, <1>2, <1>5, <1>6, <1>13, ConcatProperties
    <2>3. f \in Lines(R, i) /\ f \in DOMAIN R BY <1>7, <1>13 DEF IsEdit
    <2>4. DOMAIN R2 = DOMAIN R \cup {f, s} BY <2>2, <2>3, <1>1, TableRows
    <2>5. R2[s] = fresh(2) /\ \A k \in DOMAIN R : R2[k] = U[k] BY <2>2, <1>1
    <2>6. f # s /\ s \notin DOMAIN R /\ Len(R) <= Len(R2) BY <2>2, <2>3, <1>1
    <2>7. R2[f] = U[f] BY <2>3, <2>5
    <2>8. /\ f \in loose2 \/ R2[f].cleared = R[i].cleared
          /\ f \in loose2 \/ (R2[f].category => MayCarry(R[i].account, Named(R2[f].payee)))
        BY <2>3, <2>7, <1>7, <1>8, <1>10, <1>11 DEF Named
    <2> HIDE DEF s
    <2>9. Divides(R, R2, i, f, s, loose2)
        BY <2>2, <2>3, <2>4, <2>5, <2>6, <2>7, <2>8, <1>1, <1>4, <1>6, <1>7, <1>8, <1>9,
           <1>10, <1>11 DEF Divides, Named
    <2> QED BY <2>4, <2>9 DEF R2, S
<1> QED BY <1>12, <1>13

(* A split is collapsed onto its parent row, or a plain row filed anew.    *)
LEMMA CollapseGood ==
    ASSUME NEW R, NEW loose, NEW loose2, NEW statements, Good(R, loose, statements),
           NEW i \in Live(R), R[i].partner = None, R[i].parent = None, loose \subseteq loose2,
           NEW line, line.category \in BOOLEAN, line.category => MayCarry(R[i].account, None),
           R[i].payee \in Accounts => i \in loose2
    PROVE  /\ Good(Collapsed(R, i, line), loose2, statements)
           /\ DOMAIN Collapsed(R, i, line) = DOMAIN R
<1> DEFINE L == Lines(R, i)
<1> DEFINE C == {i} \cup L
<1> DEFINE U == Unlive(R, L)
<1> DEFINE R2 == Collapsed(R, i, line)
<1>1. /\ R \in Seq(RowType) /\ i \in DOMAIN R /\ None \notin DOMAIN R /\ i # None
      /\ R[i] \in RowType /\ R[i].bank # 0 /\ R[i].amount # 0 /\ R[i].live
      /\ NoZeros(R) /\ \A k \in DOMAIN R : R[k] \in RowType
    BY FormedRows DEF Good, Formed, Live, NoZeros
<1>2. \A j \in L :
          /\ j \in Live(R) /\ j \in DOMAIN R /\ R[j].parent = i /\ R[j].partner = None /\ j # i
          /\ Lines(R, j) = {}
    <2>1. \A j \in L : j \in Live(R) /\ R[j].parent = i BY DEF Lines, Live
    <2>2. \A j \in L : R[j].partner = None /\ ~R[j].split BY <2>1, <1>1, LinksOf
    <2>3. \A j \in L : Lines(R, j) = {} BY <2>1, <2>2, LinksOf
    <2> QED BY <2>1, <2>2, <2>3, <1>1, LinksOf DEF Live
<1>3. Apart(R, C)
    <2> SUFFICES ASSUME NEW k \in C \cap Live(R) PROVE Within(R, k, C) /\ Lines(R, k) \subseteq C
        BY DEF Apart
    <2>1. CASE k = i BY <2>1 DEF Within
    <2>2. CASE k \in L BY <2>2, <1>2 DEF Within
    <2> QED BY <2>1, <2>2
<1>4. /\ DOMAIN U = DOMAIN R /\ U[i] = [R[i] EXCEPT !.live = @ /\ i \notin L]
      /\ \A k \in L : U[k] = [R[k] EXCEPT !.live = @ /\ k \notin L]
      /\ \A k \in DOMAIN R \ L : U[k] = [R[k] EXCEPT !.live = @ /\ k \notin L]
    BY <1>1, <1>2 DEF Unlive
<1> HIDE DEF L
<1>5. \A k \in DOMAIN R \ L : U[k] = R[k]
    <2> TAKE k \in DOMAIN R \ L
    <2>1. R[k] \in RowType BY <1>1
    <2>2. U[k] = [R[k] EXCEPT !.live = R[k].live] BY <2>1, <1>4 DEF RowType
    <2> QED BY <2>1, <2>2 DEF RowType
<1>6. \A k \in L : U[k] = [R[k] EXCEPT !.live = FALSE] BY <1>4
<1>7. i \notin L BY <1>2
<1> HIDE DEF U
<1>8. R2 = [U EXCEPT ![i] = [U[i] EXCEPT !.split = FALSE, !.category = line.category]]
    <2>1. U[i] \in RowType /\ i \in DOMAIN U BY <1>1, <1>4, <1>5, <1>7
    <2> QED BY <2>1 DEF Collapsed, U, L, RowType
<1> HIDE DEF R2
<1>9. /\ DOMAIN R2 = DOMAIN R /\ R2 = [k \in DOMAIN R2 |-> R2[k]]
      /\ R2[i] = [R[i] EXCEPT !.split = FALSE, !.category = line.category]
      /\ \A k \in DOMAIN R \ C : R2[k] = R[k]
      /\ \A k \in L : R2[k] = [R[k] EXCEPT !.live = FALSE]
    BY <1>1, <1>2, <1>4, <1>5, <1>6, <1>7, <1>8
<1>10. /\ R2[i] \in RowType /\ R2[i].live = R[i].live /\ R2[i].split = FALSE
       /\ R2[i].category = line.category
       /\ R2[i].account = R[i].account /\ R2[i].amount = R[i].amount
       /\ R2[i].cleared = R[i].cleared /\ R2[i].bank = R[i].bank /\ R2[i].payee = R[i].payee
       /\ R2[i].partner = R[i].partner /\ R2[i].parent = R[i].parent
    <2>1. R[i] \in RowType BY <1>1
    <2> QED BY <2>1, <1>9 DEF RowType
<1>11. ASSUME NEW k \in L
       PROVE  /\ R2[k] \in RowType /\ ~R2[k].live /\ R2[k].partner = R[k].partner
              /\ R2[k].parent = R[k].parent /\ R2[k].bank = R[k].bank
    <2>1. R[k] \in RowType BY <1>1, <1>2
    <2>2. R2[k] = [R[k] EXCEPT !.live = FALSE] BY <1>9
    <2> QED BY <2>1, <2>2 DEF RowType
<1>12. Changed(R, R2, C) BY <1>1, <1>9, <1>10, <1>11, ChangedTable
<1>13. Sound(R2, i, loose2) /\ Within(R2, i, C)
    <2>1. i \in loose2 \/ Placed(R2, i) BY <1>10 DEF Placed, Named
    <2> QED BY <2>1, <1>1, <1>10, SingleSound
<1>14. ASSUME NEW k \in C \cap DOMAIN R2
       PROVE  Sound(R2, k, loose2) /\ Within(R2, k, C) /\ LocksFitAt(R, R2, k)
    <2>1. CASE k = i BY <2>1, <1>1, <1>9, <1>10, <1>13 DEF LocksFitAt, IsLocked
    <2>2. CASE k \in L
        <3>1. ~R2[k].live /\ R2[k].partner = None /\ R2[k].parent = i /\ R2[k].bank # 0
            BY <2>2, <1>1, <1>2, <1>11 DEF NoZeros
        <3>2. ~IsLocked(R, k) /\ ~IsLocked(R2, k) BY <2>2, <3>1, <1>1, <1>2 DEF IsLocked
        <3> QED BY <3>1, <3>2, <1>1, <1>9 DEF Sound, Within, LocksFitAt
    <2> QED BY <2>1, <2>2
<1> HIDE DEF C
<1> QED BY <1>3, <1>9, <1>12, <1>14, ChangeGood DEF R2

(* The lines a request may ask for.                                        *)
LEMMA LinesAsked ==
    ASSUME NEW amount \in Int, NEW ids, NEW lines \in TwoLines(amount, ids)
    PROVE  /\ Len(lines) = 2 /\ DOMAIN lines = {1, 2}
           /\ lines[1].id \in ids \cup {None} /\ lines[2].id = None
           /\ lines[1].amount \in Int /\ lines[2].amount \in Int
           /\ lines[1].amount + lines[2].amount = amount
           /\ lines[1].category \in BOOLEAN /\ lines[2].category \in BOOLEAN
           /\ ~lines[2].category
<1>1. PICK id \in ids \cup {None}, part \in Parts, c \in BOOLEAN :
          lines = <<Line(id, part, c), Line(None, amount - part, FALSE)>>
    <2> DEFINE asked(id, part, c) == <<Line(id, part, c), Line(None, amount - part, FALSE)>>
    <2>1. TwoLines(amount, ids) =
              {asked(id, part, c) : id \in ids \cup {None}, part \in Parts, c \in BOOLEAN}
        BY SMT DEF TwoLines
    <2> HIDE DEF asked
    <2>2. \E id \in ids \cup {None}, part \in Parts, c \in BOOLEAN : lines = asked(id, part, c)
        BY <2>1
    <2> QED BY <2>2 DEF asked
<1>2. /\ Len(lines) = 2 /\ DOMAIN lines = {1, 2}
      /\ lines[1] = Line(id, part, c) /\ lines[2] = Line(None, amount - part, FALSE)
    BY <1>1
<1>3. /\ lines[1].id = id /\ lines[1].amount = part /\ lines[1].category = c
      /\ lines[2].id = None /\ lines[2].amount = amount - part
      /\ lines[2].category = FALSE
    BY <1>2 DEF Line
<1>4. part \in Int BY LedgerAssumption
<1>5. lines[1].amount + lines[2].amount = amount /\ lines[2].amount \in Int BY <1>3, <1>4
<1>6. lines[1].category \in BOOLEAN /\ lines[2].category \in BOOLEAN /\ ~lines[2].category
    BY <1>3
<1> QED BY <1>2, <1>3, <1>4, <1>5, <1>6

(* Checked, they are edits of lines.                                       *)
LEMMA LinesEdit ==
    ASSUME NEW R, NEW i, NEW amount \in Int, NEW lines \in TwoLines(amount, Lines(R, i)),
           CheckLegs(R, i, lines)
    PROVE  IsEdit(lines[1], R, i) /\ IsEdit(lines[2], R, i)
<1>1. \A n \in DOMAIN lines :
          /\ lines[n].category => MayCarry(R[i].account, None)
          /\ lines[n].id \in {None} \cup Lines(R, i)
    BY DEF CheckLegs
<1>2. 1 \in DOMAIN lines /\ 2 \in DOMAIN lines BY LinesAsked
<1>3. /\ lines[1].amount \in Int /\ lines[2].amount \in Int
      /\ lines[1].category \in BOOLEAN /\ lines[2].category \in BOOLEAN
    BY LinesAsked
<1> QED BY <1>1, <1>2, <1>3 DEF IsEdit

(* A row is split, a split rewritten, or collapsed.                        *)
LEMMA SplitRowKeeps ==
    ASSUME IInv, NEW i \in DOMAIN rows,
           NEW lines \in OneLine(rows[i].amount) \cup TwoLines(rows[i].amount, Lines(rows, i)),
           SplitRow(i, lines)
    PROVE  IInv'
<1>1. /\ i \in Live(rows) /\ rows[i].parent = None /\ CheckLegs(rows, i, lines)
      /\ ~rows[i].split => rows[i].partner = None
    BY DEF SplitRow, Live
<1>2. rows[i].partner = None /\ rows[i].amount \in Int
    BY <1>1, Invariant, LinksOf DEF RowType
<1>3. CASE lines \in OneLine(rows[i].amount)
    <2> DEFINE stray == IF rows[i].payee \in Accounts THEN {i} ELSE {}
    <2>1. PICK c \in BOOLEAN : lines = <<Line(None, rows[i].amount, c)>> BY <1>3 DEF OneLine
    <2>2. Len(lines) = 1 /\ lines[1] = Line(None, rows[i].amount, c) /\ 1 \in DOMAIN lines
        BY <2>1
    <2>3. lines[1].category = c BY <2>2 DEF Line
    <2>4. Write(Collapsed(rows, i, lines[1]), stray) BY <2>2 DEF SplitRow
    <2>5. c => MayCarry(rows[i].account, None) BY <1>1, <2>2, <2>3 DEF CheckLegs
    <2>6. strayed \subseteq strayed \cup stray /\ (rows[i].payee \in Accounts => i \in strayed \cup stray)
        OBVIOUS
    <2>7. stray \subseteq DOMAIN rows OBVIOUS
    <2> DEFINE line == lines[1]
    <2> DEFINE loose2 == strayed \cup stray
    <2>9. strayed \subseteq loose2 /\ (rows[i].payee \in Accounts => i \in loose2) BY <2>6
    <2>10. line.category \in BOOLEAN /\ (line.category => MayCarry(rows[i].account, None))
        BY <2>3, <2>5
    <2> HIDE DEF stray, line, loose2
    <2>11. /\ Good(Collapsed(rows, i, line), loose2, vouched)
           /\ DOMAIN Collapsed(rows, i, line) = DOMAIN rows
        <3>1. Good(rows, strayed, vouched) BY Invariant
        <3> QED BY <2>9, <2>10, <3>1, <1>1, <1>2, CollapseGood
    <2>8. /\ Good(Collapsed(rows, i, lines[1]), strayed \cup stray, vouched)
          /\ DOMAIN Collapsed(rows, i, lines[1]) = DOMAIN rows
        BY <2>11 DEF line, loose2
    <2> QED BY <2>4, <2>7, <2>8, Written
<1>4. CASE lines \in TwoLines(rows[i].amount, Lines(rows, i))
    <2> DEFINE stray == {j \in Lines(rows, i) : rows[j].payee \in Accounts}
    <2> DEFINE R2 == WithLines(AsSplit(rows, i), i, lines)
    <2>2. /\ Len(lines) = 2 /\ DOMAIN lines = {1, 2} /\ lines[2].id = None
          /\ lines[1].amount + lines[2].amount = rows[i].amount
        BY <1>2, <1>4, LinesAsked
    <2>5. Write(R2, stray) BY <2>2 DEF SplitRow
    <2>6. IsEdit(lines[1], rows, i) /\ IsEdit(lines[2], rows, i)
        BY <1>1, <1>2, <1>4, LinesEdit
    <2> DEFINE loose2 == strayed \cup stray
    <2>8. strayed \cup stray \subseteq loose2 /\ strayed \subseteq loose2 OBVIOUS
    <2>9. stray \subseteq DOMAIN rows BY DEF Lines
    <2> HIDE DEF loose2
    <2>10. (\E f, s : Divides(rows, R2, i, f, s, loose2)) /\ DOMAIN rows \subseteq DOMAIN R2
        BY <2>2, <2>6, <2>8, <1>1, <1>2, Invariant, SplitDivides
    <2> HIDE DEF R2, stray
    <2>11. Good(R2, loose2, vouched) BY <2>8, <2>10, <1>1, <1>2, Invariant, DivideGood
    <2> QED BY <2>5, <2>9, <2>10, <2>11, Written DEF loose2
<1> QED BY <1>3, <1>4

(* A split is entered as a plain row, and divided.                         *)
LEMMA CreateSplitKeeps ==
    ASSUME IInv, NEW account \in Accounts, NEW amount \in Amounts,
           NEW lines \in TwoLines(amount, {}),
           CreateSplit(account, amount, "cleared", lines)
    PROVE  IInv'
<1> DEFINE i == Len(rows) + 1
<1> DEFINE row == Row(account, amount, "cleared")
<1> DEFINE R == Append(rows, row)
<1> DEFINE R2 == WithLines(AsSplit(R, i), i, lines)
<1>1. Write(R2, {}) /\ CheckLegs(R, i, lines) BY DEF CreateSplit
<1>2. Bare(row, account, amount, "cleared")
    <2>1. amount \in Int /\ amount # 0 /\ "cleared" \in Unlocked BY LedgerAssumption DEF Unlocked
    <2> QED BY <2>1, BareRow
<1> HIDE DEF row
<1>3. Good(R, strayed, vouched) BY <1>2, Invariant, AppendGood DEF Bare
<1>4. /\ DOMAIN R = DOMAIN rows \cup {i} /\ R[i] = row /\ i \notin DOMAIN rows /\ i # None
      /\ \A k \in DOMAIN rows : R[k] = rows[k]
    BY Invariant, AppendAt, LedgerAssumption
<1> HIDE DEF R, i
<1>5. /\ i \in Live(R) /\ R[i].partner = None /\ R[i].parent = None /\ R[i].amount = amount
      /\ ~R[i].split /\ R[i].account = account
    BY <1>2, <1>4 DEF Bare, Plain, Live
<1>6. Lines(R, i) = {} BY <1>3, <1>5, LinksOf
<1>7. amount \in Int BY LedgerAssumption
<1>8. /\ DOMAIN lines = {1, 2} /\ lines[2].id = None
      /\ lines[1].amount + lines[2].amount = R[i].amount
    BY <1>5, <1>7, LinesAsked
<1>11. IsEdit(lines[1], R, i) /\ IsEdit(lines[2], R, i)
    <2>1. lines \in TwoLines(amount, Lines(R, i)) BY <1>6
    <2> QED BY <2>1, <1>1, <1>7, LinesEdit
<1>13. strayed \cup {j \in Lines(R, i) : R[j].payee \in Accounts} \subseteq strayed
    BY <1>6
<1>14. (\E f, s : Divides(R, R2, i, f, s, strayed)) /\ DOMAIN R \subseteq DOMAIN R2
    BY <1>3, <1>5, <1>8, <1>11, <1>13, SplitDivides
<1> HIDE DEF R2
<1>15. Good(R2, strayed, vouched)
    <2>1. strayed \subseteq strayed OBVIOUS
    <2> QED BY <2>1, <1>3, <1>5, <1>14, DivideGood
<1> QED BY <1>1, <1>4, <1>14, <1>15, WrittenRight

\* What an edit may do to the row itself.
Amended(old, new, edit) ==
    /\ new \in RowType
    /\ new.live = old.live /\ new.parent = old.parent /\ new.partner = old.partner
    /\ new.split = old.split /\ new.sync = old.sync /\ new.bank = old.bank
    /\ IF "amount" \in DOMAIN edit THEN new.amount \in Amounts ELSE new.amount = old.amount
    /\ IF "cleared" \in DOMAIN edit THEN new.cleared \in Marks ELSE new.cleared = old.cleared
    /\ "category" \notin DOMAIN edit => new.category = old.category
    /\ IF "account" \in DOMAIN edit THEN new.account = edit.account ELSE new.account = old.account
    /\ "payee" \notin DOMAIN edit => new.payee = old.payee

(* The fields an edit may name, and their values.                          *)
LEMMA EditFields ==
    ASSUME NEW edit \in Edits
    PROVE  /\ DOMAIN edit \subseteq {"amount", "cleared", "category", "account", "payee"}
           /\ "amount" \in DOMAIN edit => edit["amount"] \in Amounts
           /\ "cleared" \in DOMAIN edit => edit["cleared"] \in Marks
           /\ "category" \in DOMAIN edit => edit["category"] \in BOOLEAN
           /\ "account" \in DOMAIN edit => edit["account"] \in Accounts
           /\ "payee" \in DOMAIN edit => edit["payee"] \in Payees
<1>1. CASE edit \in [{"amount"} -> Amounts] BY <1>1
<1>2. CASE edit \in [{"cleared"} -> Marks] BY <1>2
<1>3. CASE edit \in [{"category"} -> BOOLEAN] BY <1>3
<1>4. CASE edit \in [{"account"} -> Accounts] BY <1>4
<1>5. CASE edit \in [{"payee"} -> Payees] BY <1>5
<1>6. CASE edit \in {[account |-> a, category |-> c] : a \in Accounts, c \in BOOLEAN}
    <2>1. PICK a \in Accounts, c \in BOOLEAN : edit = [account |-> a, category |-> c] BY <1>6
    <2>2. DOMAIN edit = {"account", "category"} /\ edit["account"] = a /\ edit["category"] = c
        BY <2>1
    <2> QED BY <2>2
<1> QED BY <1>1, <1>2, <1>3, <1>4, <1>5, <1>6 DEF Edits

(* An edit changes the fields it names.                                    *)
LEMMA AmendedRow ==
    ASSUME NEW old \in RowType, NEW edit \in Edits
    PROVE  Amended(old, With(old, edit), edit)
<1> DEFINE new == With(old, edit)
<1>1. DOMAIN old = {"live", "account", "amount", "cleared", "category", "payee", "partner",
                    "parent", "split", "sync", "bank"}
    BY DEF RowType
<1>2. /\ DOMAIN new = DOMAIN old
      /\ \A field \in DOMAIN old :
            new[field] = IF field \in DOMAIN edit THEN edit[field] ELSE old[field]
      /\ new = [field \in DOMAIN old |-> new[field]]
    BY DEF With
<1> HIDE DEF new
<1>3. /\ new["live"] = old["live"] /\ new["parent"] = old["parent"]
      /\ new["partner"] = old["partner"] /\ new["split"] = old["split"]
      /\ new["sync"] = old["sync"] /\ new["bank"] = old["bank"]
    BY <1>1, <1>2, EditFields
<1>4. /\ new["amount"] = IF "amount" \in DOMAIN edit THEN edit["amount"] ELSE old["amount"]
      /\ new["cleared"] = IF "cleared" \in DOMAIN edit THEN edit["cleared"] ELSE old["cleared"]
      /\ new["category"] = IF "category" \in DOMAIN edit THEN edit["category"]
                           ELSE old["category"]
      /\ new["account"] = IF "account" \in DOMAIN edit THEN edit["account"] ELSE old["account"]
      /\ new["payee"] = IF "payee" \in DOMAIN edit THEN edit["payee"] ELSE old["payee"]
    BY <1>1, <1>2
<1>5. new \in RowType
    <2>1. /\ new["live"] \in BOOLEAN /\ new["split"] \in BOOLEAN
          /\ new["parent"] \in Nat \cup {None} /\ new["partner"] \in Nat \cup {None}
          /\ new["sync"] \in BankIds \cup {None} /\ new["bank"] \in Int \cup {None}
        BY <1>3 DEF RowType
    <2>2. new["amount"] \in Int BY <1>4, EditFields, LedgerAssumption DEF RowType
    <2>3. new["category"] \in BOOLEAN BY <1>4, EditFields DEF RowType
    <2>4. new["account"] \in Accounts /\ new["payee"] \in Accounts \cup {Shop, None}
        BY <1>4, EditFields DEF RowType, Payees
    <2>5. new["cleared"] \in {"pending", "uncleared", "cleared", "reconciled"}
        BY <1>4, EditFields DEF RowType, Marks
    <2>6. new = [live |-> new["live"], account |-> new["account"], amount |-> new["amount"],
                 cleared |-> new["cleared"], category |-> new["category"],
                 payee |-> new["payee"], partner |-> new["partner"],
                 parent |-> new["parent"], split |-> new["split"],
                 sync |-> new["sync"], bank |-> new["bank"]]
        BY <1>1, <1>2
    <2> QED BY <2>1, <2>2, <2>3, <2>4, <2>5, <2>6 DEF RowType
<1>6. /\ IF "amount" \in DOMAIN edit THEN new.amount \in Amounts ELSE new.amount = old.amount
      /\ IF "cleared" \in DOMAIN edit THEN new.cleared \in Marks ELSE new.cleared = old.cleared
      /\ "category" \notin DOMAIN edit => new.category = old.category
      /\ IF "account" \in DOMAIN edit THEN new.account = edit.account
         ELSE new.account = old.account
      /\ "payee" \notin DOMAIN edit => new.payee = old.payee
    BY <1>4, EditFields
<1> QED BY <1>3, <1>5, <1>6 DEF Amended, new

(* An edit of one row, its partner and its lines following.                *)
LEMMA UpdateKeeps ==
    ASSUME IInv, NEW i \in DOMAIN rows, NEW edit \in Edits, Update(i, edit)
    PROVE  IInv'
<1> DEFINE old == rows[i]
<1> DEFINE new == With(old, edit)
<1> DEFINE p == old.partner
<1> DEFINE L == Lines(rows, i)
<1> DEFINE R2 == Edited(i, edit)
<1> DEFINE stray == IF Moves(i, edit) /\ (old.split \/ p # None) THEN {i, p} \cup L ELSE {}
<1> DEFINE loose2 == strayed \cup stray
<1>1. /\ i \in Live(rows) /\ Write(R2, stray)
      /\ EditUnlocked(i, edit) /\ EditFiles(i, edit) /\ EditKeepsPair(i, edit)
    BY DEF Update, Live
<1>2. /\ old \in RowType /\ (old.amount # 0 \/ old.parent # None)
      /\ old.bank # 0 /\ i # None /\ old.live
    BY <1>1, Invariant DEF NoZeros, Live
<1>3. Amended(old, new, edit)
    <2>1. old \in RowType BY Invariant
    <2> HIDE DEF old
    <2> QED BY <2>1, AmendedRow
<1>4. Moves(i, edit) <=> new.account # old.account BY <1>3 DEF Moves, Amended
<1>5. /\ old.cleared = "reconciled" =>
            new.amount = old.amount /\ new.cleared = old.cleared /\ new.account = old.account
      /\ old.parent # None =>
            new.amount = old.amount /\ new.cleared = old.cleared /\ new.account = old.account
      /\ old.split => new.amount = old.amount /\ ~new.category
      /\ p # None =>
            /\ new.payee = old.payee
            /\ new.amount # old.amount => rows[p].cleared # "reconciled"
      /\ new.cleared = "reconciled" => old.cleared = "reconciled"
      /\ new.bank = old.bank
      /\ old.parent = None => new.amount # 0
    <2>1. /\ old.cleared = "reconciled" =>
                new.amount = old.amount /\ new.cleared = old.cleared /\ new.account = old.account
          /\ old.split => new.amount = old.amount /\ ~new.category
        BY <1>1, <1>3 DEF EditUnlocked, Amended
    <2>2. old.parent # None =>
            new.amount = old.amount /\ new.cleared = old.cleared /\ new.account = old.account
        BY <1>1, <1>3 DEF EditUnlocked, Amended
    <2>3. p # None =>
            /\ new.payee = old.payee
            /\ new.amount # old.amount => rows[p].cleared # "reconciled"
        BY <1>1, <1>3 DEF EditKeepsPair, Amended
    <2>4. new.cleared = "reconciled" => old.cleared = "reconciled"
        BY <1>3 DEF Amended, Marks
    <2>5. old.parent = None => new.amount # 0
        BY <1>2, <1>3, LedgerAssumption DEF Amended
    <2> QED BY <2>1, <2>2, <2>3, <2>4, <2>5, <1>3 DEF Amended
<1>6. /\ p # None => /\ p \in DOMAIN rows /\ p # i /\ rows[p] \in RowType
                     /\ rows[p].amount = -old.amount /\ rows[p].payee = old.account
                     /\ L = {} /\ ~old.split
      /\ \A j \in L : j \in DOMAIN rows /\ j # i /\ rows[j] \in RowType /\ j # p
      /\ L # {} => old.split
    BY <1>1, Invariant, LinksOf DEF Live
<1>7. /\ DOMAIN R2 = DOMAIN rows /\ R2 = [k \in DOMAIN R2 |-> R2[k]]
      /\ R2[i] = new
    <2>1. DOMAIN R2 = DOMAIN rows BY DEF Edited
    <2>2. R2 = [k \in DOMAIN R2 |-> R2[k]] BY DEF Edited
    <2>3. R2[i] = new BY <1>6 DEF Edited
    <2> QED BY <2>1, <2>2, <2>3
<1>8. p # None => R2[p] = [rows[p] EXCEPT !.amount = -new.amount, !.payee = new.account]
    <2> SUFFICES ASSUME p # None
                 PROVE  R2[p] = [rows[p] EXCEPT !.amount = -new.amount, !.payee = new.account]
        OBVIOUS
    <2>1. R2[p] = [rows[p] EXCEPT !.amount = IF "amount" \in DOMAIN edit THEN -new.amount ELSE @,
                                  !.payee = IF Moves(i, edit) THEN new.account ELSE @]
        BY <1>6 DEF Edited
    <2>2. (IF "amount" \in DOMAIN edit THEN -new.amount ELSE rows[p].amount) = -new.amount
        BY <1>3, <1>6 DEF Amended
    <2>3. (IF Moves(i, edit) THEN new.account ELSE rows[p].payee) = new.account
        BY <1>4, <1>6
    <2> HIDE DEF new, p, R2
    <2> QED BY <2>1, <2>2, <2>3
<1>9. ASSUME NEW j \in L
      PROVE  /\ R2[j] = [rows[j] EXCEPT !.cleared = R2[j].cleared, !.account = new.account]
             /\ R2[j].cleared \in {"pending", "uncleared", "cleared", "reconciled"}
             /\ \/ R2[j].cleared = new.cleared
                \/ R2[j].cleared = rows[j].cleared /\ new.cleared = old.cleared
    <2> DEFINE c == IF "cleared" \in DOMAIN edit /\ old.cleared # "reconciled"
                    THEN new.cleared ELSE rows[j].cleared
    <2>1. R2[j] = [rows[j] EXCEPT !.cleared = c, !.account = new.account]
        BY <1>6 DEF Edited
    <2>2. rows[j] \in RowType /\ c \in {"pending", "uncleared", "cleared", "reconciled"}
        BY <1>3, <1>6 DEF Amended, RowType
    <2>3. c = new.cleared \/ (c = rows[j].cleared /\ new.cleared = old.cleared)
        BY <1>3, <1>5 DEF Amended
    <2> HIDE DEF c, R2, new
    <2>4. R2[j].cleared = c BY <2>1, <2>2 DEF RowType
    <2> QED BY <2>1, <2>2, <2>3, <2>4
<1>10. \A j \in DOMAIN rows \ {i} : j # p /\ j \notin L => R2[j] = rows[j] BY DEF Edited
<1>11. loose2 = strayed \cup stray OBVIOUS
<1>12. i \in loose2 \/ Placed(R2, i)
    <2>1. i \in strayed \/ Placed(rows, i) BY <1>1, Invariant DEF Good, FiledRight
    <2>2. CASE p = None
        <3>1. new.category => \/ ~(Moves(i, edit) \/ DOMAIN edit \cap {"category", "payee"} # {})
                              \/ Fileable(new.account, new.payee)
            BY <2>2, <1>1 DEF EditFiles
        <3>2. R2[i].partner = None BY <2>2, <1>3, <1>7 DEF Amended
        <3>3. ~(Moves(i, edit) \/ DOMAIN edit \cap {"category", "payee"} # {}) =>
                 new.account = old.account /\ new.category = old.category /\ new.payee = old.payee
            BY <1>3, <1>4 DEF Amended
        <3> QED BY <2>1, <2>2, <3>1, <3>2, <3>3, <1>7 DEF Placed, Fileable
    <2>3. CASE p # None /\ ~Moves(i, edit)
        <3>1. new.category => \/ "category" \notin DOMAIN edit
                              \/ MayCarry(new.account, rows[p].account)
            BY <2>3, <1>1 DEF EditFiles
        <3>2. R2[i].partner = p /\ new.account = old.account
            BY <1>3, <1>4, <1>7, <2>3 DEF Amended
        <3>3. R2[p].account = rows[p].account
            BY <2>3, <1>6, <1>8 DEF RowType
        <3>4. "category" \notin DOMAIN edit => new.category = old.category BY <1>3 DEF Amended
        <3> HIDE DEF R2, new
        <3> QED BY <2>1, <2>3, <3>1, <3>2, <3>3, <3>4, <1>7 DEF Placed
    <2>4. CASE p # None /\ Moves(i, edit) BY <2>4
    <2> QED BY <2>2, <2>3, <2>4
<1>13. new.account # old.account => ({p} \cup L) \ {None} \subseteq loose2
    BY <1>4, <1>6
<1>14. stray \subseteq DOMAIN rows \cup {None} BY <1>6
<1>15. Rewritten(rows, R2, i)
    <2>1. \A k \in DOMAIN rows : R2[k] \in RowType
        <3> TAKE k \in DOMAIN rows
        <3>0. rows[k] \in RowType /\ new \in RowType BY <1>3, Invariant DEF Amended
        <3>1. CASE k = i BY <3>0, <3>1, <1>7
        <3>2. CASE k = p /\ k # i
            <4>1. p # None BY <3>2, Invariant
            <4>2. R2[p] = [rows[p] EXCEPT !.amount = -new.amount, !.payee = new.account]
                BY <4>1, <1>8
            <4>3. new.amount \in Int /\ new.account \in Accounts BY <3>0 DEF RowType
            <4> HIDE DEF new, R2, p
            <4>4. -new.amount \in Int BY <4>3
            <4> QED BY <3>0, <3>2, <4>2, <4>3, <4>4 DEF RowType
        <3>3. CASE k \in L /\ k # i
            <4>1. new.account \in Accounts BY <3>0 DEF RowType
            <4>2. /\ R2[k] = [rows[k] EXCEPT !.cleared = R2[k].cleared, !.account = new.account]
                  /\ R2[k].cleared \in {"pending", "uncleared", "cleared", "reconciled"}
                BY <3>3, <1>9
            <4> HIDE DEF new, R2
            <4> QED BY <3>0, <4>1, <4>2 DEF RowType
        <3>4. CASE k # i /\ k # p /\ k \notin L BY <3>0, <3>4, <1>10
        <3> QED BY <3>1, <3>2, <3>3, <3>4
    <2>2. R2 \in Seq(RowType) /\ Len(R2) = Len(rows)
        BY <2>1, <1>7, Invariant, RowsTable
    <2>3. /\ R2[i].live /\ R2[i].partner = p /\ R2[i].parent = old.parent
          /\ R2[i].split = old.split
        BY <1>2, <1>3, <1>7 DEF Amended
    <2>4. ASSUME NEW j \in DOMAIN rows \ {i}
          PROVE  /\ j = p => R2[j] = [rows[j] EXCEPT !.amount = -R2[i].amount,
                                                     !.payee = R2[i].account]
                 /\ j \in L =>
                       /\ R2[j] = [rows[j] EXCEPT !.cleared = R2[j].cleared,
                                                  !.account = R2[i].account]
                       /\ \/ R2[j].cleared = R2[i].cleared
                          \/ R2[j].cleared = rows[j].cleared /\ R2[i].cleared = old.cleared
                 /\ j # p /\ j \notin L => R2[j] = rows[j]
        <3>1. j # None BY Invariant
        <3> HIDE DEF new, R2, p, L
        <3> QED BY <3>1, <1>7, <1>8, <1>9, <1>10
    <2> HIDE DEF R2, new
    <2> QED BY <2>2, <2>3, <2>4 DEF Rewritten
<1> HIDE DEF R2, loose2, new, stray
<1>16. Good(R2, loose2, vouched)
    <2>1. strayed \subseteq loose2 BY <1>11
    <2>2. /\ Good(rows, strayed, vouched) /\ i \in Live(rows) BY <1>1, Invariant
    <2>3. R2[i].bank # 0 /\ (rows[i].parent = None => R2[i].amount # 0) BY <1>2, <1>5, <1>7
    <2> QED BY <2>1, <2>2, <2>3, <1>5, <1>7, <1>12, <1>13, <1>15, RewriteGood
<1> QED BY <1>1, <1>7, <1>11, <1>14, <1>16, Written

-----------------------------------------------------------------------------
(* The bank's records. *)

\* What a record of the bank leaves of a row.
Posted(row, feed, new) ==
    /\ new \in RowType
    /\ new.live = row.live /\ new.account = row.account /\ new.category = row.category
    /\ new.payee = row.payee /\ new.partner = row.partner /\ new.parent = row.parent
    /\ new.split = row.split /\ new.bank = feed.amount
    /\ IF feed.posted /\ row.cleared # "reconciled"
       THEN new.amount = feed.amount /\ new.cleared = "cleared"
       ELSE new.amount = row.amount /\ new.cleared = row.cleared

(* So does a record of the bank: what it may, or its provenance alone.     *)
LEMMA PostedRow ==
    ASSUME NEW row \in RowType, NEW feed, feed.amount \in Int,
           feed.sync \in BankIds \cup {None}
    PROVE  Posted(row, feed, AfterPosting(row, feed))
<1> DEFINE takes == feed.posted /\ row.cleared # "reconciled"
<1> DEFINE sync == IF feed.sync # None THEN feed.sync ELSE row.sync
<1> DEFINE amount == IF takes THEN feed.amount ELSE row.amount
<1> DEFINE cleared == IF takes THEN "cleared" ELSE row.cleared
<1> DEFINE bank == feed.amount
<1> DEFINE new == AfterPosting(row, feed)
<1>1. new = [row EXCEPT !.bank = bank, !.sync = sync, !.amount = amount, !.cleared = cleared]
    BY DEF AfterPosting
<1>2. /\ bank \in Int /\ sync \in BankIds \cup {None} /\ amount \in Int
      /\ cleared \in {"pending", "uncleared", "cleared", "reconciled"}
    BY DEF RowType
<1>3. /\ takes => amount = feed.amount /\ cleared = "cleared"
      /\ ~takes => amount = row.amount /\ cleared = row.cleared
    OBVIOUS
<1> HIDE DEF sync, amount, cleared, bank, new
<1>4. new \in RowType BY <1>1, <1>2 DEF RowType
<1>5. /\ new.live = row.live /\ new.account = row.account /\ new.category = row.category
      /\ new.payee = row.payee /\ new.partner = row.partner /\ new.parent = row.parent
      /\ new.split = row.split /\ new.bank = bank /\ new.amount = amount
      /\ new.cleared = cleared
    BY <1>1, <1>2 DEF RowType
<1> QED BY <1>3, <1>4, <1>5 DEF Posted, new, bank

(* A bank's record is applied to a row it may change.                      *)
LEMMA ApplyBankPostingKeeps ==
    ASSUME IInv, NEW i \in DOMAIN rows, NEW feed, feed.amount \in Amounts, feed.sync \in BankIds,
           ApplyBankPosting(i, feed)
    PROVE  IInv'
<1> DEFINE old == rows[i]
<1> DEFINE new == AfterPosting(old, feed)
<1> DEFINE p == old.partner
<1> DEFINE L == Lines(rows, i)
<1> DEFINE R2 == BankTakes(rows, i, feed)
<1>1. /\ i \in Live(rows) /\ old.live /\ old.parent = None /\ Write(R2, {})
      /\ ~NeedsReview(old, feed, FALSE)
    BY DEF ApplyBankPosting, Live
<1>2. old \in RowType /\ old.amount # 0 /\ i # None /\ FiledRight(rows, strayed)
      /\ SplitsWhole(rows, strayed)
    BY <1>1, Invariant DEF NoZeros, Good
<1>3. feed.amount \in Int /\ feed.amount # 0 BY LedgerAssumption
<1>4. Posted(old, feed, new)
    <2>1. old \in RowType BY <1>2
    <2> HIDE DEF old
    <2> QED BY <2>1, <1>3, PostedRow
<1>5. /\ (old.split \/ p # None) => new.amount = old.amount
      /\ old.cleared = "reconciled" => new.amount = old.amount /\ new.cleared = old.cleared
      /\ new.cleared = "reconciled" => old.cleared = "reconciled"
      /\ new.amount # 0 /\ new.bank # 0 /\ new.bank \in Int
    BY <1>1, <1>2, <1>3, <1>4 DEF NeedsReview, Structured, Posted
<1>6. /\ p # None => /\ p \in DOMAIN rows /\ p # i /\ rows[p] \in RowType
                     /\ rows[p].amount = -old.amount /\ rows[p].payee = old.account
                     /\ L = {} /\ ~old.split
      /\ \A j \in L : j \in DOMAIN rows /\ j # i /\ rows[j] \in RowType /\ j # p
      /\ L # {} => old.split
    BY <1>1, Invariant, LinksOf DEF Live
<1>7. \A j \in L : rows[j].account = old.account
    BY <1>1, <1>2, <1>6 DEF SplitsWhole, Whole
<1>8. /\ DOMAIN R2 = DOMAIN rows /\ R2 = [k \in DOMAIN R2 |-> R2[k]]
    BY DEF BankTakes
<1>9. R2[i] = new BY <1>6 DEF BankTakes
<1>10. \A j \in DOMAIN rows \ {i} : j \notin L => R2[j] = rows[j] BY DEF BankTakes
<1>11. ASSUME NEW j \in L
       PROVE  R2[j] = IF old.cleared # new.cleared THEN [rows[j] EXCEPT !.cleared = new.cleared]
                      ELSE rows[j]
    BY <1>6 DEF BankTakes
<1> HIDE DEF R2
<1>12. ASSUME NEW j \in L
       PROVE  /\ R2[j] \in RowType
              /\ R2[j] = [rows[j] EXCEPT !.cleared = R2[j].cleared, !.account = new.account]
              /\ \/ R2[j].cleared = new.cleared
                 \/ R2[j].cleared = rows[j].cleared /\ new.cleared = old.cleared
    <2> DEFINE c == new.cleared
    <2>1. c \in {"pending", "uncleared", "cleared", "reconciled"} BY <1>4 DEF Posted, RowType
    <2>2. rows[j] \in RowType /\ new.account = rows[j].account
        BY <1>4, <1>6, <1>7 DEF Posted
    <2>3. R2[j] = IF old.cleared # c THEN [rows[j] EXCEPT !.cleared = c] ELSE rows[j]
        BY <1>11
    <2> HIDE DEF c, new
    <2>4. R2[j] \in RowType BY <2>1, <2>2, <2>3 DEF RowType
    <2>5. R2[j] = [rows[j] EXCEPT !.cleared = R2[j].cleared, !.account = new.account]
        BY <2>1, <2>2, <2>3 DEF RowType
    <2>6. R2[j].cleared = IF old.cleared # c THEN c ELSE rows[j].cleared
        BY <2>1, <2>2, <2>3 DEF RowType
    <2> QED BY <2>4, <2>5, <2>6 DEF c
<1>13. p # None => R2[p] = [rows[p] EXCEPT !.amount = -new.amount, !.payee = new.account]
    <2> SUFFICES ASSUME p # None
                 PROVE  R2[p] = [rows[p] EXCEPT !.amount = -new.amount, !.payee = new.account]
        OBVIOUS
    <2>1. R2[p] = rows[p] /\ rows[p] \in RowType BY <1>6, <1>10
    <2>2. rows[p].amount = -new.amount /\ rows[p].payee = new.account
        BY <1>4, <1>5, <1>6 DEF Posted
    <2> HIDE DEF new, p
    <2> QED BY <2>1, <2>2 DEF RowType
<1>14. Rewritten(rows, R2, i)
    <2>1. \A k \in DOMAIN rows : R2[k] \in RowType
        BY <1>4, <1>9, <1>10, <1>12, Invariant DEF Posted
    <2>2. R2 \in Seq(RowType) /\ Len(R2) = Len(rows)
        BY <2>1, <1>8, Invariant, RowsTable
    <2>3. /\ R2[i].live /\ R2[i].partner = p /\ R2[i].parent = old.parent
          /\ R2[i].split = old.split
        BY <1>1, <1>4, <1>9 DEF Posted
    <2>4. ASSUME NEW j \in DOMAIN rows \ {i}
          PROVE  /\ j = p => R2[j] = [rows[j] EXCEPT !.amount = -R2[i].amount,
                                                     !.payee = R2[i].account]
                 /\ j \in L =>
                       /\ R2[j] = [rows[j] EXCEPT !.cleared = R2[j].cleared,
                                                  !.account = R2[i].account]
                       /\ \/ R2[j].cleared = R2[i].cleared
                          \/ R2[j].cleared = rows[j].cleared /\ R2[i].cleared = old.cleared
                 /\ j # p /\ j \notin L => R2[j] = rows[j]
        <3>1. j # None BY Invariant
        <3> HIDE DEF new, p, L
        <3> QED BY <3>1, <1>9, <1>10, <1>12, <1>13
    <2> HIDE DEF new
    <2> QED BY <2>2, <2>3, <2>4 DEF Rewritten
<1>15. i \in strayed \/ Placed(R2, i)
    <2>1. i \in strayed \/ Placed(rows, i) BY <1>1, <1>2 DEF FiledRight
    <2>2. p # None => R2[p].account = rows[p].account
        BY <1>6, <1>10
    <2>3. /\ R2[i].category = old.category /\ R2[i].account = old.account
          /\ R2[i].partner = p /\ R2[i].payee = old.payee
        BY <1>4, <1>9 DEF Posted
    <2> QED BY <2>1, <2>2, <2>3 DEF Placed
<1>16. old.split => ~new.category
    BY <1>1, <1>2, <1>4 DEF SplitsWhole, Whole, Posted
<1>17. Good(R2, strayed, vouched)
    <2>1. /\ strayed \subseteq strayed /\ Good(rows, strayed, vouched) /\ i \in Live(rows)
        BY <1>1, Invariant
    <2>2. R2[i].account = rows[i].account /\ R2[i].payee = rows[i].payee
        BY <1>4, <1>9 DEF Posted
    <2> HIDE DEF new
    <2> QED BY <2>1, <2>2, <1>1, <1>5, <1>9, <1>14, <1>15, <1>16, RewriteGood
<1> QED BY <1>1, <1>8, <1>17, WrittenRight

(* Two rows that are each the other's only opposite: no row has two pairs. *)
LEMMA ConfidentLinkable ==
    ASSUME NEW R, Formed(R), NEW guesses
    PROVE  Linkable(R, ConfidentPairs(R, guesses))
<1> DEFINE legs == Pairable(R)
<1> DEFINE pairs == ConfidentPairs(R, guesses)
<1>1. \A k \in legs : R[k].amount \in Int BY FormedRows DEF Pairable, Live, RowType
<1>2. ASSUME NEW pair \in pairs
      PROVE  /\ pair \in legs \X legs /\ R[pair[1]].amount < 0
             /\ pair[1] \in legs /\ pair[2] \in legs
             /\ R[pair[2]].amount = -R[pair[1]].amount /\ pair[1] # pair[2]
             /\ Opposites(R, legs, pair[1]) = {pair[2]}
             /\ Opposites(R, legs, pair[2]) = {pair[1]}
    <2>1. /\ pair \in legs \X legs /\ R[pair[1]].amount < 0
          /\ Opposites(R, legs, pair[1]) = {pair[2]}
          /\ Opposites(R, legs, pair[2]) = {pair[1]}
        BY DEF ConfidentPairs
    <2>2. pair[2] \in Opposites(R, legs, pair[1]) BY <2>1
    <2>3. R[pair[2]].amount = -R[pair[1]].amount /\ pair[1] # pair[2] BY <2>2 DEF Opposites
    <2> QED BY <2>1, <2>3
<1>3. ASSUME NEW pair \in pairs, NEW other \in pairs,
             {pair[1], pair[2]} \cap {other[1], other[2]} # {}
      PROVE  pair = other
    <2>1. /\ pair \in legs \X legs /\ other \in legs \X legs
          /\ R[pair[1]].amount \in Int /\ R[other[1]].amount \in Int
        BY <1>1, <1>2
    <2>2. pair[1] # other[2] /\ pair[2] # other[1] BY <2>1, <1>2
    <2>3. pair[1] = other[1] \/ pair[2] = other[2] BY <2>2, <1>3
    <2>4. {pair[2]} = {other[2]} \/ {pair[1]} = {other[1]}
        <3>1. CASE pair[1] = other[1] BY <3>1, <1>2
        <3>2. CASE pair[2] = other[2] BY <3>2, <1>2
        <3> QED BY <2>3, <3>1, <3>2
    <2>5. pair[1] = other[1] /\ pair[2] = other[2] BY <2>3, <2>4, <1>2
    <2> QED BY <2>1, <2>5
<1> HIDE DEF pairs
<1>4. Linkable(R, pairs) BY <1>2, <1>3 DEF Linkable
<1> QED BY <1>4 DEF pairs

(* A sync's row is entered, and every pair there is no doubt of linked.    *)
LEMMA SyncRowKeeps ==
    ASSUME IInv, NEW account \in Accounts, NEW amount \in Amounts,
           NEW cleared \in {"cleared", "pending"}, NEW category \in BOOLEAN, NEW id \in BankIds,
           SyncRow(account, amount, cleared, category, id)
    PROVE  IInv'
<1> DEFINE row == [Row(account, amount, cleared)
                     EXCEPT !.category = category, !.sync = id, !.bank = amount]
<1> DEFINE R == Append(rows, row)
<1> DEFINE pairs == ConfidentPairs(R, {Len(rows) + 1})
<1>1. Write(LinkAll(R, pairs), {}) /\ (category => MayCarry(account, None)) BY DEF SyncRow
<1>2. Plain(row)
    <2>1. amount \in Int /\ amount # 0 /\ Shop \notin Accounts BY LedgerAssumption
    <2>2. row \in RowType BY <2>1 DEF Row, RowType
    <2>3. /\ row.live /\ row.account = account /\ row.amount = amount /\ row.cleared = cleared
          /\ row.category = category /\ row.payee = Shop /\ row.partner = None
          /\ row.parent = None /\ row.split = FALSE /\ row.bank = amount
        BY DEF Row
    <2> HIDE DEF row
    <2> QED BY <2>1, <2>2, <2>3, <1>1 DEF Plain, Fileable, Named
<1> HIDE DEF row
<1>3. Good(R, strayed, vouched) BY <1>2, Invariant, AppendGood
<1>4. DOMAIN rows \subseteq DOMAIN R BY Invariant, AppendAt
<1> HIDE DEF R
<1>5. Linkable(R, pairs) BY <1>3, ConfidentLinkable DEF Good
<1> HIDE DEF pairs
<1>6. Good(LinkAll(R, pairs), strayed, vouched) /\ DOMAIN LinkAll(R, pairs) = DOMAIN R
    BY <1>3, <1>5, LinkAllGood
<1> DEFINE R2 == LinkAll(R, pairs)
<1> HIDE DEF R2
<1>7. Write(R2, {}) /\ Good(R2, strayed, vouched) /\ DOMAIN rows \subseteq DOMAIN R2
    BY <1>1, <1>4, <1>6 DEF R2
<1> QED BY <1>7, WrittenRight

(* Two rows that each name the other's account, and no third does.         *)
LEMMA RepairTransfersKeeps ==
    ASSUME IInv, RepairTransfers
    PROVE  IInv'
<1> DEFINE pairs == {p \in MutualLegs(rows) : Forbidden(rows, p[1], p[2]) = {}}
<1> DEFINE options(i) == PointingBack(rows, Candidates(rows, rows[i].payee, -rows[i].amount),
                                      rows[i].account) \ {i}
<1>1. Write(LinkAll(rows, pairs), {}) BY DEF RepairTransfers
<1>2. ASSUME NEW pair \in pairs
      PROVE  /\ pair \in Pairable(rows) \X Pairable(rows) /\ pair[1] < pair[2]
             /\ options(pair[1]) = {pair[2]} /\ options(pair[2]) = {pair[1]}
             /\ rows[pair[2]].amount = -rows[pair[1]].amount
             /\ pair[1] \in Nat /\ pair[2] \in Nat
    <2>1. /\ pair \in Pairable(rows) \X Pairable(rows) /\ pair[1] < pair[2]
          /\ options(pair[1]) = {pair[2]} /\ options(pair[2]) = {pair[1]}
        BY DEF MutualLegs
    <2>2. pair[2] \in options(pair[1]) BY <2>1
    <2>3. rows[pair[2]].amount = -rows[pair[1]].amount BY <2>2 DEF PointingBack, Candidates
    <2>4. pair[1] \in DOMAIN rows /\ pair[2] \in DOMAIN rows BY <2>1 DEF Pairable
    <2> QED BY <2>1, <2>3, <2>4, Invariant
<1> HIDE DEF pairs, options
<1>3. ASSUME NEW pair \in pairs, NEW other \in pairs,
             {pair[1], pair[2]} \cap {other[1], other[2]} # {}
      PROVE  pair = other
    <2>1. ASSUME NEW a \in pairs, NEW b \in pairs PROVE a[1] # b[2]
        <3>1. SUFFICES ASSUME a[1] = b[2] PROVE FALSE OBVIOUS
        <3>2. {a[2]} = {b[1]} BY <3>1, <1>2
        <3>3. a[2] = b[1] BY <3>2
        <3> QED BY <3>1, <3>3, <1>2
    <2>2. pair[1] = other[1] \/ pair[2] = other[2] BY <2>1, <1>3
    <2>3. {pair[2]} = {other[2]} \/ {pair[1]} = {other[1]}
        <3>1. CASE pair[1] = other[1] BY <3>1, <1>2
        <3>2. CASE pair[2] = other[2] BY <3>2, <1>2
        <3> QED BY <2>2, <3>1, <3>2
    <2>4. pair[1] = other[1] /\ pair[2] = other[2] BY <2>2, <2>3, <1>2
    <2>5. pair \in Pairable(rows) \X Pairable(rows) /\ other \in Pairable(rows) \X Pairable(rows)
        BY <1>2
    <2> QED BY <2>4, <2>5
<1>4. Linkable(rows, pairs)
    <2>1. \A pair \in pairs : pair[1] # pair[2] BY <1>2
    <2> QED BY <2>1, <1>2, <1>3 DEF Linkable
<1> DEFINE R2 == LinkAll(rows, pairs)
<1>5. Good(R2, strayed, vouched) /\ DOMAIN R2 = DOMAIN rows
    BY <1>4, Invariant, LinkAllGood
<1>6. Write(R2, {}) BY <1>1
<1> HIDE DEF R2
<1> QED BY <1>5, <1>6, WrittenRight

(* A category on a row off budget is dropped.                              *)
LEMMA RepairTrackingKeeps ==
    ASSUME IInv, RepairTracking
    PROVE  IInv'
<1> DEFINE wrong == {i \in Live(rows) : /\ ~rows[i].split /\ rows[i].category
                                        /\ rows[i].account \notin OnBudget}
<1> DEFINE R2 == Uncategorized(rows, wrong)
<1>1. Write(R2, {}) BY DEF RepairTracking
<1>2. /\ DOMAIN R2 = DOMAIN rows /\ R2 = [k \in DOMAIN R2 |-> R2[k]]
      /\ \A k \in DOMAIN rows : R2[k] = [rows[k] EXCEPT !.category = @ /\ k \notin wrong]
    BY DEF Uncategorized
<1> HIDE DEF R2, wrong
<1>3. ASSUME NEW k \in DOMAIN rows
      PROVE  /\ R2[k] \in RowType
             /\ R2[k].live = rows[k].live /\ R2[k].account = rows[k].account
             /\ R2[k].amount = rows[k].amount /\ R2[k].cleared = rows[k].cleared
             /\ R2[k].payee = rows[k].payee /\ R2[k].partner = rows[k].partner
             /\ R2[k].parent = rows[k].parent /\ R2[k].split = rows[k].split
             /\ R2[k].bank = rows[k].bank /\ (R2[k].category => rows[k].category)
    <2> DEFINE c == rows[k].category /\ k \notin wrong
    <2>1. rows[k] \in RowType BY Invariant
    <2>2. R2[k] = [rows[k] EXCEPT !.category = c] BY <1>2
    <2>3. c \in BOOLEAN /\ (c => rows[k].category) OBVIOUS
    <2> HIDE DEF c
    <2>4. R2[k] \in RowType BY <2>1, <2>2, <2>3 DEF RowType
    <2>5. /\ R2[k].live = rows[k].live /\ R2[k].account = rows[k].account
          /\ R2[k].amount = rows[k].amount /\ R2[k].cleared = rows[k].cleared
          /\ R2[k].payee = rows[k].payee /\ R2[k].partner = rows[k].partner
          /\ R2[k].parent = rows[k].parent /\ R2[k].split = rows[k].split
          /\ R2[k].bank = rows[k].bank
        BY <2>1, <2>2 DEF RowType
    <2>6. R2[k].category = c BY <2>1, <2>2 DEF RowType
    <2> QED BY <2>3, <2>4, <2>5, <2>6
<1>4. R2 \in Seq(RowType) /\ Len(R2) = Len(rows)
    BY <1>2, <1>3, Invariant, RowsTable
<1>5. Follows(rows, R2) BY <1>4, Invariant, TableRows DEF Follows
<1>6. Live(R2) = Live(rows) /\ \A k : Lines(R2, k) = Lines(rows, k)
    BY <1>2, <1>3 DEF Live, Lines
<1>7. /\ Formed(rows) /\ SplitsWhole(rows, strayed) /\ NoZeros(rows) BY Invariant DEF Good
<1>8. Formed(R2) BY <1>2, <1>3, <1>4, <1>7 DEF Formed, Structured
<1>9. NoZeros(R2) BY <1>2, <1>3, <1>7 DEF NoZeros
<1>10. LegsFit(rows, R2, {}) BY <1>2, <1>3, <1>6 DEF LegsFit, Leg, SameLeg, Live
<1>11. SplitsFit(rows, R2, strayed, {})
    <2>1. ASSUME NEW k, Divided(R2, k)
          PROVE  Divided(rows, k) /\ SameSplit(rows, R2, k, strayed)
        <3>1. k \in DOMAIN rows /\ Divided(rows, k) /\ Whole(rows, k, strayed)
            BY <2>1, <1>2, <1>3, <1>6, <1>7 DEF Divided, Live, SplitsWhole
        <3>2. \A j \in Lines(rows, k) : j \in DOMAIN rows BY DEF Lines
        <3> QED BY <3>1, <3>2, <1>3, <1>6 DEF SameSplit, Whole
    <2>2. ASSUME NEW k, IsLine(R2, k) PROVE R2[R2[k].parent].live /\ R2[R2[k].parent].split
        <3>1. k \in Live(rows) /\ k \in DOMAIN rows /\ R2[k].parent = rows[k].parent
              /\ rows[k].parent # None /\ rows[k].parent \in DOMAIN rows
            BY <2>2, <1>2, <1>3, <1>6, <1>7, FormedRows DEF IsLine, Live
        <3>2. rows[rows[k].parent].live /\ rows[rows[k].parent].split
            BY <3>1, <1>7 DEF SplitsWhole
        <3> QED BY <3>1, <3>2, <1>3
    <2> QED BY <2>1, <2>2 DEF SplitsFit
<1>12. LocksFit(rows, R2) BY <1>2, <1>3 DEF LocksFit, IsLocked
<1>13. FilesFit(rows, R2, strayed, strayed)
    <2> SUFFICES ASSUME NEW k \in Live(R2) \ strayed PROVE SameFiling(rows, R2, k)
        BY <1>6 DEF FilesFit
    <2>1. k \in DOMAIN rows /\ (rows[k].partner # None => rows[k].partner \in DOMAIN rows)
        BY <1>6, <1>7, FormedRows DEF Live
    <2> QED BY <2>1, <1>3 DEF SameFiling
<1>14. Good(R2, strayed, vouched)
    BY <1>5, <1>8, <1>9, <1>10, <1>11, <1>12, <1>13, Invariant, GoodFrame
<1> QED BY <1>1, <1>2, <1>14, WrittenRight

-----------------------------------------------------------------------------
(* Reconciliation. *)

\* Rows of one account change their cleared state.
Recleared(R, R2, account) ==
    /\ R2 \in Seq(RowType) /\ DOMAIN R2 = DOMAIN R
    /\ \A k \in DOMAIN R : R2[k] = [R[k] EXCEPT !.cleared = R2[k].cleared]
    /\ \A k \in Live(R) : R[k].account # account /\ R[k].parent = None => R2[k] = R[k]

(* The locked rows of that account are shown to agree, or nothing is said  *)
(* of them any more.                                                       *)
LEMMA ReclearGood ==
    ASSUME NEW R, NEW R2, NEW loose, NEW loose2, NEW statements, NEW statements2, NEW account,
           Good(R, loose, statements), Recleared(R, R2, account), loose \subseteq loose2,
           \A k \in Live(R) : R[k].split =>
              \A j \in Lines(R, k) : R2[j].cleared = R2[k].cleared \/ j \in loose2,
           \A a \in Accounts \ {account} : statements2[a] = statements[a],
           \/ statements2[account] = None
           \/ Total(R2, Locked(R2, account)) = statements2[account]
    PROVE  Good(R2, loose2, statements2)
<1>1. /\ Formed(R) /\ SplitsWhole(R, loose) /\ LegsPaired(R) /\ FiledRight(R, loose)
      /\ Agrees(R, statements) /\ NoZeros(R) BY DEF Good
<1>2. /\ DOMAIN R2 = DOMAIN R /\ Follows(R, R2) /\ Priced(R) /\ R2 \in Seq(RowType)
      /\ \A k \in DOMAIN R : R[k] \in RowType /\ R[k].partner \in DOMAIN R \cup {None}
                             /\ R[k].parent \in DOMAIN R \cup {None}
      /\ None \notin DOMAIN R
    <2>1. R2 \in Seq(RowType) /\ DOMAIN R2 = DOMAIN R BY DEF Recleared
    <2>2. Len(R2) = Len(R) BY <2>1, <1>1, FormedRows, TableRows
    <2>3. Len(R) <= Len(R2) /\ Priced(R2) /\ DOMAIN R2 = 1..Len(R2)
        BY <2>1, <2>2, TableRows, <1>1, FormedRows
    <2> QED BY <2>1, <2>3, <1>1, FormedRows DEF Follows
<1>3. ASSUME NEW k \in DOMAIN R
      PROVE  /\ R2[k].live = R[k].live /\ R2[k].account = R[k].account
             /\ R2[k].amount = R[k].amount /\ R2[k].category = R[k].category
             /\ R2[k].payee = R[k].payee /\ R2[k].partner = R[k].partner
             /\ R2[k].parent = R[k].parent /\ R2[k].split = R[k].split
             /\ R2[k].bank = R[k].bank
    <2>1. R2[k] = [R[k] EXCEPT !.cleared = R2[k].cleared] BY DEF Recleared
    <2>2. R[k] \in RowType BY <1>2
    <2> QED BY <2>1, <2>2 DEF RowType
<1>4. Live(R2) = Live(R) /\ \A k : Lines(R2, k) = Lines(R, k)
    BY <1>2, <1>3 DEF Live, Lines
<1>5. Formed(R2) BY <1>1, <1>2, <1>3 DEF Formed, Structured
<1>6. NoZeros(R2) BY <1>1, <1>2, <1>3 DEF NoZeros
<1>7. LegsPaired(R2)
    <2>1. LegsFit(R, R2, {}) BY <1>2, <1>3, <1>4 DEF LegsFit, Leg, SameLeg, Live
    <2> QED BY <2>1, <1>1, LegsFrame
<1>8. SplitsWhole(R2, loose2)
    <2>1. ASSUME NEW k, Divided(R2, k)
          PROVE  Divided(R, k) /\ SameSplit(R, R2, k, loose2)
        <3>1. k \in DOMAIN R /\ k \in Live(R) /\ R[k].split /\ Divided(R, k) /\ Whole(R, k, loose)
            BY <2>1, <1>1, <1>2, <1>3, <1>4 DEF Divided, Live, SplitsWhole
        <3>2. \A j \in Lines(R, k) : j \in DOMAIN R BY DEF Lines
        <3> QED BY <3>1, <3>2, <1>3, <1>4 DEF SameSplit, Whole
    <2>2. ASSUME NEW k, IsLine(R2, k) PROVE R2[R2[k].parent].live /\ R2[R2[k].parent].split
        <3>1. k \in Live(R) /\ k \in DOMAIN R /\ R2[k].parent = R[k].parent
              /\ R[k].parent # None /\ R[k].parent \in DOMAIN R
            BY <2>2, <1>2, <1>3, <1>4 DEF IsLine, Live
        <3>2. R[R[k].parent].live /\ R[R[k].parent].split BY <3>1, <1>1 DEF SplitsWhole
        <3> QED BY <3>1, <3>2, <1>3
    <2>3. SplitsFit(R, R2, loose2, {}) BY <2>1, <2>2 DEF SplitsFit
    <2> QED BY <2>3, <1>1, <1>2, SplitsFrame
<1>9. FiledRight(R2, loose2)
    <2> SUFFICES ASSUME NEW k \in Live(R2) \ loose2 PROVE Placed(R2, k) BY DEF FiledRight
    <2>1. /\ k \in DOMAIN R /\ (R[k].partner # None => R[k].partner \in DOMAIN R)
          /\ Placed(R, k)
        BY <1>1, <1>2, <1>4 DEF Live, FiledRight
    <2> QED BY <2>1, <1>3 DEF Placed
<1>10. Agrees(R2, statements2)
    <2> SUFFICES ASSUME NEW a \in Accounts, a # account, statements[a] # None
                 PROVE  Total(R2, Locked(R2, a)) = statements[a]
        BY DEF Agrees
    <2>1. Locked(R2, a) = Locked(R, a)
        <3>1. \A k \in DOMAIN R : R[k].live /\ R[k].parent = None /\ R[k].account = a =>
                                     R2[k] = R[k]
            BY DEF Recleared, Live
        <3> QED BY <3>1, <1>2, <1>3 DEF Locked, Tops
    <2>2. Locked(R, a) \in SUBSET (1..Len(R)) BY <1>1, FormedRows DEF Locked, Tops
    <2>3. \A k \in Locked(R, a) : R2[k].amount = R[k].amount BY <1>3 DEF Locked, Tops
    <2>4. Total(R2, Locked(R, a)) = Total(R, Locked(R, a))
        BY <2>2, <2>3, <1>2, SameLines DEF Follows
    <2> QED BY <2>1, <2>4, <1>1 DEF Agrees
<1> QED BY <1>5, <1>6, <1>7, <1>8, <1>9, <1>10 DEF Good

(* A locked row is unlocked, with its lines; a line alone.                 *)
LEMMA UnreconcileKeeps ==
    ASSUME IInv, NEW i \in DOMAIN rows, Unreconcile(i)
    PROVE  IInv'
<1> DEFINE opened == {i} \cup IF rows[i].split THEN Lines(rows, i) ELSE {}
<1> DEFINE R2 == [j \in DOMAIN rows |->
                    IF j \in opened THEN [rows[j] EXCEPT !.cleared = "cleared"] ELSE rows[j]]
<1> DEFINE account == rows[i].account
<1> DEFINE loose2 == strayed \cup IF rows[i].parent = None THEN {} ELSE {i}
<1> DEFINE statements2 == [vouched EXCEPT ![account] = None]
<1>1. /\ i \in Live(rows) /\ rows[i].cleared = "reconciled"
      /\ vouched' = statements2 /\ strayed' = loose2 /\ reading' = reading
    BY DEF Unreconcile, Live
<1>2. rows' = R2
    <2>1. \A j : j \in opened <=> j = i \/ (rows[i].split /\ j \in Lines(rows, i)) OBVIOUS
    <2> HIDE DEF opened
    <2> QED BY <2>1 DEF Unreconcile
<1>3. account \in Accounts BY Invariant DEF RowType
<1>4. /\ DOMAIN R2 = DOMAIN rows /\ R2 = [k \in DOMAIN R2 |-> R2[k]]
      /\ \A k \in DOMAIN rows : k \in opened => R2[k] = [rows[k] EXCEPT !.cleared = "cleared"]
      /\ \A k \in DOMAIN rows : k \notin opened => R2[k] = rows[k]
    OBVIOUS
<1>5. i \in opened /\ \A k \in opened : k = i \/ (k \in Lines(rows, i) /\ rows[i].split) OBVIOUS
<1>6. rows[i].split => Lines(rows, i) \subseteq opened OBVIOUS
<1> HIDE DEF R2, opened
<1>7. ASSUME NEW k \in DOMAIN rows
      PROVE  /\ R2[k] \in RowType /\ R2[k] = [rows[k] EXCEPT !.cleared = R2[k].cleared]
             /\ k \in opened => R2[k].cleared = "cleared"
    <2>1. rows[k] \in RowType BY Invariant
    <2>2. CASE k \in opened
        <3>1. R2[k] = [rows[k] EXCEPT !.cleared = "cleared"] BY <2>2, <1>4
        <3> QED BY <2>1, <3>1 DEF RowType
    <2>3. CASE k \notin opened
        <3>1. R2[k] = rows[k] BY <2>3, <1>4
        <3> QED BY <2>1, <2>3, <3>1 DEF RowType
    <2> QED BY <2>2, <2>3
<1>8. R2 \in Seq(RowType) BY <1>4, <1>7, Invariant, RowsTable
<1>9. i # None /\ SplitsWhole(rows, strayed) /\ Good(rows, strayed, vouched)
    BY Invariant DEF Good
<1>10. Recleared(rows, R2, account)
    <2>1. ASSUME NEW k \in Live(rows), rows[k].account # account, rows[k].parent = None
          PROVE  R2[k] = rows[k]
        <3>1. k \in DOMAIN rows /\ k \notin opened BY <2>1, <1>5, <1>9 DEF Live, Lines
        <3> QED BY <3>1, <1>4
    <2> HIDE DEF account
    <2> QED BY <2>1, <1>4, <1>7, <1>8 DEF Recleared
<1>11. ASSUME NEW k \in Live(rows), rows[k].split, NEW j \in Lines(rows, k)
       PROVE  R2[j].cleared = R2[k].cleared \/ j \in loose2
    <2>1. Whole(rows, k, strayed) /\ k \in DOMAIN rows /\ j \in DOMAIN rows /\ rows[j].parent = k
          /\ k # None
        BY <1>9, <1>11, Invariant DEF SplitsWhole, Live, Lines
    <2>2. CASE k = i BY <2>1, <2>2, <1>5, <1>6, <1>7, <1>11
    <2>3. CASE k # i
        <3>1. j = i => j \in loose2 BY <2>1
        <3>2. ~(k \in Lines(rows, i))
            <4>1. rows[k].parent = None BY <1>11, <2>1, Invariant DEF Formed, Structured, Live
            <4> QED BY <4>1, <1>9 DEF Lines
        <3>3. j # i => R2[j] = rows[j] /\ R2[k] = rows[k]
            <4>1. k \notin opened BY <2>3, <3>2, <1>5
            <4>2. j # i => j \notin opened BY <2>1, <2>3, <1>5 DEF Lines
            <4> QED BY <4>1, <4>2, <2>1, <1>4
        <3>4. rows[j].cleared = rows[k].cleared \/ j \in strayed BY <2>1 DEF Whole
        <3> QED BY <3>1, <3>3, <3>4
    <2> QED BY <2>2, <2>3
<1>12. /\ \A a \in Accounts \ {account} : statements2[a] = vouched[a]
       /\ statements2[account] = None /\ statements2 \in [Accounts -> Int \cup {None}]
    BY <1>3 DEF IInv, TypeOK
<1>13. strayed \subseteq loose2 /\ loose2 \subseteq DOMAIN rows \cup {None}
    BY DEF IInv, TypeOK
<1> HIDE DEF loose2, statements2, account
<1>14. Good(R2, loose2, statements2)
    BY <1>9, <1>10, <1>11, <1>12, <1>13, ReclearGood
<1> QED BY <1>1, <1>2, <1>4, <1>12, <1>13, <1>14 DEF IInv, TypeOK, Good

(* The cleared balance is read.                                            *)
LEMMA BeginFinishKeeps ==
    ASSUME IInv, NEW account \in Accounts, BeginFinish(account)
    PROVE  IInv'
<1> DEFINE balance == Total(rows, Cleared(rows, account))
<1>1. balance \in Int BY Invariant, FormedRows, TotalType
<1>2. /\ reading' = [account |-> account, balance |-> balance]
      /\ UNCHANGED <<rows, vouched, strayed>>
    BY DEF BeginFinish
<1> HIDE DEF balance
<1>3. reading' \in [account : Accounts, balance : Int] BY <1>1, <1>2
<1> QED BY <1>2, <1>3 DEF IInv, Good, TypeOK

(* The adjustment is entered and the cleared rows locked. They agree with  *)
(* the statement when no cleared row has moved since the balance was read. *)
LEMMA FinishKeeps ==
    ASSUME IInv, NEW statement \in Int, Finish(statement)
    PROVE  IInv'
<1> DEFINE account == reading.account
<1> DEFINE balance == reading.balance
<1> DEFINE difference == statement - balance
<1> DEFINE row == Row(account, difference, "cleared")
<1> DEFINE R == IF difference = 0 THEN rows ELSE Append(rows, row)
<1> DEFINE raced == Total(rows, Cleared(rows, account)) # balance
<1> DEFINE R2 == [i \in DOMAIN R |->
                    IF R[i].live /\ R[i].account = account /\ R[i].cleared = "cleared"
                    THEN [R[i] EXCEPT !.cleared = "reconciled"] ELSE R[i]]
<1> DEFINE statements2 == [vouched EXCEPT ![account] = IF raced THEN None ELSE statement]
<1>1. /\ rows' = R2 /\ vouched' = statements2 /\ reading' = None /\ strayed' = strayed
    BY DEF Finish
<1>2. account \in Accounts /\ balance \in Int /\ difference \in Int
    <2>1. reading \in [account : Accounts, balance : Int] BY DEF Finish, IInv, TypeOK
    <2> QED BY <2>1
<1>3. /\ \A a \in Accounts \ {account} : statements2[a] = vouched[a]
      /\ statements2[account] = None \/ (~raced /\ statements2[account] = statement)
      /\ statements2 \in [Accounts -> Int \cup {None}]
    BY <1>2 DEF IInv, TypeOK
<1>4. /\ DOMAIN R2 = DOMAIN R /\ R2 = [k \in DOMAIN R2 |-> R2[k]]
      /\ \A k \in DOMAIN R :
            R2[k] = IF R[k].live /\ R[k].account = account /\ R[k].cleared = "cleared"
                    THEN [R[k] EXCEPT !.cleared = "reconciled"] ELSE R[k]
    OBVIOUS
<1> HIDE DEF R2, statements2
<1>5. /\ Good(R, strayed, vouched) /\ DOMAIN rows \subseteq DOMAIN R
      /\ ~raced => Total(R, Cleared(R, account)) = statement
    <2>1. CASE difference = 0
        <3>1. R = rows /\ statement = balance BY <2>1, <1>2
        <3> QED BY <3>1, Invariant
    <2>2. CASE difference # 0
        <3> DEFINE n == Len(rows) + 1
        <3>1. R = Append(rows, row) BY <2>2
        <3>2. Bare(row, account, difference, "cleared")
            <4>1. "cleared" \in Unlocked BY DEF Unlocked
            <4> HIDE DEF account, difference
            <4> QED BY <2>2, <4>1, <1>2, BareRow
        <3> HIDE DEF row, account, difference, balance
        <3>3. Good(R, strayed, vouched) BY <3>1, <3>2, Invariant, AppendGood DEF Bare
        <3>4. /\ DOMAIN R = DOMAIN rows \cup {n} /\ n \notin DOMAIN rows /\ n \in Nat
              /\ Len(R) = n /\ R[n] = row /\ \A k \in DOMAIN rows : R[k] = rows[k]
              /\ Priced(R) /\ Priced(rows) /\ DOMAIN R = 1..Len(R) /\ Len(rows) \in Nat
              /\ DOMAIN rows = 1..Len(rows)
            <4>1. /\ Priced(R) /\ Priced(rows) /\ DOMAIN R = 1..Len(R)
                BY <3>3, Invariant, FormedRows DEF Good
            <4>2. rows \in Seq(RowType) /\ Len(rows) \in Nat /\ DOMAIN rows = 1..Len(rows)
                BY Invariant
            <4> HIDE DEF R
            <4> QED BY <4>1, <4>2, <3>1, AppendAt
        <3> HIDE DEF n, R
        <3>5. /\ row.live /\ row.parent = None /\ row.account = account
              /\ row.cleared = "cleared" /\ row.amount = difference
            BY <3>2 DEF Bare, Plain
        <3> DEFINE S == Cleared(rows, account)
        <3> DEFINE S2 == Cleared(R, account)
        <3>6. S \subseteq DOMAIN rows /\ n \in S2 /\ \A k \in DOMAIN rows : k \in S2 <=> k \in S
            BY <3>4, <3>5 DEF Cleared, Tops
        <3> HIDE DEF S, S2
        <3>7. Len(rows) <= Len(R) /\ n \in 1..Len(R) /\ n \notin 1..Len(rows)
            BY <3>4 DEF n
        <3>8. Share(R, S2, n) = Share(rows, S, n) + difference
            BY <3>4, <3>5, <3>6, <3>7, <1>2 DEF Share
        <3>9. ASSUME NEW k \in 1..Len(R), k # n PROVE Share(R, S2, k) = Share(rows, S, k)
            <4>1. k \in DOMAIN rows /\ R[k] = rows[k] BY <3>4, <3>9
            <4> QED BY <4>1, <3>4, <3>6, <3>9 DEF Share
        <3>10. Total(R, S2) = Total(rows, S) + difference
            BY <3>4, <3>7, <3>8, <3>9, <1>2, TotalDiffers
        <3>11. ~raced => Total(rows, S) = balance BY DEF raced, S
        <3> HIDE DEF raced
        <3>12. ~raced => Total(R, S2) = statement
            BY <3>10, <3>11, <1>2 DEF difference
        <3> QED BY <3>3, <3>4, <3>12 DEF S2
    <2> QED BY <2>1, <2>2
<1> HIDE DEF R, account, raced
<1>6. /\ Formed(R) /\ SplitsWhole(R, strayed) BY <1>5 DEF Good
<1>7. ASSUME NEW k \in DOMAIN R
      PROVE  /\ R2[k] \in RowType /\ R2[k] = [R[k] EXCEPT !.cleared = R2[k].cleared]
             /\ R2[k].cleared = IF R[k].live /\ R[k].account = account /\ R[k].cleared = "cleared"
                                THEN "reconciled" ELSE R[k].cleared
             /\ R2[k].live = R[k].live /\ R2[k].account = R[k].account
             /\ R2[k].parent = R[k].parent /\ R2[k].amount = R[k].amount
    <2>1. R[k] \in RowType BY <1>6, FormedRows
    <2>2. CASE R[k].live /\ R[k].account = account /\ R[k].cleared = "cleared"
        <3>1. R2[k] = [R[k] EXCEPT !.cleared = "reconciled"] BY <2>2, <1>4
        <3>2. R2[k] \in RowType /\ R2[k].cleared = "reconciled" BY <2>1, <3>1 DEF RowType
        <3>3. /\ R2[k].live = R[k].live /\ R2[k].account = R[k].account
              /\ R2[k].parent = R[k].parent /\ R2[k].amount = R[k].amount
            BY <2>1, <3>1 DEF RowType
        <3> QED BY <2>2, <3>1, <3>2, <3>3
    <2>3. CASE ~(R[k].live /\ R[k].account = account /\ R[k].cleared = "cleared")
        <3>1. R2[k] = R[k] BY <2>3, <1>4
        <3> QED BY <2>1, <2>3, <3>1 DEF RowType
    <2> QED BY <2>2, <2>3
<1>8. R2 \in Seq(RowType) /\ Len(R2) = Len(R) BY <1>4, <1>6, <1>7, FormedRows, RowsTable
<1>9. Recleared(R, R2, account)
    <2>1. ASSUME NEW k \in Live(R), R[k].account # account PROVE R2[k] = R[k]
        <3>1. k \in DOMAIN R BY DEF Live
        <3> QED BY <2>1, <3>1, <1>4
    <2> QED BY <2>1, <1>4, <1>7, <1>8 DEF Recleared
<1>10. ASSUME NEW k \in Live(R), R[k].split, NEW j \in Lines(R, k)
       PROVE  R2[j].cleared = R2[k].cleared \/ j \in strayed
    <2>1. /\ Whole(R, k, strayed) /\ k \in DOMAIN R /\ j \in DOMAIN R /\ R[j].live /\ R[k].live
        BY <1>6, <1>10 DEF SplitsWhole, Live, Lines
    <2> QED BY <2>1, <1>7, <1>10 DEF Whole
<1>11. Total(R2, Locked(R2, account)) = Total(R, Cleared(R, account))
    <2>1. Locked(R2, account) = Cleared(R, account)
        <3>1. ASSUME NEW k \in DOMAIN R PROVE k \in Locked(R2, account) <=> k \in Cleared(R, account)
            BY <1>4, <1>7 DEF Locked, Cleared, Tops
        <3>2. Locked(R2, account) \subseteq DOMAIN R /\ Cleared(R, account) \subseteq DOMAIN R
            BY <1>4 DEF Locked, Cleared, Tops
        <3> QED BY <3>1, <3>2
    <2>2. /\ Cleared(R, account) \in SUBSET (1..Len(R)) /\ Priced(R) /\ Priced(R2)
          /\ Len(R) <= Len(R2)
        BY <1>4, <1>6, <1>8, FormedRows, TableRows DEF Cleared, Tops
    <2>3. \A k \in Cleared(R, account) : R2[k].amount = R[k].amount
        BY <1>7 DEF Cleared, Tops
    <2> QED BY <2>1, <2>2, <2>3, SameLines
<1>12. Good(R2, strayed, statements2)
    <2>1. strayed \subseteq strayed OBVIOUS
    <2> QED BY <2>1, <1>3, <1>5, <1>9, <1>10, <1>11, ReclearGood
<1>13. strayed \subseteq DOMAIN R2 \cup {None} BY <1>4, <1>5 DEF IInv, TypeOK
<1> QED BY <1>1, <1>3, <1>12, <1>13 DEF IInv, TypeOK, Good

-----------------------------------------------------------------------------
(* Merges. *)

(* The survivor is one of the two, and the locked one if one is locked.    *)
LEMMA SurvivorOfTwo ==
    ASSUME NEW i \in Nat, NEW j \in Nat, NEW asked \in {None, i}
    PROVE  LET kept == Survivor(i, j, asked)
               lost == IF kept = i THEN j ELSE i
           IN  /\ kept \in {i, j} /\ lost \in {i, j}
               /\ kept # lost /\ Reconciled(lost) => Reconciled(kept)
<1>1. Min({i, j}) \in {i, j}
    <2>1. \E x \in {i, j} : \A y \in {i, j} : x <= y BY i <= j \/ j <= i
    <2> QED BY <2>1 DEF Min
<1> DEFINE m == Min({i, j})
<1>2. m \in {i, j} BY <1>1
<1> HIDE DEF m
<1>3. CASE Reconciled(i) # Reconciled(j)
    <2>1. Survivor(i, j, asked) = IF Reconciled(i) THEN i ELSE j BY <1>3 DEF Survivor, m
    <2>2. Reconciled(i) \in BOOLEAN /\ Reconciled(j) \in BOOLEAN BY DEF Reconciled
    <2> QED BY <1>3, <2>1, <2>2
<1>4. CASE Reconciled(i) = Reconciled(j)
    <2>1. Survivor(i, j, asked) \in {i, j} BY <1>2, <1>4 DEF Survivor, m
    <2> QED BY <1>4, <2>1
<1> QED BY <1>3, <1>4 DEF Reconciled

\* What a merge makes of the row it keeps.
Surviving(own, other, new) ==
    /\ new \in RowType /\ new.live /\ new.parent = None
    /\ new.account = own.account /\ new.partner = own.partner
    /\ new.split <=> own.split \/ other.split
    /\ new.category <=>
          ~other.split /\ (own.category \/ (own.partner = None /\ ~own.split /\ other.category))
    /\ new.payee = IF own.partner = None /\ own.payee = None THEN other.payee ELSE own.payee
    /\ new.amount # 0 /\ new.bank # 0
    /\ Structured(own) \/ own.cleared = "reconciled" => new.amount = own.amount
    /\ own.cleared = "reconciled" \/ new.cleared = "reconciled" => new.cleared = own.cleared
    /\ other.split => new.amount = other.amount

(* What the rule of domain/merging.py leaves of the row kept.              *)
LEMMA SurvivedRow ==
    ASSUME IInv, NEW kept \in DOMAIN rows, NEW lost \in DOMAIN rows, NEW asked,
           MayMerge(kept, lost, asked), AmountsAgree(kept, lost)
    PROVE  Surviving(rows[kept], rows[lost], Survived(kept, lost))
<1> DEFINE own == rows[kept]
<1> DEFINE other == rows[lost]
<1> DEFINE feed == AsFeed(other)
<1> DEFINE posted == AfterPosting(own, feed)
<1> DEFINE base == IF BankSourced(lost) THEN posted ELSE own
<1> DEFINE new == Survived(kept, lost)
<1>1. /\ own \in RowType /\ other \in RowType /\ own.live /\ own.parent = None /\ other.parent = None
      /\ own.amount # 0 /\ own.bank # 0 /\ other.amount # 0 /\ other.bank # 0
    BY Invariant DEF NoZeros, MayMerge
<1>2. /\ feed.amount \in Int /\ feed.amount # 0 /\ feed.sync \in BankIds \cup {None}
      /\ feed.posted \in BOOLEAN
    BY <1>1 DEF AsFeed, RowType
<1>3. Posted(own, feed, posted)
    <2> HIDE DEF own, feed
    <2> QED BY <1>1, <1>2, PostedRow
<1>4. BankSourced(lost) =>
          /\ ~NeedsReview(own, feed, TRUE)
          /\ other.split => posted.amount = other.amount
    BY DEF AmountsAgree
<1>5. ~BankSourced(lost) => own.amount = other.amount BY DEF AmountsAgree
<1>6. new = [base EXCEPT
                !.split = @ \/ other.split,
                !.category = /\ ~other.split
                             /\ @ \/ (own.partner = None /\ ~own.split /\ other.category),
                !.payee = IF own.partner = None /\ @ = None THEN other.payee ELSE @]
    BY DEF Survived
<1> HIDE DEF feed, posted
<1>7. /\ base \in RowType /\ base.live = own.live /\ base.parent = own.parent
      /\ base.account = own.account /\ base.partner = own.partner /\ base.split = own.split
      /\ base.category = own.category /\ base.payee = own.payee
      /\ base.amount # 0 /\ base.bank # 0
      /\ Structured(own) \/ own.cleared = "reconciled" => base.amount = own.amount
      /\ own.cleared = "reconciled" \/ base.cleared = "reconciled" => base.cleared = own.cleared
      /\ other.split => base.amount = other.amount
    <2>1. CASE BankSourced(lost)
        <3>1. base = posted BY <2>1
        <3>2. Structured(own) \/ own.cleared = "reconciled" => posted.amount = own.amount
            BY <2>1, <1>2, <1>3, <1>4 DEF NeedsReview, Posted
        <3>3. posted.amount # 0 /\ posted.bank # 0 BY <1>1, <1>2, <1>3 DEF Posted
        <3>4. own.cleared = "reconciled" \/ posted.cleared = "reconciled" =>
                  posted.cleared = own.cleared
            BY <1>3 DEF Posted
        <3> QED BY <2>1, <3>1, <3>2, <3>3, <3>4, <1>3, <1>4 DEF Posted
    <2>2. CASE ~BankSourced(lost) BY <2>2, <1>1, <1>5
    <2> QED BY <2>1, <2>2
<1> HIDE DEF base, new, own, other
<1> DEFINE split == base.split \/ other.split
<1> DEFINE category == /\ ~other.split
                       /\ base.category \/ (own.partner = None /\ ~own.split /\ other.category)
<1> DEFINE payee == IF own.partner = None /\ base.payee = None THEN other.payee ELSE base.payee
<1>8. new = [base EXCEPT !.split = split, !.category = category, !.payee = payee] BY <1>6
<1>9. split \in BOOLEAN /\ category \in BOOLEAN /\ payee \in Accounts \cup {Shop, None}
    BY <1>1, <1>7 DEF RowType
<1>10. /\ split <=> own.split \/ other.split
       /\ category <=>
             ~other.split /\ (own.category \/ (own.partner = None /\ ~own.split /\ other.category))
       /\ payee = IF own.partner = None /\ own.payee = None THEN other.payee ELSE own.payee
    BY <1>7
<1> HIDE DEF split, category, payee
<1>11. new \in RowType BY <1>7, <1>8, <1>9 DEF RowType
<1>12. /\ new.live = base.live /\ new.parent = base.parent /\ new.account = base.account
       /\ new.partner = base.partner /\ new.amount = base.amount /\ new.bank = base.bank
       /\ new.cleared = base.cleared /\ new.split = split /\ new.category = category
       /\ new.payee = payee
    BY <1>7, <1>8, <1>9 DEF RowType
<1> QED BY <1>1, <1>7, <1>10, <1>11, <1>12 DEF Surviving, own, other, new

\* A plain unlocked row goes.
Gone(R, x) == [R EXCEPT ![x] = [R[x] EXCEPT !.live = FALSE]]

(* The others are as right without it.                                     *)
LEMMA GoneGood ==
    ASSUME NEW R, NEW loose, NEW statements, Good(R, loose, statements), NEW x \in Pairable(R),
           R[x].cleared # "reconciled"
    PROVE  Good(Gone(R, x), loose, statements) /\ DOMAIN Gone(R, x) = DOMAIN R
<1> DEFINE R2 == Gone(R, x)
<1>1. /\ R \in Seq(RowType) /\ NoZeros(R) /\ None \notin DOMAIN R
      /\ \A k \in DOMAIN R : R[k] \in RowType
    BY FormedRows DEF Good, Formed
<1>2. /\ x \in Live(R) /\ x \in DOMAIN R /\ R[x] \in RowType /\ ~R[x].split
      /\ R[x].parent = None /\ R[x].partner = None
    BY <1>1 DEF Pairable, Live
<1>3. /\ DOMAIN R2 = DOMAIN R /\ R2 = [k \in DOMAIN R2 |-> R2[k]]
      /\ R2[x] = [R[x] EXCEPT !.live = FALSE] /\ \A k \in DOMAIN R \ {x} : R2[k] = R[k]
    BY <1>2 DEF Gone
<1> HIDE DEF R2
<1>4. /\ R2[x] \in RowType /\ R2[x].live = FALSE /\ R2[x].partner = None /\ R2[x].parent = None
      /\ R2[x].amount = R[x].amount /\ R2[x].bank = R[x].bank
    BY <1>2, <1>3 DEF RowType
<1>5. Changed(R, R2, {x}) BY <1>1, <1>3, <1>4, ChangedTable
<1>6. Apart(R, {x})
    <2>1. Lines(R, x) = {} BY <1>2, LinksOf
    <2> QED BY <2>1, <1>2 DEF Apart, Within
<1>7. Sound(R2, x, loose) /\ Within(R2, x, {x}) /\ LocksFitAt(R, R2, x)
    BY <1>1, <1>2, <1>4 DEF Sound, Within, LocksFitAt, IsLocked, NoZeros
<1>8. Good(R2, loose, statements)
    <2>1. loose \subseteq loose OBVIOUS
    <2>2. \A k \in {x} \cap DOMAIN R2 :
              Sound(R2, k, loose) /\ Within(R2, k, {x}) /\ LocksFitAt(R, R2, k)
        BY <1>7
    <2> QED BY <2>1, <2>2, <1>5, <1>6, ChangeGood
<1> QED BY <1>3, <1>8 DEF R2

\* Of the live rows of C two are left, coupled; the others go.
Left(R, R2, i, j, C, loose) ==
    /\ R2 \in Seq(RowType) /\ DOMAIN R2 = DOMAIN R
    /\ \A k \in DOMAIN R \ C : R2[k] = R[k]
    /\ \A k \in {i, j} :
          /\ R2[k].live /\ ~R2[k].split /\ R2[k].parent = None /\ R2[k].account = R[k].account
          /\ (R[k].cleared = "reconciled" \/ R2[k].cleared = "reconciled") =>
                R2[k].cleared = R[k].cleared /\ R2[k].amount = R[k].amount
          /\ R2[k].bank # 0 /\ R2[k].amount # 0
    /\ R2[i].partner = j /\ R2[j].partner = i /\ R2[j].amount = -R2[i].amount
    /\ R2[i].payee = R2[j].account /\ R2[j].payee = R2[i].account
    /\ i \in loose \/ (R2[i].category => MayCarry(R2[i].account, R2[j].account))
    /\ j \in loose \/ (R2[j].category => MayCarry(R2[j].account, R2[i].account))
    /\ \A k \in C \ {i, j} : R[k].cleared # "reconciled" /\ R2[k] = [R[k] EXCEPT !.live = FALSE]

(* Two coupled rows and no others are left of C: the table is good.        *)
LEMMA LeftGood ==
    ASSUME NEW R, NEW loose, NEW statements, Good(R, loose, statements), NEW C \in SUBSET Live(R),
           NEW i \in C, NEW j \in C, i # j, NEW R2, Left(R, R2, i, j, C, loose),
           \A k \in C : /\ R[k].parent = None /\ ~R[k].split
                        /\ R[k].partner \in C \cup {None}
    PROVE  Good(R2, loose, statements)
<1>1. /\ R \in Seq(RowType) /\ NoZeros(R) /\ None \notin DOMAIN R /\ Formed(R)
      /\ \A k \in DOMAIN R : R[k] \in RowType
    BY FormedRows DEF Good, Formed
<1>2. /\ C \subseteq DOMAIN R /\ i \in DOMAIN R2 /\ j \in DOMAIN R2 /\ i # None /\ j # None
      /\ i \in DOMAIN R /\ j \in DOMAIN R /\ R2 \in Seq(RowType) /\ DOMAIN R2 = DOMAIN R
    BY <1>1 DEF Live, Left
<1>3. Apart(R, C)
    <2>1. \A k \in C : Lines(R, k) = {} BY LinksOf
    <2> QED BY <2>1 DEF Apart, Within
<1>4. Changed(R, R2, C)
    <2>1. Len(R) = Len(R2) /\ Len(R) \in Nat BY <1>1, <1>2, TableRows
    <2> QED BY <2>1, <1>2 DEF Changed, Left
<1>5. R2[i].amount \in Int /\ R2[j].amount \in Int /\ R2[i].amount = -R2[j].amount
    <2>1. R2[i] \in RowType /\ R2[j] \in RowType BY <1>2, TableRows
    <2>2. R2[i].amount \in Int /\ R2[j].amount \in Int BY <2>1 DEF RowType
    <2> QED BY <2>2 DEF Left
<1>6. Sound(R2, i, loose) /\ Within(R2, i, {i, j})
    <2>1. /\ R2[i].live /\ R2[j].live /\ R2[i].partner = j /\ R2[j].partner = i
          /\ R2[i].parent = None /\ R2[j].parent = None /\ ~R2[i].split /\ ~R2[j].split
          /\ R2[j].amount = -R2[i].amount /\ R2[i].amount # 0 /\ R2[i].bank # 0
          /\ R2[i].payee = R2[j].account
          /\ i \in loose \/ (R2[i].category => MayCarry(R2[i].account, R2[j].account))
        BY DEF Left
    <2> QED BY <2>1, <1>2, <1>5, CoupleSound
<1>7. Sound(R2, j, loose) /\ Within(R2, j, {j, i})
    <2>1. /\ R2[i].live /\ R2[j].live /\ R2[i].partner = j /\ R2[j].partner = i
          /\ R2[i].parent = None /\ R2[j].parent = None /\ ~R2[i].split /\ ~R2[j].split
          /\ R2[j].amount # 0 /\ R2[j].bank # 0
          /\ R2[j].payee = R2[i].account
          /\ j \in loose \/ (R2[j].category => MayCarry(R2[j].account, R2[i].account))
        BY DEF Left
    <2> QED BY <2>1, <1>2, <1>5, CoupleSound
<1>8. ASSUME NEW k \in C \cap DOMAIN R2
      PROVE  Sound(R2, k, loose) /\ Within(R2, k, C) /\ LocksFitAt(R, R2, k)
    <2>1. k \in DOMAIN R /\ R[k].live /\ R[k].parent = None BY <1>2 DEF Live
    <2>2. CASE k \in {i, j}
        <3>1. Sound(R2, k, loose) /\ Within(R2, k, C) BY <2>2, <1>6, <1>7 DEF Within
        <3>2. /\ R2[k].live /\ R2[k].parent = None /\ R2[k].account = R[k].account
              /\ (R[k].cleared = "reconciled" \/ R2[k].cleared = "reconciled") =>
                    R2[k].cleared = R[k].cleared /\ R2[k].amount = R[k].amount
            BY <2>2 DEF Left
        <3>3. LocksFitAt(R, R2, k) BY <2>1, <3>2, <1>2 DEF LocksFitAt, IsLocked
        <3> QED BY <3>1, <3>3
    <2>3. CASE k \notin {i, j}
        <3>1. R2[k] = [R[k] EXCEPT !.live = FALSE] /\ R[k].cleared # "reconciled"
              /\ R[k] \in RowType
            BY <2>1, <2>3, <1>1 DEF Left
        <3>2. /\ ~R2[k].live /\ R2[k].partner = R[k].partner /\ R2[k].parent = R[k].parent
              /\ R2[k].amount = R[k].amount /\ R2[k].bank = R[k].bank
            BY <3>1 DEF RowType
        <3>3. /\ {R[k].partner, R[k].parent} \subseteq DOMAIN R \cup {None}
              /\ R[k].bank # 0 /\ R[k].amount # 0
            BY <2>1, <1>1 DEF NoZeros, Formed
        <3> QED BY <2>1, <3>1, <3>2, <3>3, <1>2 DEF Sound, Within, LocksFitAt, IsLocked
    <2> QED BY <2>2, <2>3
<1>9. loose \subseteq loose OBVIOUS
<1> QED BY <1>3, <1>4, <1>8, <1>9, ChangeGood

\* Row x is absorbed by row i, neither having lines.
AbsorbedInto(R, R2, i, x, new) ==
    /\ R2 \in Seq(RowType) /\ DOMAIN R2 = DOMAIN R
    /\ R2[i] = new /\ R2[x] = [R[x] EXCEPT !.live = FALSE]
    /\ \A k \in DOMAIN R \ {i, x} : R2[k] = R[k]

(* _write_merge without lines: one row rewritten, one gone.                *)
LEMMA AbsorbedRows ==
    ASSUME NEW R \in Seq(RowType), NEW i \in DOMAIN R, NEW x \in DOMAIN R, i # x,
           Lines(R, i) = {}, Lines(R, x) = {}, Survived(i, x) \in RowType
    PROVE  AbsorbedInto(R, Absorbed(R, i, x), i, x, Survived(i, x))
<1> DEFINE new == Survived(i, x)
<1> DEFINE R2 == Absorbed(R, i, x)
<1> HIDE DEF new
<1>1. /\ DOMAIN R2 = DOMAIN R /\ R2[x] = [R[x] EXCEPT !.live = FALSE]
      /\ \A k \in DOMAIN R \ {i, x} : R2[k] = R[k]
    BY DEF Absorbed
<1>2. R2[i] = new BY DEF Absorbed, new
<1>3. R2 = [k \in DOMAIN R2 |-> R2[k]] BY DEF Absorbed
<1> HIDE DEF R2
<1>4. \A k \in DOMAIN R : R2[k] \in RowType
    <2>1. R[x] \in RowType /\ \A k \in DOMAIN R : R[k] \in RowType BY TableRows
    <2>2. R2[x] \in RowType BY <2>1, <1>1 DEF RowType
    <2> QED BY <2>1, <2>2, <1>1, <1>2 DEF new
<1>5. R2 \in Seq(RowType) BY <1>1, <1>3, <1>4, TableRows, RowsTable
<1> QED BY <1>1, <1>2, <1>5 DEF AbsorbedInto, new, R2

\* What a merge may be asked to do.
Merges(kept, lost) ==
    /\ kept \in DOMAIN rows /\ lost \in DOMAIN rows /\ kept # lost
    /\ kept \in Live(rows) /\ lost \in Live(rows)
    /\ rows[kept].parent = None /\ rows[lost].parent = None
    /\ rows[kept].account = rows[lost].account
    /\ rows[lost].cleared # "reconciled"
    /\ rows[lost].split => ~Structured(rows[kept])
    /\ Surviving(rows[kept], rows[lost], Survived(kept, lost))

(* A merge that is let through keeps one of the two rows.                  *)
LEMMA MayMergeMerges ==
    ASSUME IInv, NEW i \in DOMAIN rows, NEW j \in DOMAIN rows, NEW first \in {None, i}, NEW asked,
           NEW kept, kept = Survivor(i, j, first), NEW lost, lost = IF kept = i THEN j ELSE i,
           MayMerge(kept, lost, asked), AmountsAgree(kept, lost)
    PROVE  Merges(kept, lost) /\ {kept, lost} = {i, j}
<1>1. i \in Nat /\ j \in Nat BY Invariant
<1>2. kept \in {i, j} /\ lost \in {i, j} /\ (kept # lost /\ Reconciled(lost) => Reconciled(kept))
    BY <1>1, SurvivorOfTwo
<1>3. kept \in DOMAIN rows /\ lost \in DOMAIN rows BY <1>2
<1>4. /\ kept # lost /\ rows[kept].live /\ rows[lost].live
      /\ rows[kept].account = rows[lost].account
      /\ ~(Reconciled(kept) /\ Reconciled(lost))
      /\ rows[kept].parent = None /\ rows[lost].parent = None
      /\ ~(rows[lost].split /\ Structured(rows[kept]))
    BY DEF MayMerge
<1>5. rows[lost].cleared # "reconciled" BY <1>2, <1>4 DEF Reconciled
<1>6. Surviving(rows[kept], rows[lost], Survived(kept, lost)) BY <1>3, SurvivedRow
<1>7. {kept, lost} = {i, j} BY <1>2, <1>4
<1> QED BY <1>3, <1>4, <1>5, <1>6, <1>7 DEF Merges, Live

(* A plain row is absorbed: it goes, and the one kept is rewritten.        *)
LEMMA MergePlain ==
    ASSUME IInv, NEW kept, NEW lost, Merges(kept, lost), rows[lost].partner = None,
           ~rows[lost].split, NEW loose2, strayed \subseteq loose2,
           \/ kept \in loose2
           \/ /\ Survived(kept, lost).category = rows[kept].category
              /\ Survived(kept, lost).payee = rows[kept].payee
    PROVE  /\ Good(Absorbed(rows, kept, lost), loose2, vouched)
           /\ DOMAIN Absorbed(rows, kept, lost) = DOMAIN rows
<1> DEFINE own == rows[kept]
<1> DEFINE new == Survived(kept, lost)
<1> DEFINE R == Gone(rows, lost)
<1> DEFINE R2 == Absorbed(rows, kept, lost)
<1> DEFINE L == Lines(rows, kept)
<1> DEFINE p == own.partner
<1>1. /\ kept \in DOMAIN rows /\ lost \in DOMAIN rows /\ kept # lost
      /\ kept \in Live(rows) /\ lost \in Live(rows) /\ own.live
      /\ own.parent = None /\ rows[lost].parent = None
      /\ rows[lost].cleared # "reconciled"
      /\ Surviving(own, rows[lost], new) /\ own \in RowType /\ rows[lost] \in RowType
      /\ None \notin DOMAIN rows
    BY Invariant DEF Merges, Live
<1>2. lost \in Pairable(rows) BY <1>1 DEF Pairable, Live
<1>3. Good(R, strayed, vouched) /\ DOMAIN R = DOMAIN rows
    BY <1>1, <1>2, Invariant, GoneGood
<1>4. /\ R[lost] = [rows[lost] EXCEPT !.live = FALSE]
      /\ \A k \in DOMAIN rows \ {lost} : R[k] = rows[k]
    BY <1>1 DEF Gone
<1>5. Lines(rows, lost) = {} BY <1>1, Invariant, LinksOf
<1>6. /\ p # None => /\ p \in DOMAIN rows /\ p # kept /\ p # lost /\ rows[p] \in RowType
                     /\ rows[p].amount = -own.amount /\ rows[p].payee = own.account
                     /\ L = {} /\ ~own.split
      /\ \A j \in L : j \in DOMAIN rows /\ j # kept /\ j # lost /\ rows[j] \in RowType /\ j # p
                      /\ rows[j].parent = kept
      /\ L # {} => own.split
    <2>1. \A j \in L : rows[j].parent = kept BY DEF Lines
    <2> QED BY <2>1, <1>1, Invariant, LinksOf DEF Live
<1>7. Lines(R, kept) = L
    <2>1. ~R[lost].live BY <1>1, <1>4 DEF RowType
    <2>2. lost \notin L BY <1>6
    <2>3. \A k \in DOMAIN rows : k \in Lines(R, kept) <=> k \in L
        BY <2>1, <2>2, <1>3, <1>4 DEF Lines
    <2> QED BY <2>3, <1>3 DEF Lines
<1>8. DOMAIN R2 = DOMAIN rows /\ R2[lost] = [rows[lost] EXCEPT !.live = FALSE]
    BY <1>1, <1>5, <1>6 DEF Absorbed
<1>9. R2[kept] = new
    <2> HIDE DEF new
    <2> QED BY <1>1, <1>5, <1>6 DEF Absorbed, new
<1>10. R2 = [k \in DOMAIN R2 |-> R2[k]] BY DEF Absorbed
<1>11. ASSUME NEW k \in DOMAIN rows \ {kept, lost}, k \notin L PROVE R2[k] = rows[k]
    BY <1>5, <1>11 DEF Absorbed
<1>12. ASSUME NEW j \in L
       PROVE  R2[j] = IF own.cleared # new.cleared
                      THEN [rows[j] EXCEPT !.parent = kept, !.cleared = new.cleared]
                      ELSE rows[j]
    <2> HIDE DEF new
    <2> QED BY <1>5, <1>6, <1>12 DEF Absorbed, new
<1>13. SplitsWhole(rows, strayed) BY Invariant DEF Good
<1>14. \A j \in L : rows[j].account = own.account
    BY <1>1, <1>6, <1>13 DEF SplitsWhole, Whole
<1> HIDE DEF R, R2
<1>15. ASSUME NEW j \in L
       PROVE  /\ R2[j] \in RowType
              /\ R2[j] = [rows[j] EXCEPT !.cleared = R2[j].cleared, !.account = new.account]
              /\ \/ R2[j].cleared = new.cleared
                 \/ R2[j].cleared = rows[j].cleared /\ new.cleared = own.cleared
    <2> DEFINE c == new.cleared
    <2>1. c \in {"pending", "uncleared", "cleared", "reconciled"}
        BY <1>1 DEF Surviving, RowType
    <2>2. rows[j] \in RowType /\ new.account = rows[j].account /\ rows[j].parent = kept
        BY <1>1, <1>6, <1>14 DEF Surviving
    <2>3. R2[j] = IF own.cleared # c THEN [rows[j] EXCEPT !.parent = kept, !.cleared = c]
                  ELSE rows[j]
        BY <1>12
    <2> HIDE DEF c, new
    <2> DEFINE row == rows[j]
    <2>8. [row EXCEPT !.parent = kept, !.cleared = c] = [row EXCEPT !.cleared = c]
        <3>1. row \in RowType /\ row.parent = kept BY <2>2
        <3> HIDE DEF row
        <3> QED BY <3>1 DEF RowType
    <2>4. R2[j] = IF own.cleared # c THEN [rows[j] EXCEPT !.cleared = c] ELSE rows[j]
        BY <2>3, <2>8
    <2>5. R2[j] \in RowType BY <2>1, <2>2, <2>4 DEF RowType
    <2>7. R2[j].cleared = IF own.cleared # c THEN c ELSE rows[j].cleared
        BY <2>1, <2>2, <2>4 DEF RowType
    <2>6. R2[j] = [rows[j] EXCEPT !.cleared = R2[j].cleared, !.account = new.account]
        <3> DEFINE d == R2[j].cleared
        <3>1. R2[j] = [row EXCEPT !.cleared = d]
            <4>1. row \in RowType /\ R2[j] = IF own.cleared # c THEN [row EXCEPT !.cleared = c]
                                            ELSE row
                BY <2>2, <2>4
            <4>2. d = IF own.cleared # c THEN c ELSE row.cleared BY <2>7
            <4> HIDE DEF row, d
            <4> QED BY <4>1, <4>2 DEF RowType
        <3>2. row \in RowType /\ row.account = new.account BY <2>2
        <3> HIDE DEF row, d
        <3>3. [row EXCEPT !.cleared = d] = [row EXCEPT !.cleared = d, !.account = new.account]
            BY <3>2 DEF RowType
        <3> QED BY <3>1, <3>3 DEF row, d
    <2> QED BY <2>5, <2>6, <2>7 DEF c
<1>16. p # None => /\ R2[p] = [rows[p] EXCEPT !.amount = -new.amount, !.payee = new.account]
                   /\ R2[p] = rows[p]
    <2> SUFFICES ASSUME p # None
                 PROVE  /\ R2[p] = [rows[p] EXCEPT !.amount = -new.amount, !.payee = new.account]
                        /\ R2[p] = rows[p]
        OBVIOUS
    <2>1. R2[p] = rows[p] /\ rows[p] \in RowType BY <1>6, <1>11
    <2>2. rows[p].amount = -new.amount /\ rows[p].payee = new.account
        BY <1>1, <1>6 DEF Surviving, Structured
    <2> HIDE DEF new, p
    <2> QED BY <2>1, <2>2 DEF RowType
<1>17. Rewritten(R, R2, kept)
    <2>1. \A k \in DOMAIN rows : R2[k] \in RowType
        <3> TAKE k \in DOMAIN rows
        <3>1. CASE k = kept BY <3>1, <1>1, <1>9 DEF Surviving
        <3>2. CASE k = lost BY <3>2, <1>1, <1>8 DEF RowType
        <3>3. CASE k \in L BY <3>3, <1>15
        <3>4. CASE k \notin L \cup {kept, lost} BY <3>4, <1>11, Invariant
        <3> QED BY <3>1, <3>2, <3>3, <3>4
    <2>2. R2 \in Seq(RowType) /\ Len(R2) = Len(R)
        <3>1. Len(R) \in Nat /\ DOMAIN R = 1..Len(R) BY <1>3, FormedRows DEF Good
        <3> QED BY <2>1, <3>1, <1>3, <1>8, <1>10, RowsTable
    <2>3. /\ R2[kept].live /\ R2[kept].partner = R[kept].partner
          /\ R2[kept].parent = R[kept].parent /\ R2[kept].split = R[kept].split
        <3>1. R[kept] = own BY <1>1, <1>4
        <3>2. new.split \in BOOLEAN /\ own.split \in BOOLEAN BY <1>1 DEF Surviving, RowType
        <3> HIDE DEF new, own
        <3> QED BY <3>1, <3>2, <1>1, <1>9 DEF Surviving
    <2>4. ASSUME NEW j \in DOMAIN R \ {kept}
          PROVE  /\ j = R[kept].partner => R2[j] = [R[j] EXCEPT !.amount = -R2[kept].amount,
                                                               !.payee = R2[kept].account]
                 /\ j \in Lines(R, kept) =>
                       /\ R2[j] = [R[j] EXCEPT !.cleared = R2[j].cleared,
                                               !.account = R2[kept].account]
                       /\ \/ R2[j].cleared = R2[kept].cleared
                          \/ R2[j].cleared = R[j].cleared /\ R2[kept].cleared = R[kept].cleared
                 /\ j # R[kept].partner /\ j \notin Lines(R, kept) => R2[j] = R[j]
        <3>1. j # None /\ R[kept] = own /\ j \in DOMAIN rows BY <1>1, <1>3, <1>4
        <3>2. CASE j = lost
            <4>1. R2[j] = R[j] BY <3>2, <1>4, <1>8
            <4> QED BY <3>1, <3>2, <4>1, <1>6, <1>7
        <3>3. CASE j # lost
            <4>1. R[j] = rows[j] BY <3>1, <3>3, <1>4
            <4> HIDE DEF new, L
            <4>2. j = p => R2[j] = [R[j] EXCEPT !.amount = -R2[kept].amount,
                                                !.payee = R2[kept].account]
                <5> HIDE DEF p
                <5> QED BY <3>1, <4>1, <1>9, <1>16
            <4>3. j \in L =>
                     /\ R2[j] = [R[j] EXCEPT !.cleared = R2[j].cleared,
                                             !.account = R2[kept].account]
                     /\ \/ R2[j].cleared = R2[kept].cleared
                        \/ R2[j].cleared = R[j].cleared /\ R2[kept].cleared = own.cleared
                BY <4>1, <1>9, <1>15
            <4>4. j \notin L => R2[j] = R[j] BY <3>1, <3>3, <4>1, <1>11
            <4> HIDE DEF own
            <4> QED BY <3>1, <4>2, <4>3, <4>4, <1>7 DEF p
        <3> QED BY <3>2, <3>3
    <2> HIDE DEF new
    <2> QED BY <2>2, <2>3, <2>4 DEF Rewritten
<1>18. kept \in loose2 \/ Placed(R2, kept)
    <2>1. kept \in strayed \/ Placed(rows, kept) BY <1>1, Invariant DEF Good, FiledRight
    <2>2. /\ R2[kept].account = own.account /\ R2[kept].partner = p
        BY <1>1, <1>9 DEF Surviving
    <2> HIDE DEF new
    <2> QED BY <2>1, <2>2, <1>9, <1>16 DEF Placed, new
<1>19. own.split => ~new.category
    <2>1. own.split => ~own.category BY <1>1, <1>13 DEF SplitsWhole, Whole
    <2> QED BY <2>1, <1>1 DEF Surviving
<1>20. Good(R2, loose2, vouched)
    <2>1. R[kept] = own /\ kept \in Live(R) BY <1>1, <1>3, <1>4 DEF Live
    <2>2. /\ own.split => R2[kept].amount = own.amount /\ ~R2[kept].category
          /\ p # None => R2[kept].payee = own.payee /\ R2[kept].amount = own.amount
          /\ (own.cleared = "reconciled" \/ R2[kept].cleared = "reconciled") =>
                R2[kept].amount = own.amount /\ R2[kept].cleared = own.cleared
                /\ R2[kept].account = own.account
          /\ R2[kept].bank # 0 /\ R2[kept].amount # 0 /\ R2[kept].account = own.account
        BY <1>1, <1>9, <1>19 DEF Surviving, Structured
    <2> HIDE DEF new, own
    <2> QED BY <2>1, <2>2, <1>1, <1>3, <1>17, <1>18, RewriteGood
<1> QED BY <1>8, <1>20 DEF R2

(* A split is absorbed by a plain row, which adopts its lines.             *)
LEMMA MergeSplit ==
    ASSUME IInv, NEW kept, NEW lost, Merges(kept, lost), rows[lost].split,
           NEW loose2, strayed \subseteq loose2
    PROVE  /\ Good(Absorbed(rows, kept, lost), loose2, vouched)
           /\ DOMAIN Absorbed(rows, kept, lost) = DOMAIN rows
<1> DEFINE own == rows[kept]
<1> DEFINE other == rows[lost]
<1> DEFINE new == Survived(kept, lost)
<1> DEFINE R2 == Absorbed(rows, kept, lost)
<1> DEFINE L == Lines(rows, lost)
<1> DEFINE C == {kept, lost} \cup L
<1>1. /\ kept \in DOMAIN rows /\ lost \in DOMAIN rows /\ kept # lost
      /\ kept \in Live(rows) /\ lost \in Live(rows) /\ own.live /\ other.live
      /\ own.parent = None /\ other.parent = None /\ own.account = other.account
      /\ other.cleared # "reconciled" /\ own.partner = None /\ ~own.split /\ other.split
      /\ Surviving(own, other, new) /\ own \in RowType /\ other \in RowType
      /\ None \notin DOMAIN rows /\ Good(rows, strayed, vouched)
    BY Invariant DEF Merges, Live, Structured
<1>2. other.partner = None /\ Lines(rows, kept) = {} BY <1>1, LinksOf
<1>3. /\ L # {} /\ Total(rows, L) = other.amount
      /\ \A j \in L : rows[j].account = other.account
    BY <1>1 DEF Good, SplitsWhole, Whole
<1>4. \A j \in L : /\ j \in DOMAIN rows /\ j \in Live(rows) /\ j # kept /\ j # lost
                   /\ rows[j].live /\ rows[j].parent = lost /\ rows[j].partner = None
                   /\ ~rows[j].split /\ rows[j] \in RowType /\ Lines(rows, j) = {}
    <2> TAKE j \in L
    <2>1. j \in DOMAIN rows /\ rows[j].live /\ rows[j].parent = lost BY DEF Lines
    <2>2. j \in Live(rows) /\ lost # None BY <2>1, <1>1 DEF Live
    <2>3. rows[j] \in RowType /\ ~rows[j].split /\ rows[j].partner = None /\ Lines(rows, j) = {}
        BY <2>1, <2>2, <1>1, LinksOf
    <2> QED BY <2>1, <2>2, <2>3, <1>1
<1>18. kept \notin L /\ lost \notin L BY <1>4
<1>5. DOMAIN R2 = DOMAIN rows /\ R2[lost] = [other EXCEPT !.live = FALSE]
    BY <1>1, <1>2, <1>18 DEF Absorbed
<1>6. R2[kept] = new
    <2> HIDE DEF new
    <2> QED BY <1>1, <1>2, <1>18 DEF Absorbed, new
<1>7. R2 = [k \in DOMAIN R2 |-> R2[k]] BY DEF Absorbed
<1>8. ASSUME NEW k \in DOMAIN rows \ C PROVE R2[k] = rows[k]
    BY <1>2, <1>8 DEF Absorbed
<1>9. ASSUME NEW j \in L
      PROVE  R2[j] = [rows[j] EXCEPT !.parent = kept, !.cleared = new.cleared]
    <2> HIDE DEF new
    <2> QED BY <1>4, <1>9 DEF Absorbed, new
<1> HIDE DEF R2
<1>10. /\ new \in RowType /\ new.live /\ new.parent = None /\ new.account = own.account
       /\ new.partner = None /\ new.split /\ ~new.category /\ new.amount = other.amount
       /\ new.amount # 0 /\ new.bank # 0
       /\ own.cleared = "reconciled" => new.amount = own.amount
       /\ own.cleared = "reconciled" \/ new.cleared = "reconciled" => new.cleared = own.cleared
    <2>1. new.split \in BOOLEAN /\ new.category \in BOOLEAN BY <1>1 DEF Surviving, RowType
    <2> HIDE DEF new, own, other
    <2> QED BY <2>1, <1>1 DEF Surviving
<1> HIDE DEF new
<1>11. ASSUME NEW j \in L
       PROVE  /\ R2[j] \in RowType /\ R2[j].parent = kept /\ R2[j].cleared = new.cleared
              /\ R2[j].live /\ R2[j].partner = None /\ ~R2[j].split
              /\ R2[j].amount = rows[j].amount /\ R2[j].account = rows[j].account
              /\ R2[j].category = rows[j].category /\ R2[j].payee = rows[j].payee
              /\ R2[j].bank = rows[j].bank
    <2> DEFINE row == rows[j]
    <2> DEFINE c == new.cleared
    <2>1. /\ row \in RowType /\ row.live /\ row.partner = None /\ ~row.split
          /\ c \in {"pending", "uncleared", "cleared", "reconciled"}
          /\ kept \in Nat /\ R2[j] = [row EXCEPT !.parent = kept, !.cleared = c]
        <3>1. c \in {"pending", "uncleared", "cleared", "reconciled"}
            BY <1>10 DEF RowType
        <3>2. kept \in Nat BY <1>1, Invariant
        <3> QED BY <3>1, <3>2, <1>4, <1>9
    <2> HIDE DEF row, c
    <2> DEFINE line == R2[j]
    <2>2. line = [row EXCEPT !.parent = kept, !.cleared = c] BY <2>1
    <2> HIDE DEF line
    <2>3. line \in RowType BY <2>1, <2>2 DEF RowType
    <2>4. /\ line.parent = kept /\ line.cleared = c /\ line.live = row.live
          /\ line.partner = row.partner /\ line.split = row.split
        BY <2>1, <2>2 DEF RowType
    <2>5. /\ line.amount = row.amount /\ line.account = row.account
          /\ line.category = row.category /\ line.payee = row.payee /\ line.bank = row.bank
        BY <2>1, <2>2 DEF RowType
    <2> QED BY <2>1, <2>3, <2>4, <2>5 DEF line, row, c
<1>12. /\ R2[lost] \in RowType /\ ~R2[lost].live /\ R2[lost].partner = None
       /\ R2[lost].parent = None /\ R2[lost].amount = other.amount /\ R2[lost].bank = other.bank
    <2> HIDE DEF other
    <2> QED BY <1>1, <1>2, <1>5 DEF RowType
<1>13. Changed(rows, R2, C)
    <2>1. \A k \in DOMAIN rows : R2[k] \in RowType
        <3> TAKE k \in DOMAIN rows
        <3> QED BY <1>6, <1>8, <1>10, <1>11, <1>12, Invariant
    <2>2. R2 \in Seq(RowType) /\ Len(R2) = Len(rows)
        BY <2>1, <1>5, <1>7, Invariant, RowsTable
    <2>3. Len(rows) \in Nat BY Invariant
    <2> HIDE DEF C
    <2> QED BY <2>2, <2>3, <1>5, <1>8 DEF Changed
<1>14. Apart(rows, C)
    <2> SUFFICES ASSUME NEW k \in C \cap Live(rows)
                 PROVE  Within(rows, k, C) /\ Lines(rows, k) \subseteq C
        BY DEF Apart
    <2> QED BY <1>1, <1>2, <1>4 DEF Within
<1>15. Lines(R2, kept) = L
    <2> SUFFICES ASSUME NEW k \in DOMAIN rows PROVE k \in Lines(R2, kept) <=> k \in L
        <3>1. Lines(R2, kept) \subseteq DOMAIN rows BY <1>5 DEF Lines
        <3> QED BY <3>1, <1>4
    <2>1. CASE k \in L BY <2>1, <1>5, <1>11 DEF Lines
    <2>2. CASE k \in {kept, lost}
        BY <2>2, <1>1, <1>4, <1>6, <1>10, <1>12 DEF Lines
    <2>3. CASE k \notin C
        <3>1. R2[k] = rows[k] BY <2>3, <1>8
        <3>2. k \notin Lines(rows, kept) BY <1>2
        <3> QED BY <3>1, <3>2, <2>3, <1>5 DEF Lines
    <2> QED BY <2>1, <2>2, <2>3
<1>16. Whole(R2, kept, loose2)
    <2>1. Total(R2, L) = Total(rows, L)
        <3>1. Priced(rows) /\ DOMAIN rows = 1..Len(rows) BY Invariant, FormedRows
        <3>2. Priced(R2) /\ Len(rows) <= Len(R2) BY <1>13, TableRows DEF Changed
        <3>3. \A j \in L : R2[j].amount = rows[j].amount BY <1>11
        <3>4. L \in SUBSET (1..Len(rows)) BY <3>1, <1>4
        <3> HIDE DEF L
        <3> QED BY <3>1, <3>2, <3>3, <3>4, SameLines
    <2>2. \A j \in L : R2[j].account = R2[kept].account /\ R2[j].cleared = R2[kept].cleared
        BY <1>1, <1>3, <1>6, <1>10, <1>11
    <2> HIDE DEF L
    <2> QED BY <2>1, <2>2, <1>3, <1>6, <1>10, <1>15 DEF Whole
<1>17. ASSUME NEW k \in C
       PROVE  Sound(R2, k, loose2) /\ Within(R2, k, C) /\ LocksFitAt(rows, R2, k)
    <2>1. CASE k = kept
        <3>1. Sound(R2, kept, loose2)
            BY <1>6, <1>10, <1>16 DEF Sound, Placed
        <3>2. Within(R2, kept, C) BY <1>6, <1>10 DEF Within
        <3>3. LocksFitAt(rows, R2, kept)
            BY <1>1, <1>5, <1>6, <1>10 DEF LocksFitAt, IsLocked
        <3> QED BY <2>1, <3>1, <3>2, <3>3
    <2>2. CASE k = lost
        <3>1. Sound(R2, lost, loose2)
            <4>1. other.bank # 0 /\ other.amount # 0 BY <1>1 DEF Good, NoZeros
            <4> QED BY <4>1, <1>12 DEF Sound
        <3>2. Within(R2, lost, C) BY <1>12 DEF Within
        <3>3. LocksFitAt(rows, R2, lost)
            BY <1>1, <1>12 DEF LocksFitAt, IsLocked
        <3> QED BY <2>2, <3>1, <3>2, <3>3
    <2>3. CASE k \in L
        <3>1. Sound(R2, k, loose2)
            <4>1. k \in loose2 \/ Placed(R2, k)
                <5>1. k \in strayed \/ Placed(rows, k)
                    BY <2>3, <1>1, <1>4 DEF Good, FiledRight
                <5> QED BY <5>1, <2>3, <1>4, <1>11 DEF Placed
            <4>2. rows[k].bank # 0 BY <2>3, <1>1, <1>4 DEF Good, NoZeros
            <4>3. kept # None BY <1>1
            <4> QED BY <4>1, <4>2, <4>3, <2>3, <1>1, <1>5, <1>6, <1>10, <1>11 DEF Sound, Structured
        <3>2. Within(R2, k, C) BY <2>3, <1>11 DEF Within
        <3>3. LocksFitAt(rows, R2, k)
            <4>1. kept # None /\ lost # None BY <1>1
            <4> QED BY <4>1, <2>3, <1>4, <1>11 DEF LocksFitAt, IsLocked
        <3> QED BY <3>1, <3>2, <3>3
    <2> QED BY <2>1, <2>2, <2>3
<1> HIDE DEF C
<1>19. Good(R2, loose2, vouched) BY <1>1, <1>13, <1>14, <1>17, ChangeGood
<1> QED BY <1>5, <1>19 DEF R2

\* Of the live rows of C two are left, fit to be linked; the others go.
Fit(R, M, i, j, C) ==
    /\ M \in Seq(RowType) /\ DOMAIN M = DOMAIN R
    /\ \A k \in DOMAIN R \ C : M[k] = R[k]
    /\ \A k \in {i, j} :
          /\ M[k].live /\ ~M[k].split /\ M[k].parent = None /\ M[k].account = R[k].account
          /\ (R[k].cleared = "reconciled" \/ M[k].cleared = "reconciled") =>
                M[k].cleared = R[k].cleared /\ M[k].amount = R[k].amount
          /\ M[k].bank # 0 /\ M[k].amount # 0
    /\ M[j].amount = -M[i].amount
    /\ \A k \in C \ {i, j} : R[k].cleared # "reconciled" /\ M[k] = [R[k] EXCEPT !.live = FALSE]

(* Linked, the two are the legs of one transfer.                           *)
LEMMA FitLeft ==
    ASSUME NEW R \in Seq(RowType), NEW i \in DOMAIN R, NEW j \in DOMAIN R, i # j,
           NEW C \in SUBSET (DOMAIN R), i \in C, j \in C, NEW M, Fit(R, M, i, j, C), NEW loose
    PROVE  Left(R, LinkLegs(M, <<i, j>>), i, j, C, loose)
<1> DEFINE pair == <<i, j>>
<1> DEFINE R2 == LinkLegs(M, pair)
<1>1. M \in Seq(RowType) /\ DOMAIN M = DOMAIN R BY DEF Fit
<1>2. /\ Linked(M, pair, i, j) /\ Linked(M, pair, j, i) /\ DOMAIN R2 = DOMAIN R
      /\ \A k \in DOMAIN R \ {i, j} : R2[k] = M[k]
    <2>1. pair \in {<<i, j>>, <<j, i>>} /\ pair \in {<<j, i>>, <<i, j>>} OBVIOUS
    <2> HIDE DEF pair
    <2>2. /\ Linked(M, pair, i, j) /\ DOMAIN LinkLegs(M, pair) = DOMAIN M
          /\ \A k \in DOMAIN M \ {i, j} : LinkLegs(M, pair)[k] = M[k]
        <3>1. i \in DOMAIN M /\ j \in DOMAIN M BY <1>1
        <3>2. Linked(M, pair, i, j) BY <3>1, <2>1, <1>1, LinkedLegs
        <3>3. DOMAIN LinkLegs(M, pair) = DOMAIN M BY DEF LinkLegs, Uncategorized, Joined
        <3>4. \A k \in DOMAIN M \ {i, j} : LinkLegs(M, pair)[k] = M[k]
            BY <3>1, <2>1, <1>1, LinkedLegs
        <3> QED BY <3>2, <3>3, <3>4
    <2>3. Linked(M, pair, j, i) BY <2>1, <1>1, LinkedLegs
    <2> QED BY <2>2, <2>3, <1>1
<1> HIDE DEF pair
<1> DEFINE X == Forbidden(M, pair[1], pair[2])
<1> HIDE DEF X
<1>3. ASSUME NEW k \in DOMAIN M, NEW o \in DOMAIN M, Linked(M, pair, k, o)
      PROVE  /\ R2[k] \in RowType
             /\ R2[k].live = M[k].live /\ R2[k].split = M[k].split
             /\ R2[k].parent = M[k].parent /\ R2[k].account = M[k].account
             /\ R2[k].cleared = M[k].cleared /\ R2[k].amount = M[k].amount
             /\ R2[k].bank = M[k].bank /\ R2[k].partner = o /\ R2[k].payee = M[o].account
             /\ R2[k].category => MayCarry(M[k].account, M[o].account)
    <2>1. /\ R2[k] = [M[k] EXCEPT !.partner = o, !.payee = M[o].account,
                                  !.category = @ /\ k \notin X]
          /\ k \in X <=> M[k].category /\ ~MayCarry(M[k].account, M[o].account)
        BY <1>3 DEF Linked, X
    <2> DEFINE row == M[k]
    <2> DEFINE a == M[o].account
    <2> DEFINE new == R2[k]
    <2>2. /\ row \in RowType /\ a \in Accounts /\ o \in Nat
        <3>1. M[o] \in RowType /\ M[k] \in RowType BY <1>1, TableRows
        <3>2. o \in Nat BY <1>1, TableRows
        <3> QED BY <3>1, <3>2 DEF RowType
    <2>3. /\ new = [row EXCEPT !.partner = o, !.payee = a, !.category = @ /\ k \notin X]
          /\ k \in X <=> row.category /\ ~MayCarry(row.account, a)
        BY <2>1
    <2> HIDE DEF row, a, new
    <2>4. /\ new \in RowType
          /\ new.live = row.live /\ new.split = row.split
          /\ new.parent = row.parent /\ new.account = row.account
          /\ new.cleared = row.cleared /\ new.amount = row.amount
          /\ new.bank = row.bank /\ new.partner = o /\ new.payee = a
        BY <2>2, <2>3 DEF RowType
    <2>5. new.category => row.category /\ k \notin X
        BY <2>2, <2>3 DEF RowType
    <2>6. new.category => MayCarry(row.account, a) BY <2>3, <2>5
    <2> QED BY <2>4, <2>6 DEF row, a, new
<1>4. R2 \in Seq(RowType)
    <2>1. R2 = [k \in DOMAIN R2 |-> R2[k]] BY DEF LinkLegs, Uncategorized
    <2>2. \A k \in DOMAIN R : R2[k] \in RowType
        <3> TAKE k \in DOMAIN R
        <3>1. CASE k = i BY <3>1, <1>1, <1>2, <1>3
        <3>2. CASE k = j BY <3>2, <1>1, <1>2, <1>3
        <3>3. CASE k \notin {i, j} BY <3>3, <1>1, <1>2, TableRows
        <3> QED BY <3>1, <3>2, <3>3
    <2>3. Len(R) \in Nat /\ DOMAIN R = 1..Len(R) BY TableRows
    <2> HIDE DEF R2
    <2> QED BY <2>1, <2>2, <2>3, <1>2, RowsTable
<1> HIDE DEF R2
<1>5. \A k \in DOMAIN R \ C : R2[k] = R[k] BY <1>2 DEF Fit
<1>6. \A k \in C \ {i, j} : R[k].cleared # "reconciled" /\ R2[k] = [R[k] EXCEPT !.live = FALSE]
    BY <1>2 DEF Fit
<1>7. ASSUME NEW k \in {i, j}
      PROVE  /\ R2[k].live /\ ~R2[k].split /\ R2[k].parent = None /\ R2[k].account = R[k].account
             /\ (R[k].cleared = "reconciled" \/ R2[k].cleared = "reconciled") =>
                   R2[k].cleared = R[k].cleared /\ R2[k].amount = R[k].amount
             /\ R2[k].bank # 0 /\ R2[k].amount # 0
             /\ R2[k].account = M[k].account /\ R2[k].amount = M[k].amount
    <2>1. /\ R2[k].live = M[k].live /\ R2[k].split = M[k].split
          /\ R2[k].parent = M[k].parent /\ R2[k].account = M[k].account
          /\ R2[k].cleared = M[k].cleared /\ R2[k].amount = M[k].amount
          /\ R2[k].bank = M[k].bank
        BY <1>1, <1>2, <1>3
    <2>2. /\ M[k].live /\ ~M[k].split /\ M[k].parent = None /\ M[k].account = R[k].account
          /\ (R[k].cleared = "reconciled" \/ M[k].cleared = "reconciled") =>
                M[k].cleared = R[k].cleared /\ M[k].amount = R[k].amount
          /\ M[k].bank # 0 /\ M[k].amount # 0
        BY DEF Fit
    <2> QED BY <2>1, <2>2
<1>8. /\ R2[i].partner = j /\ R2[i].payee = M[j].account
      /\ R2[i].category => MayCarry(M[i].account, M[j].account)
      /\ R2[j].partner = i /\ R2[j].payee = M[i].account
      /\ R2[j].category => MayCarry(M[j].account, M[i].account)
    BY <1>1, <1>2, <1>3
<1>9. M[j].amount = -M[i].amount BY DEF Fit
<1>10. /\ R2[i].account = M[i].account /\ R2[j].account = M[j].account
       /\ R2[j].amount = -R2[i].amount
    BY <1>7, <1>9
<1> QED BY <1>2, <1>4, <1>5, <1>6, <1>7, <1>8, <1>10 DEF Left, R2, pair

(* The row kept adopts the transfer of the row it absorbs.                 *)
LEMMA MergeAdopts ==
    ASSUME IInv, NEW kept, NEW lost, Merges(kept, lost),
           rows[lost].partner # None, rows[kept].partner = None, ~rows[kept].split,
           Survived(kept, lost).amount = -rows[rows[lost].partner].amount
    PROVE  LET R2 == Relinked(Absorbed(rows, kept, lost), kept, rows[lost].partner)
           IN  Good(R2, strayed, vouched) /\ DOMAIN R2 = DOMAIN rows
<1> DEFINE T == rows[lost].partner
<1> DEFINE new == Survived(kept, lost)
<1> DEFINE M == Absorbed(rows, kept, lost)
<1> DEFINE C == {kept, lost, T}
<1>1. /\ kept \in DOMAIN rows /\ lost \in DOMAIN rows /\ kept # lost
      /\ kept \in Live(rows) /\ lost \in Live(rows)
      /\ rows[kept].parent = None /\ rows[lost].parent = None
      /\ rows[lost].cleared # "reconciled"
      /\ Surviving(rows[kept], rows[lost], new)
      /\ rows[kept] \in RowType /\ rows \in Seq(RowType)
      /\ None \notin DOMAIN rows /\ Good(rows, strayed, vouched)
    BY Invariant DEF Merges
<1>2. /\ T \in Live(rows) /\ T # lost /\ rows[T].partner = lost /\ rows[T].parent = None
      /\ ~rows[T].split /\ ~rows[lost].split /\ Lines(rows, lost) = {} /\ Lines(rows, kept) = {}
    BY <1>1, LinksOf
<1>3. T # kept /\ T \in DOMAIN rows /\ rows[T].live BY <1>1, <1>2 DEF Live
<1>4. /\ new \in RowType /\ new.live /\ new.parent = None /\ new.account = rows[kept].account
      /\ new.partner = None /\ ~new.split /\ new.amount # 0 /\ new.bank # 0
      /\ rows[kept].cleared = "reconciled" => new.amount = rows[kept].amount
      /\ rows[kept].cleared = "reconciled" \/ new.cleared = "reconciled" =>
            new.cleared = rows[kept].cleared
    <2> HIDE DEF new
    <2> QED BY <1>1, <1>2 DEF Surviving
<1>5. AbsorbedInto(rows, M, kept, lost, new)
    BY <1>1, <1>2, <1>4, AbsorbedRows
<1> HIDE DEF M, new
<1>6. M[T] = rows[T] /\ M[kept] = new BY <1>2, <1>3, <1>5 DEF AbsorbedInto
<1>7. Fit(rows, M, kept, T, C)
    <2>1. rows[T].amount # 0 /\ rows[T].bank # 0 BY <1>1, <1>2, <1>3 DEF Good, NoZeros
    <2>2. /\ M \in Seq(RowType) /\ DOMAIN M = DOMAIN rows
          /\ \A k \in DOMAIN rows \ C : M[k] = rows[k]
          /\ M[lost] = [rows[lost] EXCEPT !.live = FALSE]
        BY <1>5 DEF AbsorbedInto
    <2>3. rows[T] \in RowType /\ new.amount \in Int /\ rows[T].amount \in Int
        BY <1>3, <1>4, Invariant DEF RowType
    <2>4. rows[T].amount = -new.amount
        <3>1. new.amount = -rows[T].amount BY DEF new
        <3> HIDE DEF T
        <3> QED BY <3>1, <2>3
    <2>5. \A k \in C \ {kept, T} : rows[k].cleared # "reconciled"
                                   /\ M[k] = [rows[k] EXCEPT !.live = FALSE]
        BY <2>2, <1>1
    <2> DEFINE Keeps(k) ==
          /\ M[k].live /\ ~M[k].split /\ M[k].parent = None /\ M[k].account = rows[k].account
          /\ (rows[k].cleared = "reconciled" \/ M[k].cleared = "reconciled") =>
                M[k].cleared = rows[k].cleared /\ M[k].amount = rows[k].amount
          /\ M[k].bank # 0 /\ M[k].amount # 0
    <2>6. Keeps(kept)
        BY <1>4, <1>6
    <2>7. Keeps(T) BY <2>1, <1>2, <1>3, <1>6
    <2>8. M[T].amount = -M[kept].amount BY <2>4, <1>6
    <2> HIDE DEF T, C
    <2> QED BY <2>2, <2>5, <2>6, <2>7, <2>8 DEF Fit
<1>8. Relinked(M, kept, T) = LinkLegs(M, <<kept, T>>)
    BY <1>1, <1>3, <1>4, <1>6 DEF Relinked
<1>9. C \in SUBSET Live(rows) /\ C \in SUBSET (DOMAIN rows) /\ kept \in C /\ T \in C
    BY <1>1, <1>2 DEF Live
<1>10. \A k \in C : rows[k].parent = None /\ ~rows[k].split /\ rows[k].partner \in C \cup {None}
    BY <1>1, <1>2
<1> HIDE DEF C, T
<1>11. Left(rows, LinkLegs(M, <<kept, T>>), kept, T, C, strayed)
    BY <1>1, <1>3, <1>7, <1>9, FitLeft
<1> DEFINE R2 == LinkLegs(M, <<kept, T>>)
<1>12. Left(rows, R2, kept, T, C, strayed) BY <1>11
<1> HIDE DEF R2
<1>13. Good(R2, strayed, vouched) BY <1>1, <1>3, <1>9, <1>10, <1>12, LeftGood
<1>14. DOMAIN R2 = DOMAIN rows BY <1>12 DEF Left
<1> QED BY <1>8, <1>13, <1>14 DEF R2, M, T

(* Two transfers are merged, each leg with its opposite number.            *)
LEMMA MergeTransfers ==
    ASSUME IInv, NEW kept, NEW lost, Merges(kept, lost),
           NEW ours, ours = rows[kept].partner, NEW theirs, theirs = rows[lost].partner,
           ours # None, theirs # None, rows[ours].amount = rows[theirs].amount,
           NEW farKept, farKept = Survivor(ours, theirs, None),
           NEW farLost, farLost = IF farKept = ours THEN theirs ELSE ours,
           MayMerge(farKept, farLost, None), AmountsAgree(farKept, farLost)
    PROVE  LET R2 == Relinked(Absorbed(Absorbed(rows, kept, lost), farKept, farLost), kept, farKept)
           IN  Good(R2, strayed, vouched) /\ DOMAIN R2 = DOMAIN rows
<1> DEFINE new == Survived(kept, lost)
<1> DEFINE far == Survived(farKept, farLost)
<1> DEFINE M == Absorbed(rows, kept, lost)
<1> DEFINE M2 == Absorbed(M, farKept, farLost)
<1> DEFINE C == {kept, lost, ours, theirs}
<1>1. /\ kept \in DOMAIN rows /\ lost \in DOMAIN rows /\ kept # lost
      /\ kept \in Live(rows) /\ lost \in Live(rows)
      /\ rows[kept].parent = None /\ rows[lost].parent = None
      /\ rows[lost].cleared # "reconciled"
      /\ Surviving(rows[kept], rows[lost], new)
      /\ rows \in Seq(RowType) /\ None \notin DOMAIN rows /\ Good(rows, strayed, vouched)
    BY Invariant DEF Merges
<1>2. /\ ours \in Live(rows) /\ ours # kept /\ rows[ours].partner = kept
      /\ rows[ours].parent = None /\ ~rows[ours].split /\ ~rows[kept].split
      /\ rows[ours].amount = -rows[kept].amount
      /\ rows[kept].payee = rows[ours].account /\ rows[ours].payee = rows[kept].account
      /\ Lines(rows, kept) = {} /\ Lines(rows, ours) = {}
    BY <1>1, LinksOf
<1>3. /\ theirs \in Live(rows) /\ theirs # lost /\ rows[theirs].partner = lost
      /\ rows[theirs].parent = None /\ ~rows[theirs].split /\ ~rows[lost].split
      /\ rows[theirs].amount = -rows[lost].amount
      /\ Lines(rows, lost) = {} /\ Lines(rows, theirs) = {}
    BY <1>1, LinksOf
<1>4. /\ ours \in DOMAIN rows /\ theirs \in DOMAIN rows
      /\ rows[kept] \in RowType /\ rows[lost] \in RowType
      /\ rows[ours] \in RowType /\ rows[theirs] \in RowType
    BY <1>1, <1>2, <1>3, Invariant DEF Live
<1>5. ours # theirs BY <1>1, <1>2, <1>3
<1>6. ours # lost
    <2> SUFFICES ASSUME ours = lost PROVE FALSE OBVIOUS
    <2>1. theirs = kept BY <1>2
    <2>2. rows[lost].amount = rows[kept].amount /\ rows[lost].amount = -rows[kept].amount
        BY <2>1, <1>2
    <2>3. rows[kept].amount \in Int BY <1>4 DEF RowType
    <2>4. rows[kept].amount # 0 BY <1>1 DEF Good, NoZeros
    <2> QED BY <2>2, <2>3, <2>4
<1>7. theirs # kept BY <1>3, <1>6
<1>8. Merges(farKept, farLost) /\ {farKept, farLost} = {ours, theirs}
    BY <1>4, MayMergeMerges
<1>9. /\ farKept \in {ours, theirs} /\ farLost \in {ours, theirs} /\ farKept # farLost
      /\ farKept \in DOMAIN rows /\ farLost \in DOMAIN rows
      /\ rows[farLost].cleared # "reconciled"
      /\ Surviving(rows[farKept], rows[farLost], far)
      /\ farKept \notin {kept, lost} /\ farLost \notin {kept, lost}
    BY <1>2, <1>3, <1>6, <1>7, <1>8 DEF Merges
<1>10. /\ new \in RowType /\ new.live /\ new.parent = None /\ new.account = rows[kept].account
       /\ new.partner = ours /\ ~new.split /\ new.amount = rows[kept].amount
       /\ new.amount # 0 /\ new.bank # 0 /\ new.payee = rows[ours].account
       /\ new.category => rows[kept].category
       /\ rows[kept].cleared = "reconciled" \/ new.cleared = "reconciled" =>
             new.cleared = rows[kept].cleared
    <2> HIDE DEF new
    <2> QED BY <1>1, <1>2, <1>3 DEF Surviving, Structured
<1>11. /\ far \in RowType /\ far.live /\ far.parent = None /\ far.account = rows[farKept].account
       /\ far.partner = rows[farKept].partner /\ ~far.split /\ far.amount = rows[farKept].amount
       /\ far.amount # 0 /\ far.bank # 0 /\ far.payee = rows[farKept].payee
       /\ far.category => rows[farKept].category
       /\ rows[farKept].cleared = "reconciled" \/ far.cleared = "reconciled" =>
             far.cleared = rows[farKept].cleared
    <2> HIDE DEF far
    <2>1. rows[farKept].partner # None /\ ~rows[farKept].split /\ ~rows[farLost].split
        BY <1>1, <1>2, <1>3, <1>9
    <2> QED BY <2>1, <1>9 DEF Surviving, Structured
<1>12. AbsorbedInto(rows, M, kept, lost, new) BY <1>1, <1>2, <1>3, <1>10, AbsorbedRows
<1> HIDE DEF M, new
<1>13. /\ M \in Seq(RowType) /\ DOMAIN M = DOMAIN rows
       /\ M[kept] = new /\ M[lost] = [rows[lost] EXCEPT !.live = FALSE]
       /\ \A k \in DOMAIN rows \ {kept, lost} : M[k] = rows[k]
    BY <1>12 DEF AbsorbedInto
<1>14. ASSUME NEW x \in {farKept, farLost} PROVE Lines(M, x) = {}
    <2>1. Lines(rows, x) = {} /\ x # None BY <1>1, <1>2, <1>3, <1>9
    <2>2. ~M[lost].live BY <1>4, <1>13 DEF RowType
    <2> SUFFICES ASSUME NEW k \in Lines(M, x) PROVE FALSE OBVIOUS
    <2>3. k \in DOMAIN rows /\ M[k].live /\ M[k].parent = x BY <1>13 DEF Lines
    <2>4. k # kept BY <2>1, <2>3, <1>10, <1>13
    <2>5. k # lost BY <2>2, <2>3
    <2>6. M[k] = rows[k] BY <2>3, <2>4, <2>5, <1>13
    <2>7. k \in Lines(rows, x) BY <2>3, <2>6 DEF Lines
    <2> QED BY <2>1, <2>7
<1>15. AbsorbedInto(M, M2, farKept, farLost, far)
    BY <1>9, <1>11, <1>13, <1>14, AbsorbedRows
<1> HIDE DEF M2, far
<1>16. /\ M2 \in Seq(RowType) /\ DOMAIN M2 = DOMAIN rows
       /\ M2[kept] = new /\ M2[lost] = [rows[lost] EXCEPT !.live = FALSE]
       /\ M2[farKept] = far /\ M2[farLost] = [rows[farLost] EXCEPT !.live = FALSE]
       /\ \A k \in DOMAIN rows \ C : M2[k] = rows[k]
    <2>1. /\ M2 \in Seq(RowType) /\ DOMAIN M2 = DOMAIN M
          /\ M2[farKept] = far /\ M2[farLost] = [M[farLost] EXCEPT !.live = FALSE]
          /\ \A k \in DOMAIN M \ {farKept, farLost} : M2[k] = M[k]
        BY <1>15 DEF AbsorbedInto
    <2>2. M[farLost] = rows[farLost] BY <1>9, <1>13
    <2>3. M2[kept] = M[kept] /\ M2[lost] = M[lost] BY <2>1, <1>1, <1>9, <1>13
    <2>4. \A k \in DOMAIN rows \ C : M2[k] = rows[k] BY <2>1, <1>9, <1>13
    <2> HIDE DEF C
    <2> QED BY <2>1, <2>2, <2>3, <2>4, <1>13
<1>17. rows[farKept].amount = -rows[kept].amount BY <1>2, <1>9
<1>18. Fit(rows, M2, kept, farKept, C)
    <2>1. \A k \in C \ {kept, farKept} : rows[k].cleared # "reconciled"
                                         /\ M2[k] = [rows[k] EXCEPT !.live = FALSE]
        <3>1. C \ {kept, farKept} = {lost, farLost} BY <1>1, <1>5, <1>6, <1>7, <1>8, <1>9
        <3> HIDE DEF C
        <3> QED BY <3>1, <1>1, <1>9, <1>16
    <2> DEFINE Keeps(k) ==
          /\ M2[k].live /\ ~M2[k].split /\ M2[k].parent = None /\ M2[k].account = rows[k].account
          /\ (rows[k].cleared = "reconciled" \/ M2[k].cleared = "reconciled") =>
                M2[k].cleared = rows[k].cleared /\ M2[k].amount = rows[k].amount
          /\ M2[k].bank # 0 /\ M2[k].amount # 0
    <2>2. Keeps(kept) BY <1>10, <1>16
    <2>3. Keeps(farKept) BY <1>11, <1>16
    <2>4. M2[farKept].amount = -M2[kept].amount BY <1>10, <1>11, <1>16, <1>17
    <2> HIDE DEF C
    <2> QED BY <2>1, <2>2, <2>3, <2>4, <1>16 DEF Fit
<1>19. C \in SUBSET Live(rows) /\ C \in SUBSET (DOMAIN rows) /\ kept \in C /\ farKept \in C
    BY <1>1, <1>2, <1>3, <1>9 DEF Live
<1>20. \A k \in C : rows[k].parent = None /\ ~rows[k].split /\ rows[k].partner \in C \cup {None}
    BY <1>1, <1>2, <1>3
<1> HIDE DEF C
<1> DEFINE R2 == Relinked(M2, kept, farKept)
<1>21. Left(rows, R2, kept, farKept, C, strayed)
    <2>1. CASE farKept = theirs
        <3>1. R2 = LinkLegs(M2, <<kept, farKept>>) BY <2>1, <1>5, <1>10, <1>16 DEF Relinked
        <3>2. kept # farKept BY <1>9
        <3> HIDE DEF R2
        <3> QED BY <3>1, <3>2, <1>1, <1>9, <1>18, <1>19, FitLeft
    <2>2. CASE farKept = ours
        <3>1. R2 = M2 BY <2>2, <1>10, <1>16 DEF Relinked
        <3>2. /\ M2[kept].partner = ours /\ M2[ours].partner = kept
              /\ M2[kept].payee = M2[ours].account /\ M2[ours].payee = M2[kept].account
              /\ M2[kept].account = rows[kept].account /\ M2[ours].account = rows[ours].account
            BY <2>2, <1>2, <1>10, <1>11, <1>16
        <3>3. kept \in strayed \/ (M2[kept].category => MayCarry(M2[kept].account, M2[ours].account))
            <4>1. kept \in strayed \/ Placed(rows, kept) BY <1>1 DEF Good, FiledRight
            <4> QED BY <4>1, <3>2, <1>10, <1>16 DEF Placed
        <3>4. ours \in strayed \/ (M2[ours].category => MayCarry(M2[ours].account, M2[kept].account))
            <4>1. ours \in strayed \/ Placed(rows, ours) BY <1>1, <1>2 DEF Good, FiledRight
            <4>2. M2[ours].category => rows[ours].category BY <2>2, <1>11, <1>16
            <4>3. kept # None BY <1>1
            <4> QED BY <4>1, <4>2, <4>3, <3>2, <1>2 DEF Placed
        <3> HIDE DEF R2
        <3> QED BY <3>1, <3>2, <3>3, <3>4, <2>2, <1>18 DEF Left, Fit
    <2> QED BY <2>1, <2>2, <1>9
<1> HIDE DEF R2
<1>22. Good(R2, strayed, vouched) BY <1>1, <1>9, <1>19, <1>20, <1>21, LeftGood
<1>23. DOMAIN R2 = DOMAIN rows BY <1>21 DEF Left
<1> QED BY <1>22, <1>23 DEF R2, M2, M

(* Two rows are merged, with their lines and their other legs.             *)
LEMMA MergeKeeps ==
    ASSUME IInv, NEW i \in DOMAIN rows, NEW j \in DOMAIN rows, NEW asked \in {None, i},
           Merge(i, j, asked)
    PROVE  IInv'
<1> DEFINE kept == Survivor(i, j, asked)
<1> DEFINE lost == IF kept = i THEN j ELSE i
<1> DEFINE theirs == rows[lost].partner
<1> DEFINE ours == rows[kept].partner
<1> DEFINE filed == IF Survived(kept, lost).category # rows[kept].category
                       \/ Survived(kept, lost).payee # rows[kept].payee
                    THEN {kept} ELSE {}
<1> DEFINE merged == Absorbed(rows, kept, lost)
<1> DEFINE farKept == Survivor(ours, theirs, None)
<1> DEFINE farLost == IF farKept = ours THEN theirs ELSE ours
<1>1. MayMerge(kept, lost, asked) /\ AmountsAgree(kept, lost) BY DEF Merge
<1>2. \/ theirs = None /\ Write(merged, filed)
      \/ /\ theirs # None /\ ours = None
         /\ ~rows[kept].split
         /\ merged[kept].amount = -rows[theirs].amount
         /\ Write(Relinked(merged, kept, theirs), {})
      \/ /\ theirs # None /\ ours # None
         /\ rows[ours].account = rows[theirs].account
         /\ rows[ours].amount = rows[theirs].amount
         /\ MayMerge(farKept, farLost, None) /\ AmountsAgree(farKept, farLost)
         /\ Write(Relinked(Absorbed(merged, farKept, farLost), kept, farKept), {})
    BY DEF Merge
<1>3. lost = IF kept = i THEN j ELSE i OBVIOUS
<1>4. filed \subseteq {kept}
      /\ (kept \notin filed => /\ Survived(kept, lost).category = rows[kept].category
                               /\ Survived(kept, lost).payee = rows[kept].payee)
    OBVIOUS
<1>15. farLost = IF farKept = ours THEN theirs ELSE ours OBVIOUS
<1>16. farKept = Survivor(ours, theirs, None) OBVIOUS
<1>17. kept = Survivor(i, j, asked) OBVIOUS
<1> HIDE DEF kept, lost, filed, farLost, farKept
<1>5. Merges(kept, lost) BY <1>1, <1>3, <1>17, MayMergeMerges
<1>6. kept \in DOMAIN rows /\ lost \in DOMAIN rows BY <1>5 DEF Merges
<1>7. CASE theirs = None /\ Write(merged, filed)
    <2> DEFINE loose2 == strayed \cup filed
    <2>1. strayed \subseteq loose2 /\ filed \subseteq DOMAIN rows \cup {None}
        BY <1>4, <1>6
    <2>2. \/ kept \in loose2
          \/ /\ Survived(kept, lost).category = rows[kept].category
             /\ Survived(kept, lost).payee = rows[kept].payee
        BY <1>4
    <2>4. rows' = merged /\ strayed' = loose2 /\ UNCHANGED <<reading, vouched>>
        BY <1>7 DEF Write
    <2> HIDE DEF loose2
    <2>3. Good(merged, loose2, vouched) /\ DOMAIN merged = DOMAIN rows
        <3>1. CASE rows[lost].split BY <3>1, <2>1, <1>5, MergeSplit
        <3>2. CASE ~rows[lost].split BY <3>2, <2>1, <2>2, <1>5, <1>7, MergePlain
        <3> QED BY <3>1, <3>2
    <2> HIDE DEF merged
    <2> QED BY <2>1, <2>3, <2>4, <1>7, Written DEF loose2
<1>8. CASE /\ theirs # None /\ ours = None
           /\ ~rows[kept].split
           /\ merged[kept].amount = -rows[theirs].amount
           /\ Write(Relinked(merged, kept, theirs), {})
    <2>1. Survived(kept, lost).amount = -rows[theirs].amount
        <3>1. merged[kept] = Survived(kept, lost)
            <4>1. kept \notin Lines(rows, lost) /\ kept \notin Lines(rows, kept)
                BY <1>5, <1>6, Invariant DEF Merges, Lines
            <4>2. kept # lost BY <1>5 DEF Merges
            <4> QED BY <4>1, <4>2, <1>6 DEF Absorbed
        <3> HIDE DEF merged
        <3> QED BY <3>1, <1>8
    <2> DEFINE R2 == Relinked(merged, kept, theirs)
    <2>2. Good(R2, strayed, vouched) /\ DOMAIN R2 = DOMAIN rows
        BY <2>1, <1>5, <1>8, MergeAdopts
    <2> HIDE DEF R2
    <2>3. Write(R2, {}) BY <1>8 DEF R2
    <2> QED BY <2>2, <2>3, Written
<1>9. CASE /\ theirs # None /\ ours # None
           /\ rows[ours].account = rows[theirs].account
           /\ rows[ours].amount = rows[theirs].amount
           /\ MayMerge(farKept, farLost, None) /\ AmountsAgree(farKept, farLost)
           /\ Write(Relinked(Absorbed(merged, farKept, farLost), kept, farKept), {})
    <2> DEFINE R2 == Relinked(Absorbed(merged, farKept, farLost), kept, farKept)
    <2>1. Good(R2, strayed, vouched) /\ DOMAIN R2 = DOMAIN rows
        BY <1>5, <1>9, <1>15, <1>16, MergeTransfers
    <2> HIDE DEF R2
    <2>2. Write(R2, {}) BY <1>9 DEF R2
    <2> QED BY <2>1, <2>2, Written
<1> QED BY <1>2, <1>7, <1>8, <1>9

-----------------------------------------------------------------------------
(* The theorems. *)

(* The ledger a run starts from keeps every rule.                          *)
LEMMA InitKeeps == ASSUME Init PROVE IInv
<1>1. PICK book \in Books : /\ rows = book.rows /\ vouched = book.vouched
                            /\ reading = None /\ strayed = {}
    BY DEF Init
<1>2. book.vouched \in [Accounts -> Int \cup {None}] /\ Kept(book.rows, book.vouched)
    BY BooksAssumption
<1>3. Good(rows, strayed, vouched) BY <1>1, <1>2 DEF Kept, Good
<1> QED BY <1>1, <1>2, <1>3 DEF IInv, TypeOK, Good

(* Every request keeps the invariant.                                      *)
LEMMA NextKeeps == ASSUME IInv, [Next]_vars PROVE IInv'
<1>1. CASE UNCHANGED vars
    BY <1>1 DEF vars, IInv, TypeOK
<1>2. CASE Enter
    <2>1. PICK a \in Accounts, x \in Amounts, c \in BOOLEAN :
            \/ \E p \in Payees : Create(a, x, "cleared", c, p)
            \/ \E to \in Accounts : x > 0 /\ CreateTransfer(a, to, x, "cleared", c)
            \/ \E lines \in TwoLines(x, {}) : CreateSplit(a, x, "cleared", lines)
        BY <1>2 DEF Enter
    <2>2. CASE \E p \in Payees : Create(a, x, "cleared", c, p) BY <2>2, CreateKeeps
    <2>3. CASE \E to \in Accounts : x > 0 /\ CreateTransfer(a, to, x, "cleared", c)
        BY <2>3, CreateTransferKeeps
    <2>4. CASE \E lines \in TwoLines(x, {}) : CreateSplit(a, x, "cleared", lines)
        BY <2>4, CreateSplitKeeps
    <2> QED BY <2>1, <2>2, <2>3, <2>4
<1>3. CASE Split BY <1>3, SplitRowKeeps DEF Split
<1>4. CASE EditRow BY <1>4, UpdateKeeps DEF EditRow
<1>5. CASE EditTransfer
    <2>1. PICK i \in DOMAIN rows, c \in BOOLEAN :
            \/ Break(i, c)
            \/ Unmark(i, c)
            \/ \E to \in Accounts :
                  \/ Retarget(i, to, c)
                  \/ \E j \in DOMAIN rows : Link(i, to, c, j)
                  \/ \E confirmed \in BOOLEAN : CreateFarLeg(i, to, c, confirmed)
        BY <1>5 DEF EditTransfer
    <2>2. CASE Break(i, c) BY <2>2, BreakKeeps
    <2>3. CASE Unmark(i, c) BY <2>3, UnmarkKeeps
    <2>4. ASSUME NEW to \in Accounts, Retarget(i, to, c) PROVE IInv' BY <2>4, RetargetKeeps
    <2>5. ASSUME NEW to \in Accounts, NEW j \in DOMAIN rows, Link(i, to, c, j) PROVE IInv'
        BY <2>5, LinkKeeps
    <2>6. ASSUME NEW to \in Accounts, NEW confirmed \in BOOLEAN, CreateFarLeg(i, to, c, confirmed)
          PROVE  IInv'
        BY <2>6, CreateFarLegKeeps
    <2> QED BY <2>1, <2>2, <2>3, <2>4, <2>5, <2>6
<1>6. CASE DeleteRow BY <1>6, DeleteKeeps DEF DeleteRow
<1>7. CASE Unlock BY <1>7, UnreconcileKeeps DEF Unlock
<1>8. CASE BankRecord
    <2>1. PICK x \in Amounts, id \in BankIds :
            \/ \E i \in DOMAIN rows, posted \in BOOLEAN :
                  ApplyBankPosting(i, [amount |-> x, posted |-> posted, sync |-> id])
            \/ \E a \in Accounts, m \in {"cleared", "pending"}, c \in BOOLEAN :
                  SyncRow(a, x, m, c, id)
        BY <1>8 DEF BankRecord
    <2>2. ASSUME NEW i \in DOMAIN rows, NEW posted \in BOOLEAN,
                 ApplyBankPosting(i, [amount |-> x, posted |-> posted, sync |-> id])
          PROVE  IInv'
        <3> DEFINE feed == [amount |-> x, posted |-> posted, sync |-> id]
        <3>1. feed.amount \in Amounts /\ feed.sync \in BankIds /\ ApplyBankPosting(i, feed) BY <2>2
        <3> HIDE DEF feed
        <3> QED BY <3>1, ApplyBankPostingKeeps
    <2>3. ASSUME NEW a \in Accounts, NEW m \in {"cleared", "pending"}, NEW c \in BOOLEAN,
                 SyncRow(a, x, m, c, id)
          PROVE  IInv'
        BY <2>3, SyncRowKeeps
    <2> QED BY <2>1, <2>2, <2>3
<1>9. CASE Repair BY <1>9, RepairTransfersKeeps, RepairTrackingKeeps DEF Repair
<1>10. CASE MergeRows
    <2>1. PICK i \in DOMAIN rows, j \in DOMAIN rows :
            \E asked \in IF i < j THEN {None, i} ELSE {i} : Merge(i, j, asked)
        BY <1>10 DEF MergeRows
    <2>2. PICK asked \in {None, i} : Merge(i, j, asked) BY <2>1
    <2> QED BY <2>2, MergeKeeps
<1>11. CASE Reconcile
    <2>1. (\E a \in Accounts : BeginFinish(a)) \/ (\E x \in Amounts : Finish(x))
        BY <1>11 DEF Reconcile
    <2>2. \A x \in Amounts : x \in Int BY LedgerAssumption
    <2> QED BY <2>1, <2>2, BeginFinishKeeps, FinishKeeps
<1> QED BY <1>1, <1>2, <1>3, <1>4, <1>5, <1>6, <1>7, <1>8, <1>9, <1>10, <1>11 DEF Next

(* Whatever is asked of the register, and in whatever order, every rule    *)
(* holds of its rows at once: none is kept without the others.             *)
THEOREM LedgerKeepsRules == Spec => []IInv
<1>1. Init => IInv BY InitKeeps
<1>2. IInv /\ [Next]_vars => IInv' BY NextKeeps
<1> QED BY <1>1, <1>2, PTL DEF Spec

(* The rows keep their shape and their links name rows (db/models.py       *)
(* Transaction): a line is neither split nor a leg, a split is no leg.     *)
THEOREM LedgerTypeOK == Spec => []TypeOK
<1>1. IInv => TypeOK BY DEF IInv
<1> QED BY <1>1, LedgerKeepsRules, PTL

(* Split integrity: through creation, rewriting, collapse, edits, moves,   *)
(* bank postings and merges a live split's live lines add up to it, in its *)
(* account and its cleared state, and no line outlives its parent.         *)
THEOREM LedgerSplitIntegrity == Spec => []SplitIntegrity
<1>1. IInv => SplitIntegrity BY DEF IInv, Good, SplitIntegrity
<1> QED BY <1>1, LedgerKeepsRules, PTL

(* Transfer integrity: two legs are live, name each other and sum to zero  *)
(* whichever of them is edited, retargeted, unlinked, merged or deleted.   *)
THEOREM LedgerTransferIntegrity == Spec => []TransferIntegrity
<1>1. IInv => TransferIntegrity BY DEF IInv, Good, TransferIntegrity
<1> QED BY <1>1, LedgerKeepsRules, PTL

(* Guarded placement: no write but the ones known to skip the check leaves *)
(* a category where the transfer rule forbids it.                          *)
THEOREM LedgerGuardedPlacement == Spec => []GuardedPlacement
<1>1. IInv => GuardedPlacement BY DEF IInv, Good, GuardedPlacement
<1> QED BY <1>1, LedgerKeepsRules, PTL

(* The statement holds: the rows a finish has locked go on adding up to    *)
(* the balance it was given, until one of them is unlocked.                *)
THEOREM LedgerStatementHolds == Spec => []StatementHolds
<1>1. IInv => StatementHolds BY DEF IInv, Good, StatementHolds
<1> QED BY <1>1, LedgerKeepsRules, PTL

=============================================================================
