--------------------------- MODULE BankSyncProofs ---------------------------
(***************************************************************************)
(* Proofs about BankSync: rows, matches and absences stay sound, a run     *)
(* removes nothing a person typed, a row it unlinks is told of, no step    *)
(* locks both rows of a review that can still be accepted, the runs keep   *)
(* the promise of BankBook, and none imports a row beside an unlinked one  *)
(* of its amount without asking.                                           *)
(*                                                                         *)
(* The inductive invariant is BankInv, with SoundIds for the book. A run   *)
(* of the sync is followed record by record, three times over. SoundRun    *)
(* holds before the first record and after each (RunStep says what a step  *)
(* owes), through both passes (PassRun) and the judging (JudgedSound).     *)
(* Follows says where the ids of a run's rows come from and Handled that   *)
(* each record is done or waits for the second pass; they add up to Served *)
(* (RunServes), and every step is one of BankBook's. Asking says that a    *)
(* run's own rows have no unlinked rival it has not asked about, and that  *)
(* the rows it has consumed are out of later records' reach.               *)
(* Steady is what runs, merges and the person's edits share: no row is     *)
(* locked, and what a merge took away stays away; only Reconcile is not.   *)
(***************************************************************************)
EXTENDS BankSync, Induction

USE BankAssumption DEF Fates

-----------------------------------------------------------------------------
(* Rows.                                                                   *)

RowFields == {"live", "amount", "day", "cleared", "payee", "sync", "bank", "source", "posted",
              "descriptor", "split", "partner", "mine", "of", "gone"}
SoundFeed(feed) == feed.day \in Days /\ feed.posted \in BOOLEAN

LEMMA FieldsOfRow == \A row : SoundRow(row) => DOMAIN row = RowFields
BY DEF SoundRow, Row, RowFields

LEMMA PostingFlags ==
    ASSUME NEW row, DOMAIN row = RowFields, NEW feed
    PROVE  /\ Posting(row, feed).live = row.live
           /\ Posting(row, feed).mine = row.mine
           /\ Posting(row, feed).source = TRUE
<1>1. Posting(row, feed).live = row.live BY DEF Posting, AfterPosting, RowFields
<1>2. Posting(row, feed).mine = row.mine BY DEF Posting, AfterPosting, RowFields
<1>3. Posting(row, feed).source = TRUE BY DEF Posting, AfterPosting, RowFields
<1> QED BY <1>1, <1>2, <1>3, Zenon

LEMMA PostingFields ==
    ASSUME NEW row, DOMAIN row = RowFields, NEW feed
    PROVE  /\ DOMAIN Posting(row, feed) = RowFields
           /\ Posting(row, feed).gone = row.gone
           /\ Posting(row, feed).sync = IF feed.sync # None THEN feed.sync ELSE row.sync
           /\ Posting(row, feed).posted = IF feed.posted THEN feed.day ELSE row.posted
           /\ Posting(row, feed).day =
                IF feed.posted /\ row.cleared = "pending" THEN feed.day ELSE row.day
           /\ Posting(row, feed).cleared =
                IF feed.posted /\ row.cleared # "reconciled" THEN "cleared" ELSE row.cleared
<1>1. DOMAIN Posting(row, feed) = RowFields BY DEF Posting, AfterPosting
<1> QED BY <1>1 DEF Posting, AfterPosting, RowFields

LEMMA PostingSound ==
    ASSUME NEW row, SoundRow(row), row.live, NEW feed, SoundFeed(feed)
    PROVE  SoundRow(Posting(row, feed))
<1>0. DOMAIN row = RowFields BY FieldsOfRow
<1>1. row.gone # "dropped" BY DEF SoundRow
<1>2. PICK p : p = Posting(row, feed) OBVIOUS
<1>3. DOMAIN p = RowFields BY <1>0, <1>2, PostingFields
<1>4. p.live = row.live BY <1>0, <1>2, PostingFlags, Zenon
<1>5. p.mine = row.mine BY <1>0, <1>2, PostingFlags, Zenon
<1>6. p.source = TRUE BY <1>0, <1>2, PostingFlags, Zenon
<1>7. p.gone = row.gone BY <1>0, <1>2, PostingFields
<1>8. p.posted = IF feed.posted THEN feed.day ELSE row.posted BY <1>0, <1>2, PostingFields
<1>9. p.day = IF feed.posted /\ row.cleared = "pending" THEN feed.day ELSE row.day
    BY <1>0, <1>2, PostingFields
<1>10. p.cleared = IF feed.posted /\ row.cleared # "reconciled" THEN "cleared" ELSE row.cleared
    BY <1>0, <1>2, PostingFields
<1>11. p.cleared \in {"pending", "uncleared", "cleared", "reconciled"} /\ p.day \in Days
        /\ p.posted \in Days \cup {None}
    BY <1>8, <1>9, <1>10 DEF SoundRow, SoundFeed
<1>12. p.posted # None => p.cleared # "pending" BY <1>8, <1>10 DEF SoundRow
<1>13. p.mine => p.cleared # "pending" BY <1>5, <1>10 DEF SoundRow
<1>14. DOMAIN p = DOMAIN Row(0, 0, "uncleared", None) BY <1>0, <1>3 DEF SoundRow
<1>15. p.live \in BOOLEAN BY <1>4 DEF SoundRow
<1>16. p.mine \in BOOLEAN BY <1>5 DEF SoundRow
<1>17. p.source \in BOOLEAN BY <1>6
<1>18. p.live <=> p.gone = None BY <1>4, <1>7 DEF SoundRow
<1>19. p.gone # "dropped" BY <1>1, <1>7
<1>20. SoundRow(p)
    BY <1>11, <1>12, <1>13, <1>14, <1>15, <1>16, <1>17, <1>18, <1>19 DEF SoundRow
<1> QED BY <1>20, <1>2

(* What the properties read of a row.                                       *)
Like(q, r) ==
    /\ (q.live <=> r.live) /\ (q.source <=> r.source) /\ (q.mine <=> r.mine)
    /\ q.gone = r.gone /\ q.sync = r.sync /\ q.cleared = r.cleared /\ q.posted = r.posted

LEMMA PlaceSound ==     \* which purchase a row stands for
    ASSUME NEW row, SoundRow(row), NEW x
    PROVE  SoundRow([row EXCEPT !.of = x]) /\ Like([row EXCEPT !.of = x], row)
<1>1. DOMAIN row = RowFields BY FieldsOfRow
<1> QED BY <1>1 DEF SoundRow, Like, RowFields, Row

LEMMA GoneSound ==
    ASSUME NEW row, SoundRow(row), NEW how \in Fates,
           how = "dropped" => ~row.mine /\ row.sync = None
    PROVE  /\ SoundRow(Gone(row, how)) /\ ~Gone(row, how).live /\ Gone(row, how).gone = how
           /\ Gone(row, how).cleared = row.cleared
<1>1. DOMAIN row = RowFields BY FieldsOfRow
<1> QED BY <1>1 DEF SoundRow, Gone, RowFields, Row

LEMMA UnlinkedSound ==
    ASSUME NEW row, SoundRow(row), NEW q, q = [row EXCEPT !.sync = None]
    PROVE  /\ SoundRow(q) /\ q.sync = None /\ (q.live <=> row.live)
           /\ (q.source <=> row.source) /\ (q.mine <=> row.mine)
           /\ q.gone = row.gone /\ q.cleared = row.cleared /\ q.posted = row.posted
<1>1. DOMAIN row = RowFields BY FieldsOfRow
<1> QED BY <1>1 DEF SoundRow, RowFields, Row

LEMMA TickedSound ==
    ASSUME NEW row, SoundRow(row), NEW how \in {"cleared", "reconciled"},
           NEW q, q = [row EXCEPT !.cleared = how]
    PROVE  /\ SoundRow(q) /\ q.cleared = how /\ q.sync = row.sync /\ q.gone = row.gone
           /\ (q.live <=> row.live) /\ (q.source <=> row.source)
<1>1. DOMAIN row = RowFields BY FieldsOfRow
<1> QED BY <1>1 DEF SoundRow, RowFields, Row

LEMMA RestoredSound ==
    ASSUME NEW row, SoundRow(row), row.gone = "dropped",
           NEW q, q = [row EXCEPT !.live = TRUE, !.cleared = "uncleared",
                                  !.mine = TRUE, !.gone = None]
    PROVE  SoundRow(q) /\ q.sync = None /\ q.cleared = "uncleared" /\ q.live /\ q.gone = None
<1>1. DOMAIN row = RowFields BY FieldsOfRow
<1> QED BY <1>1 DEF SoundRow, RowFields, Row

LEMMA ImportedSound ==
    ASSUME NEW feed, SoundFeed(feed)
    PROVE  LET q == Imported(feed)
           IN  /\ SoundRow(q) /\ q.live /\ q.source /\ q.gone = None /\ q.sync = feed.sync
               /\ q.cleared # "reconciled"
BY DEF Imported, Row, SoundRow, SoundFeed

-----------------------------------------------------------------------------
(* Registers.                                                              *)

LEMMA SameLength ==
    ASSUME NEW R, R \in Seq(Range(R)), NEW Q, Q = [i \in DOMAIN R |-> Q[i]]
    PROVE  Q \in Seq(Range(Q)) /\ DOMAIN Q = DOMAIN R /\ Len(Q) = Len(R)
<1>1. Len(R) \in Nat /\ DOMAIN R = 1..Len(R) OBVIOUS
<1>2. DOMAIN Q = 1..Len(R) BY <1>1
<1>3. Q \in [1..Len(R) -> Range(Q)] BY <1>1, <1>2 DEF Range
<1>4. Q \in Seq(Range(Q)) BY <1>1, <1>3
<1> QED BY <1>1, <1>2, <1>4

LEMMA OneLonger ==
    ASSUME NEW R, R \in Seq(Range(R)), NEW x
    PROVE  LET Q == Append(R, x) n == Len(R) + 1
           IN  /\ Q \in Seq(Range(Q)) /\ Len(Q) = n /\ n \in DOMAIN Q /\ n \notin DOMAIN R
               /\ DOMAIN Q = DOMAIN R \cup {n} /\ Q[n] = x
               /\ \A i \in DOMAIN R : Q[i] = R[i]
<1> DEFINE T == Range(R) \cup {x}
<1>1. Len(R) \in Nat /\ DOMAIN R = 1..Len(R) OBVIOUS
<1>2. R \in Seq(T) OBVIOUS
<1>3. x \in T OBVIOUS
<1> HIDE DEF T
<1>4. PICK Q : Q = Append(R, x) OBVIOUS
<1>5. /\ Q \in Seq(T) /\ Len(Q) = Len(R) + 1 /\ Q[Len(R) + 1] = x
      /\ \A i \in 1..Len(R) : Q[i] = R[i]
    BY <1>2, <1>3, <1>4
<1>6. DOMAIN Q = 1..(Len(R) + 1) BY <1>1, <1>5
<1>7. Q \in [1..Len(Q) -> Range(Q)] BY <1>1, <1>5, <1>6 DEF Range
<1>8. Q \in Seq(Range(Q)) BY <1>1, <1>5, <1>7
<1> QED BY <1>1, <1>4, <1>5, <1>6, <1>8

(* A step no run or merge may go beyond: rows stay, none is locked, and what *)
(* a merge took away stays away.                                            *)
Steady(R, Q) ==
    /\ DOMAIN R \subseteq DOMAIN Q
    /\ \A i \in DOMAIN R : /\ Q[i].cleared = "reconciled" => R[i].cleared = "reconciled"
                           /\ R[i].gone = "merged" => Q[i].gone = "merged"

LEMMA TakingSound ==
    ASSUME NEW R, SoundRows(R), NEW i \in Live(R), NEW feed, SoundFeed(feed),
           \A j \in Live(R) : R[j].sync = feed.sync /\ feed.sync # None => j = i
    PROVE  LET Q == Taking(R, i, feed)
           IN  /\ SoundRows(Q) /\ DOMAIN Q = DOMAIN R /\ Steady(R, Q)
               /\ \A j \in DOMAIN R \ {i} : Like(Q[j], R[j])
               /\ Q[i].live /\ Q[i].gone = None
               /\ Q[i].sync = IF feed.sync # None THEN feed.sync ELSE R[i].sync
<1>1. i \in DOMAIN R /\ R[i].live /\ SoundRow(R[i]) /\ \A j \in DOMAIN R : SoundRow(R[j])
    BY DEF Live, SoundRows
<1>2. PICK Q : Q = Taking(R, i, feed) OBVIOUS
<1>3. PICK p : p = Posting(R[i], feed) OBVIOUS
<1>4. PICK q : q = [p EXCEPT !.of = feed.of] OBVIOUS
<1>5. Q = [j \in DOMAIN R |->
             IF j = i THEN q
             ELSE IF R[j].live /\ R[j].of = feed.of THEN [R[j] EXCEPT !.of = R[i].of]
             ELSE R[j]]
    BY <1>2, <1>3, <1>4 DEF Taking
<1>6. SoundRow(p) BY <1>1, <1>3, PostingSound
<1>7. DOMAIN R[i] = RowFields BY <1>1, FieldsOfRow
<1>8. p.live BY <1>1, <1>3, <1>7, PostingFlags, Zenon
<1>9. /\ p.sync = IF feed.sync # None THEN feed.sync ELSE R[i].sync
      /\ p.cleared = "reconciled" => R[i].cleared = "reconciled"
    BY <1>3, <1>7, PostingFields
<1>10. SoundRow(q) /\ Like(q, p) BY <1>4, <1>6, PlaceSound
<1>11. Q[i] = q BY <1>1, <1>5
<1>12. /\ q.live /\ q.sync = IF feed.sync # None THEN feed.sync ELSE R[i].sync
       /\ q.cleared = "reconciled" => R[i].cleared = "reconciled"
    BY <1>8, <1>9, <1>10 DEF Like
<1>13. q.gone = None BY <1>10, <1>12 DEF SoundRow
<1>14. \A j \in DOMAIN R \ {i} : SoundRow(Q[j]) /\ Like(Q[j], R[j])
    <2> TAKE j \in DOMAIN R \ {i}
    <2>1. CASE R[j].live /\ R[j].of = feed.of
        <3>1. Q[j] = [R[j] EXCEPT !.of = R[i].of] BY <1>5, <2>1
        <3> QED BY <1>1, <3>1, PlaceSound
    <2>2. CASE ~(R[j].live /\ R[j].of = feed.of)
        <3>1. Q[j] = R[j] BY <1>5, <2>2
        <3> QED BY <1>1, <3>1 DEF Like
    <2> QED BY <2>1, <2>2
<1>15. R \in Seq(Range(R)) BY DEF SoundRows
<1>16. Q = [j \in DOMAIN R |-> Q[j]] BY <1>5
<1>17. Q \in Seq(Range(Q)) /\ DOMAIN Q = DOMAIN R BY <1>15, <1>16, SameLength
<1>18. \A j, k \in Live(Q) : Q[j].sync # None /\ Q[j].sync = Q[k].sync => j = k
    <2> TAKE j, k \in Live(Q)
    <2> HAVE Q[j].sync # None /\ Q[j].sync = Q[k].sync
    <2>1. \A l \in Live(Q) \ {i} : l \in Live(R) /\ Q[l].sync = R[l].sync
        BY <1>14, <1>17 DEF Live, Like
    <2>2. CASE j # i /\ k # i
        BY <2>1, <2>2 DEF SoundRows
    <2>3. CASE j = i /\ k # i
        <3>1. k \in Live(R) /\ Q[k].sync = R[k].sync BY <2>1, <2>3
        <3> QED BY <2>3, <3>1, <1>11, <1>12 DEF SoundRows
    <2>4. CASE j # i /\ k = i
        <3>1. j \in Live(R) /\ Q[j].sync = R[j].sync BY <2>1, <2>4
        <3> QED BY <2>4, <3>1, <1>11, <1>12 DEF SoundRows
    <2> QED BY <2>2, <2>3, <2>4
<1>19. SoundRows(Q) BY <1>10, <1>11, <1>14, <1>17, <1>18 DEF SoundRows
<1>20. Steady(R, Q)
    <2>1. R[i].gone # "merged" BY <1>1 DEF SoundRow
    <2> QED BY <1>11, <1>12, <1>14, <1>17, <2>1 DEF Steady, Like
<1> QED BY <1>2, <1>11, <1>12, <1>13, <1>14, <1>17, <1>19, <1>20

LEMMA PointwiseSound ==
    ASSUME NEW R, SoundRows(R), NEW Q, Q = [i \in DOMAIN R |-> Q[i]],
           \A i \in DOMAIN R : SoundRow(Q[i]),
           \A i \in DOMAIN R : Q[i].live /\ Q[i].sync # None =>
                                 R[i].live /\ Q[i].sync = R[i].sync
    PROVE  SoundRows(Q) /\ DOMAIN Q = DOMAIN R
<1>1. R \in Seq(Range(R)) BY DEF SoundRows
<1>2. Q \in Seq(Range(Q)) /\ DOMAIN Q = DOMAIN R BY <1>1, SameLength
<1>3. \A i, j \in Live(Q) : Q[i].sync # None /\ Q[i].sync = Q[j].sync => i = j
    <2> TAKE i, j \in Live(Q)
    <2> HAVE Q[i].sync # None /\ Q[i].sync = Q[j].sync
    <2>1. i \in Live(R) /\ j \in Live(R) /\ Q[i].sync = R[i].sync /\ Q[j].sync = R[j].sync
        BY <1>2 DEF Live
    <2> QED BY <2>1 DEF SoundRows
<1> QED BY <1>2, <1>3 DEF SoundRows

LEMMA AppendSound ==
    ASSUME NEW R, SoundRows(R), NEW row, SoundRow(row),
           \A j \in Live(R) : R[j].sync = row.sync => row.sync = None \/ ~row.live
    PROVE  LET Q == Append(R, row) n == Len(R) + 1
           IN  /\ SoundRows(Q) /\ Steady(R, Q) /\ n \notin DOMAIN R /\ Len(Q) = n
               /\ DOMAIN Q = DOMAIN R \cup {n}
               /\ Q[n] = row /\ \A i \in DOMAIN R : Q[i] = R[i]
<1> DEFINE n == Len(R) + 1
<1>1. PICK Q : Q = Append(R, row) OBVIOUS
<1>2. R \in Seq(Range(R)) BY DEF SoundRows
<1>3. /\ Q \in Seq(Range(Q)) /\ Len(Q) = n /\ n \notin DOMAIN R
      /\ DOMAIN Q = DOMAIN R \cup {n} /\ Q[n] = row
      /\ \A i \in DOMAIN R : Q[i] = R[i]
    BY <1>1, <1>2, OneLonger
<1> HIDE DEF n
<1>4. \A i, j \in Live(Q) : Q[i].sync # None /\ Q[i].sync = Q[j].sync => i = j
    <2> TAKE i, j \in Live(Q)
    <2> HAVE Q[i].sync # None /\ Q[i].sync = Q[j].sync
    <2>1. \A k \in Live(Q) \ {n} : k \in Live(R) /\ Q[k] = R[k] BY <1>3 DEF Live
    <2>2. CASE i # n /\ j # n BY <2>1, <2>2 DEF SoundRows
    <2>3. CASE i = n /\ j # n
        <3>1. row.live /\ j \in Live(R) /\ Q[j] = R[j] BY <1>3, <2>1, <2>3 DEF Live
        <3> QED BY <1>3, <2>3, <3>1
    <2>4. CASE i # n /\ j = n
        <3>1. row.live /\ i \in Live(R) /\ Q[i] = R[i] BY <1>3, <2>1, <2>4 DEF Live
        <3> QED BY <1>3, <2>4, <3>1
    <2> QED BY <2>2, <2>3, <2>4
<1>5. \A i \in DOMAIN Q : SoundRow(Q[i]) BY <1>3 DEF SoundRows
<1>6. SoundRows(Q) BY <1>3, <1>4, <1>5 DEF SoundRows
<1>7. Steady(R, Q) BY <1>3 DEF Steady
<1> QED BY <1>1, <1>3, <1>6, <1>7 DEF n

LEMMA ReleasedSound ==
    ASSUME NEW R, SoundRows(R), NEW S
    PROVE  LET Q == Released(R, S)
           IN  /\ SoundRows(Q) /\ DOMAIN Q = DOMAIN R /\ Steady(R, Q)
               /\ \A i \in DOMAIN R \ S : Q[i] = R[i]
               /\ \A i \in DOMAIN R \cap S :
                     /\ Q[i].sync = None /\ (Q[i].live <=> R[i].live)
                     /\ (Q[i].source <=> R[i].source) /\ (Q[i].mine <=> R[i].mine)
                     /\ Q[i].gone = R[i].gone /\ Q[i].cleared = R[i].cleared
                     /\ Q[i].posted = R[i].posted
<1>1. PICK Q : Q = Released(R, S) OBVIOUS
<1>2. \A i \in DOMAIN R : SoundRow(R[i]) BY DEF SoundRows
<1>3. Q = [i \in DOMAIN R |-> Q[i]] BY <1>1 DEF Released
<1>4. \A i \in DOMAIN R \ S : Q[i] = R[i] BY <1>1 DEF Released
<1>5. \A i \in DOMAIN R \cap S : Q[i] = [R[i] EXCEPT !.sync = None] BY <1>1 DEF Released
<1>6. \A i \in DOMAIN R \cap S :
         /\ SoundRow(Q[i]) /\ Q[i].sync = None /\ (Q[i].live <=> R[i].live)
         /\ (Q[i].source <=> R[i].source) /\ (Q[i].mine <=> R[i].mine)
         /\ Q[i].gone = R[i].gone /\ Q[i].cleared = R[i].cleared
         /\ Q[i].posted = R[i].posted
    <2> TAKE i \in DOMAIN R \cap S
    <2> QED BY <1>2, <1>5, UnlinkedSound
<1>7. \A i \in DOMAIN R : SoundRow(Q[i]) BY <1>2, <1>4, <1>6
<1>8. \A i \in DOMAIN R : Q[i].live /\ Q[i].sync # None => R[i].live /\ Q[i].sync = R[i].sync
    BY <1>4, <1>6
<1>9. SoundRows(Q) /\ DOMAIN Q = DOMAIN R BY <1>3, <1>7, <1>8, PointwiseSound
<1>10. Steady(R, Q) BY <1>4, <1>6, <1>9 DEF Steady
<1> QED BY <1>1, <1>4, <1>6, <1>9, <1>10

-----------------------------------------------------------------------------
(* Reviews: who has been told of a row without a link.                     *)

Linkless(R) == {i \in Live(R) : R[i].source /\ R[i].sync = None}
Mentions(R, m, i) ==
    \/ /\ i \in {m.synced, m.manual}
       /\ m.status # "pending" \/ (R[m.synced].live /\ R[m.manual].live)
    \/ m.manual = i /\ R[m.synced].gone = "merged"
AllTold(R, M, D) == \A i \in Linkless(R) : i \in D \/ \E m \in M : Mentions(R, m, i)

LEMMA CancelledSound ==
    ASSUME NEW R, NEW Q, DOMAIN R \subseteq DOMAIN Q, NEW M, SoundMatches(R, M), NEW S
    PROVE  SoundMatches(Q, Cancelled(M, S))
<1> SUFFICES ASSUME NEW c \in Cancelled(M, S)
             PROVE  /\ DOMAIN c = {"synced", "manual", "status"}
                    /\ c.synced \in DOMAIN Q /\ c.manual \in DOMAIN Q
    BY DEF SoundMatches
<1>1. PICK m \in M : c = IF m.status = "pending" /\ {m.synced, m.manual} \cap S # {}
                         THEN [m EXCEPT !.status = "rejected"] ELSE m
    BY DEF Cancelled
<1>2. /\ DOMAIN m = {"synced", "manual", "status"}
      /\ m.synced \in DOMAIN Q /\ m.manual \in DOMAIN Q
    BY DEF SoundMatches
<1> QED BY <1>1, <1>2

(* A mention survives a step that takes away no row but those whose reviews *)
(* it cancels.                                                              *)
LEMMA MentionsKept ==
    ASSUME NEW R, NEW Q, Steady(R, Q), NEW M, SoundMatches(R, M), NEW S, NEW N,
           Cancelled(M, S) \subseteq N,
           \A k \in Live(R) \ S : Q[k].live,
           NEW i, \E m \in M : Mentions(R, m, i)
    PROVE  \E m \in N : Mentions(Q, m, i)
<1>1. PICK m \in M : Mentions(R, m, i) OBVIOUS
<1>2. /\ DOMAIN m = {"synced", "manual", "status"}
      /\ m.synced \in DOMAIN R /\ m.manual \in DOMAIN R
    BY DEF SoundMatches
<1>3. CASE m.status = "pending" /\ {m.synced, m.manual} \cap S # {}
    <2>1. PICK c : c = [m EXCEPT !.status = "rejected"] OBVIOUS
    <2>2. c \in N BY <1>3, <2>1 DEF Cancelled
    <2>3. c.status # "pending" /\ c.synced = m.synced /\ c.manual = m.manual BY <1>2, <2>1
    <2>4. Mentions(Q, c, i) BY <1>1, <2>3 DEF Mentions
    <2> QED BY <2>2, <2>4
<1>4. CASE ~(m.status = "pending" /\ {m.synced, m.manual} \cap S # {})
    <2>1. m \in Cancelled(M, S) BY <1>4 DEF Cancelled
    <2>2. m.status # "pending" \/ (m.synced \notin S /\ m.manual \notin S) BY <1>4
    <2>3. R[m.synced].live /\ R[m.manual].live /\ m.status = "pending"
            => Q[m.synced].live /\ Q[m.manual].live
        BY <1>2, <2>2 DEF Live
    <2>4. R[m.synced].gone = "merged" => Q[m.synced].gone = "merged" BY <1>2 DEF Steady
    <2>5. Mentions(Q, m, i) BY <1>1, <2>3, <2>4 DEF Mentions
    <2> QED BY <2>1, <2>5
<1> QED BY <1>3, <1>4

LEMMA NothingCancelled == ASSUME NEW M PROVE Cancelled(M, {}) = M
BY DEF Cancelled

-----------------------------------------------------------------------------
(* A run, between its records.                                             *)

SoundRecord(feed) == SoundFeed(feed) /\ feed.sync # None
RunFields == {"rows", "matches", "consumed", "fresh", "deferred"}
SoundRun(run, R0, D) ==
    /\ DOMAIN run = RunFields
    /\ SoundRows(run.rows) /\ SoundMatches(run.rows, run.matches)
    /\ AllTold(run.rows, run.matches, D) /\ Steady(R0, run.rows)
    /\ run.fresh \subseteq DOMAIN run.rows
    /\ \A n \in run.fresh : run.rows[n].gone \in {None, "merged"}
    /\ run.deferred \in Seq(Range(run.deferred))
    /\ \A n \in DOMAIN run.deferred : SoundRecord(run.deferred[n])

LEMMA SteadyTwice ==
    ASSUME NEW P, NEW R, NEW Q, Steady(P, R), Steady(R, Q)
    PROVE  Steady(P, Q)
BY DEF Steady

(* One step of a run is sound if its rows are, it cancels the reviews of    *)
(* what it takes away and mentions the rows it leaves without a link.       *)
LEMMA RunStep ==
    ASSUME NEW run, NEW R0, NEW D, SoundRun(run, R0, D), NEW next, DOMAIN next = RunFields,
           SoundRows(next.rows), Steady(run.rows, next.rows),
           NEW S, \A k \in Live(run.rows) \ S : next.rows[k].live,
           Cancelled(run.matches, S) \subseteq next.matches,
           SoundMatches(next.rows, next.matches),
           \A i \in Linkless(next.rows) :
              i \in Linkless(run.rows) \/ \E m \in next.matches : Mentions(next.rows, m, i),
           next.fresh \subseteq DOMAIN next.rows,
           \A n \in next.fresh : next.rows[n].gone \in {None, "merged"},
           next.deferred = run.deferred
    PROVE  SoundRun(next, R0, D)
<1>1. Steady(R0, next.rows) BY SteadyTwice DEF SoundRun
<1>2. AllTold(next.rows, next.matches, D)
    <2> SUFFICES ASSUME NEW i \in Linkless(next.rows), i \notin D
                 PROVE  \E m \in next.matches : Mentions(next.rows, m, i)
        BY DEF AllTold
    <2>1. CASE i \in Linkless(run.rows)
        <3>1. \E m \in run.matches : Mentions(run.rows, m, i) BY <2>1 DEF SoundRun, AllTold
        <3>2. SoundMatches(run.rows, run.matches) BY DEF SoundRun
        <3> QED BY <3>1, <3>2, MentionsKept
    <2> QED BY <2>1
<1> QED BY <1>1, <1>2 DEF SoundRun

LEMMA ImportRun ==
    ASSUME NEW run, NEW R0, NEW D, SoundRun(run, R0, D), NEW feed, SoundRecord(feed),
           \A j \in Live(run.rows) : run.rows[j].sync # feed.sync
    PROVE  LET next == WithImport(run, feed) n == Len(run.rows) + 1
           IN  /\ SoundRun(next, R0, D) /\ n \notin DOMAIN run.rows
               /\ DOMAIN next.rows = DOMAIN run.rows \cup {n} /\ Len(next.rows) = n
               /\ next.rows[n] = Imported(feed) /\ next.rows[n].live
               /\ \A i \in DOMAIN run.rows : next.rows[i] = run.rows[i]
               /\ next.matches = run.matches /\ next.fresh = run.fresh \cup {n}
<1> DEFINE n == Len(run.rows) + 1
<1>1. PICK next : next = WithImport(run, feed) OBVIOUS
<1>2. PICK row : row = Imported(feed) OBVIOUS
<1>3. /\ SoundRow(row) /\ row.live /\ row.source /\ row.gone = None /\ row.sync = feed.sync
    BY <1>2, ImportedSound DEF SoundRecord
<1>4. /\ DOMAIN next = RunFields /\ next.rows = Append(run.rows, row)
      /\ next.matches = run.matches /\ next.fresh = run.fresh \cup {n}
      /\ next.deferred = run.deferred
    BY <1>1, <1>2 DEF WithImport, SoundRun, RunFields
<1>5. SoundRows(run.rows) BY DEF SoundRun
<1>6. /\ SoundRows(next.rows) /\ Steady(run.rows, next.rows) /\ n \notin DOMAIN run.rows
      /\ DOMAIN next.rows = DOMAIN run.rows \cup {n} /\ Len(next.rows) = n
      /\ next.rows[n] = row /\ \A i \in DOMAIN run.rows : next.rows[i] = run.rows[i]
    BY <1>3, <1>4, <1>5, AppendSound
<1> HIDE DEF n
<1>7. \A k \in Live(run.rows) \ {} : next.rows[k].live BY <1>6 DEF Live
<1>8. Cancelled(run.matches, {}) \subseteq next.matches BY <1>4, NothingCancelled
<1>9. SoundMatches(next.rows, next.matches) BY <1>4, <1>6 DEF SoundRun, SoundMatches
<1>10. \A i \in Linkless(next.rows) : i \in Linkless(run.rows)
    <2> TAKE i \in Linkless(next.rows)
    <2>1. i # n BY <1>3, <1>6 DEF Linkless, SoundRecord
    <2>2. i \in DOMAIN run.rows /\ next.rows[i] = run.rows[i]
        BY <1>6, <2>1 DEF Linkless, Live
    <2> QED BY <2>2 DEF Linkless, Live
<1>11. /\ next.fresh \subseteq DOMAIN next.rows
       /\ \A k \in next.fresh : next.rows[k].gone \in {None, "merged"}
    BY <1>3, <1>4, <1>6 DEF SoundRun
<1>12. SoundRun(next, R0, D) BY <1>4, <1>6, <1>7, <1>8, <1>9, <1>10, <1>11, RunStep
<1> QED BY <1>1, <1>2, <1>3, <1>4, <1>6, <1>12 DEF n

LEMMA TakenRun ==
    ASSUME NEW run, NEW R0, NEW D, SoundRun(run, R0, D), NEW feed, SoundRecord(feed),
           NEW i \in Live(run.rows),
           \A j \in Live(run.rows) : run.rows[j].sync = feed.sync => j = i
    PROVE  SoundRun(Taken(run, i, feed), R0, D)
<1>1. PICK next : next = Taken(run, i, feed) OBVIOUS
<1>2. /\ DOMAIN next = RunFields /\ next.rows = Taking(run.rows, i, feed)
      /\ next.matches = run.matches /\ next.fresh = run.fresh
      /\ next.deferred = run.deferred
    BY <1>1 DEF Taken, SoundRun, RunFields
<1>3. SoundRows(run.rows) BY DEF SoundRun
<1>4. /\ SoundRows(next.rows) /\ DOMAIN next.rows = DOMAIN run.rows
      /\ Steady(run.rows, next.rows)
      /\ \A j \in DOMAIN run.rows \ {i} : Like(next.rows[j], run.rows[j])
      /\ next.rows[i].live /\ next.rows[i].gone = None /\ next.rows[i].sync = feed.sync
    BY <1>2, <1>3, TakingSound DEF SoundRecord
<1>5. \A k \in Live(run.rows) \ {} : next.rows[k].live BY <1>4 DEF Live, Like
<1>6. Cancelled(run.matches, {}) \subseteq next.matches BY <1>2, NothingCancelled
<1>7. SoundMatches(next.rows, next.matches) BY <1>2, <1>4 DEF SoundRun, SoundMatches
<1>8. \A k \in Linkless(next.rows) : k \in Linkless(run.rows)
    BY <1>4 DEF Linkless, Live, Like, SoundRecord
<1>9. /\ next.fresh \subseteq DOMAIN next.rows
      /\ \A k \in next.fresh : next.rows[k].gone \in {None, "merged"}
    BY <1>2, <1>4 DEF SoundRun, Like
<1>10. SoundRun(next, R0, D) BY <1>2, <1>4, <1>5, <1>6, <1>7, <1>8, <1>9, RunStep
<1> QED BY <1>1, <1>10

-----------------------------------------------------------------------------
(* Merges.                                                                 *)

LEMMA StandInSound ==
    ASSUME NEW row, SoundRow(row)
    PROVE  SoundFeed(StandIn(row)) /\ StandIn(row).sync = row.sync
<1>1. SoundFeed(StandIn(row)) BY DEF SoundRow, SoundFeed, StandIn, AsFeed, BankDate
<1>2. StandIn(row).sync = row.sync BY DEF StandIn, AsFeed
<1> QED BY <1>1, <1>2

LEMMA AbsorbedSound ==
    ASSUME NEW R, SoundRows(R), NEW kept \in Live(R), NEW lost \in Live(R), kept # lost
    PROVE  LET Q == Absorbed(R, kept, lost)
           IN  /\ SoundRows(Q) /\ DOMAIN Q = DOMAIN R /\ Steady(R, Q)
               /\ Q[kept].live /\ Q[kept].gone = None /\ ~Q[lost].live /\ Q[lost].gone = "merged"
               /\ \A j \in DOMAIN R \ {kept, lost} : Like(Q[j], R[j])
<1>1. /\ kept \in DOMAIN R /\ lost \in DOMAIN R /\ R[kept].live /\ R[lost].live
      /\ \A j \in DOMAIN R : SoundRow(R[j])
    BY DEF Live, SoundRows
<1>2. PICK G : G = [i \in DOMAIN R |-> IF i = lost THEN Gone(R[i], "merged") ELSE R[i]]
    OBVIOUS
<1>3. G[lost] = Gone(R[lost], "merged") /\ \A j \in DOMAIN R \ {lost} : G[j] = R[j]
    BY <1>1, <1>2
<1>4. /\ SoundRow(G[lost]) /\ ~G[lost].live /\ G[lost].gone = "merged"
      /\ G[lost].cleared = R[lost].cleared
    BY <1>1, <1>3, GoneSound
<1>5. G = [i \in DOMAIN R |-> G[i]] BY <1>2
<1>6. \A i \in DOMAIN R : SoundRow(G[i]) BY <1>1, <1>3, <1>4
<1>7. \A i \in DOMAIN R : G[i].live /\ G[i].sync # None => R[i].live /\ G[i].sync = R[i].sync
    BY <1>3, <1>4
<1>8. SoundRows(G) /\ DOMAIN G = DOMAIN R BY <1>5, <1>6, <1>7, PointwiseSound
<1>9. Steady(R, G) BY <1>3, <1>4, <1>8 DEF Steady
<1>10. G[kept].live /\ G[kept].gone = None BY <1>1, <1>3 DEF SoundRow
<1>11. PICK Q : Q = Absorbed(R, kept, lost) OBVIOUS
<1>12. CASE ~BankSourced(R[lost])
    <2>1. Q = G BY <1>2, <1>11, <1>12 DEF Absorbed
    <2>2. \A j \in DOMAIN R \ {kept, lost} : Like(Q[j], R[j]) BY <1>3, <2>1 DEF Like
    <2> QED BY <1>4, <1>8, <1>9, <1>10, <1>11, <2>1, <2>2
<1>13. CASE BankSourced(R[lost])
    <2>1. PICK feed : feed = StandIn(R[lost]) OBVIOUS
    <2>2. Q = Taking(G, kept, feed) BY <1>2, <1>11, <1>13, <2>1 DEF Absorbed
    <2>3. SoundFeed(feed) /\ feed.sync = R[lost].sync BY <1>1, <2>1, StandInSound
    <2>4. kept \in Live(G) BY <1>1, <1>8, <1>10 DEF Live
    <2>5. \A j \in Live(G) : G[j].sync = feed.sync /\ feed.sync # None => j = kept
        <3> TAKE j \in Live(G)
        <3> HAVE G[j].sync = feed.sync /\ feed.sync # None
        <3>1. j # lost /\ j \in DOMAIN R /\ G[j] = R[j] BY <1>3, <1>4, <1>8 DEF Live
        <3>2. j \in Live(R) BY <3>1 DEF Live
        <3>3. j = lost BY <2>3, <3>1, <3>2 DEF SoundRows
        <3> QED BY <3>1, <3>3
    <2>6. /\ SoundRows(Q) /\ DOMAIN Q = DOMAIN G /\ Steady(G, Q)
          /\ \A j \in DOMAIN G \ {kept} : Like(Q[j], G[j])
          /\ Q[kept].live /\ Q[kept].gone = None
        BY <1>8, <2>2, <2>3, <2>4, <2>5, TakingSound
    <2>7. Steady(R, Q) BY <1>9, <2>6, SteadyTwice
    <2>8. ~Q[lost].live /\ Q[lost].gone = "merged" BY <1>1, <1>4, <1>8, <2>6 DEF Like
    <2>9. \A j \in DOMAIN R \ {kept, lost} : Like(Q[j], R[j]) BY <1>3, <1>8, <2>6
    <2> QED BY <1>8, <1>11, <2>6, <2>7, <2>8, <2>9
<1> QED BY <1>12, <1>13

(* What a merge of two live rows leaves: one of them.                       *)
MergeLeaves(R, Q, M, N, i, j) ==
    \E kept, lost \in Live(R) :
        /\ {kept, lost} = {i, j} /\ kept # lost
        /\ SoundRows(Q) /\ DOMAIN Q = DOMAIN R /\ Steady(R, Q)
        /\ Q[kept].live /\ Q[kept].gone = None /\ ~Q[lost].live /\ Q[lost].gone = "merged"
        /\ \A k \in DOMAIN R \ {kept, lost} : Like(Q[k], R[k])
        /\ N = Cancelled(M, {lost})

LEMMA MergedSound ==
    ASSUME NEW R, SoundRows(R), NEW i \in Live(R), NEW j \in Live(R), CanMerge(R, i, j), NEW M
    PROVE  LET merged == Merged(R, M, i, j)
           IN  MergeLeaves(R, merged.rows, M, merged.matches, i, j)
<1>1. PICK kept : kept = Survivor(R, i, j) OBVIOUS
<1>2. PICK lost : lost = IF kept = i THEN j ELSE i OBVIOUS
<1>3. i \in Nat /\ j \in Nat
    <2>1. Len(R) \in Nat /\ DOMAIN R = 1..Len(R) BY DEF SoundRows
    <2> QED BY <2>1 DEF Live
<1>4. Min({i, j}) \in {i, j}
    <2>1. \E x \in {i, j} : \A y \in {i, j} : x =< y BY <1>3
    <2> QED BY <2>1 DEF Min
<1>5. kept \in {i, j} BY <1>1, <1>4 DEF Survivor
<1>6. MayMerge(R, kept, lost) BY <1>1, <1>2 DEF CanMerge
<1>7. kept # lost BY <1>6 DEF MayMerge
<1>8. {kept, lost} = {i, j} /\ kept \in Live(R) /\ lost \in Live(R) BY <1>2, <1>5, <1>7
<1>9. PICK Q, N : Q = Merged(R, M, i, j).rows /\ N = Merged(R, M, i, j).matches OBVIOUS
<1>11. Q = Absorbed(R, kept, lost) /\ N = Cancelled(M, {lost}) BY <1>1, <1>2, <1>9 DEF Merged
<1>10. /\ SoundRows(Q) /\ DOMAIN Q = DOMAIN R /\ Steady(R, Q)
       /\ Q[kept].live /\ Q[kept].gone = None /\ ~Q[lost].live /\ Q[lost].gone = "merged"
       /\ \A k \in DOMAIN R \ {kept, lost} : Like(Q[k], R[k])
    BY <1>7, <1>8, <1>11, AbsorbedSound
<1>12. MergeLeaves(R, Q, M, N, i, j) BY <1>7, <1>8, <1>10, <1>11 DEF MergeLeaves
<1> QED BY <1>9, <1>12

-----------------------------------------------------------------------------
(* Choosing a row: scores are whole, and the best of some rows is one.     *)

LEMMA LeastOf ==
    ASSUME NEW T \in SUBSET Nat, T # {}
    PROVE  Min(T) \in T
<1>1. \E x \in T : \A y \in T : x <= y BY LeastNatural
<1> QED BY <1>1 DEF Min

LEMMA Foremost ==
    ASSUME NEW S, IsFiniteSet(S), S # {}, NEW f \in [S -> Int]
    PROVE  /\ {i \in S : \A j \in S : f[i] >= f[j]} # {}
           /\ {i \in S : \A j \in S : f[i] <= f[j]} # {}
<1>1. PICK U : U = {f[i] : i \in S} OBVIOUS
<1>2. IsFiniteSet(U)
    <2>1. f \in [S -> U] /\ \A u \in U : \E i \in S : f[i] = u BY <1>1
    <2>2. f \in Surjection(S, U) BY <2>1 DEF Surjection
    <2> QED BY <2>2, FS_Surjection
<1>3. U \in SUBSET Int /\ U # {} BY <1>1
<1>4. PICK x \in U : \A y \in U : y <= x BY <1>2, <1>3, GreatestLeast
<1>5. PICK z \in U : \A y \in U : z <= y BY <1>2, <1>3, GreatestLeast
<1>6. PICK i \in S : f[i] = x BY <1>1, <1>4
<1>7. PICK k \in S : f[k] = z BY <1>1, <1>5
<1>8. \A j \in S : f[i] >= f[j] BY <1>1, <1>3, <1>4, <1>6
<1>9. \A j \in S : f[k] <= f[j] BY <1>1, <1>3, <1>5, <1>7
<1> QED BY <1>8, <1>9

LEMMA FiniteRows ==
    ASSUME NEW R, SoundRows(R)
    PROVE  DOMAIN R \in SUBSET Nat /\ IsFiniteSet(DOMAIN R) /\ Live(R) \subseteq DOMAIN R
<1>1. Len(R) \in Nat /\ DOMAIN R = 1..Len(R) BY DEF SoundRows
<1>2. IsFiniteSet(1..Len(R)) BY <1>1, FS_Interval
<1> QED BY <1>1, <1>2 DEF Live

LEMMA GapNat == \A d, e \in Nat : Gap(d, e) \in Nat
BY DEF Gap

LEMMA SimilarityInt ==
    ASSUME NEW names, NEW payee, NEW unknown \in Int
    PROVE  Similarity(names, payee, unknown) \in Int
BY DEF Similarity

LEMMA NearnessInt == \A gap \in Nat : Nearness(gap) \in Int
BY DEF Nearness, AutoDays

LEMMA BankDateIn == ASSUME NEW row, SoundRow(row) PROVE BankDate(row) \in Nat
BY DEF SoundRow, BankDate

LEMMA ScoreInt ==
    ASSUME NEW row, SoundRow(row), NEW feed, feed.day \in Nat
    PROVE  Score(row, feed) \in Int
<1>1. Nearness(Gap(feed.day, BankDate(row))) \in Int BY BankDateIn, GapNat, NearnessInt
<1>2. Similarity(Names(row), feed.payee, 50) \in Int BY SimilarityInt
<1> HIDE DEF Nearness, Similarity
<1> QED BY <1>1, <1>2 DEF Score, AutoDays

LEMMA ConfidenceInt ==
    ASSUME NEW a, SoundRow(a), NEW b, SoundRow(b)
    PROVE  Confidence(a, b) \in Int
<1>1. Nearness(Gap(a.day, b.day)) \in Int BY GapNat, NearnessInt DEF SoundRow
<1>2. Similarity({b.payee} \ {None}, a.payee, 0) \in Int BY SimilarityInt
<1> QED BY <1>1, <1>2 DEF Confidence, AutoDays

LEMMA FirstIn ==
    ASSUME NEW R, SoundRows(R), NEW feed, feed.day \in Nat,
           NEW S \in SUBSET DOMAIN R, S # {}
    PROVE  First(R, feed, S) \in S
<1>1. IsFiniteSet(S) BY FiniteRows, FS_Subset
<1>2. \A i \in S : SoundRow(R[i]) BY DEF SoundRows
<1>3. PICK f : f = [i \in S |-> Gap(BankDate(R[i]), feed.day)] OBVIOUS
<1>4. f \in [S -> Int]
    <2>1. \A i \in S : Gap(BankDate(R[i]), feed.day) \in Int
        <3> TAKE i \in S
        <3>1. BankDate(R[i]) \in Nat BY <1>2, BankDateIn
        <3>2. Gap(BankDate(R[i]), feed.day) \in Nat BY <3>1, GapNat
        <3> QED BY <3>2
    <2> QED BY <1>3, <2>1
<1>5. PICK nearest : nearest = {i \in S : \A j \in S : Gap(BankDate(R[i]), feed.day)
                                                        <= Gap(BankDate(R[j]), feed.day)}
    OBVIOUS
<1>6. nearest = {i \in S : \A j \in S : f[i] <= f[j]} BY <1>3, <1>5
<1>7. nearest # {} /\ nearest \subseteq S BY <1>1, <1>4, <1>6, Foremost
<1>8. IsFiniteSet(nearest) BY <1>1, <1>7, FS_Subset
<1>9. PICK g : g = [i \in nearest |-> R[i].day] OBVIOUS
<1>10. g \in [nearest -> Int]
    <2>1. \A i \in nearest : R[i].day \in Int
        <3> TAKE i \in nearest
        <3>1. SoundRow(R[i]) BY <1>2, <1>7
        <3>2. R[i].day \in Nat BY <3>1 DEF SoundRow
        <3> QED BY <3>2
    <2> QED BY <1>9, <2>1
<1>11. PICK latest : latest = {i \in nearest : \A j \in nearest : R[i].day >= R[j].day}
    OBVIOUS
<1>12. latest = {i \in nearest : \A j \in nearest : g[i] >= g[j]} BY <1>9, <1>11
<1>13. latest # {} BY <1>7, <1>8, <1>10, <1>12, Foremost
<1>14. latest \in SUBSET Nat /\ latest \subseteq S BY <1>7, <1>11, FiniteRows
<1>15. First(R, feed, S) = Min(latest) BY <1>5, <1>11 DEF First
<1> QED BY <1>13, <1>14, <1>15, LeastOf

LEMMA BestIn ==
    ASSUME NEW R, SoundRows(R), NEW feed, feed.day \in Nat,
           NEW S \in SUBSET DOMAIN R, S # {}
    PROVE  Best(R, feed, S) \in S
<1>1. IsFiniteSet(S) BY FiniteRows, FS_Subset
<1>2. \A i \in S : SoundRow(R[i]) BY DEF SoundRows
<1>3. PICK f : f = [i \in S |-> Score(R[i], feed)] OBVIOUS
<1>4. f \in [S -> Int] BY <1>2, <1>3, ScoreInt
<1>5. PICK T : T = {i \in S : \A j \in S : Score(R[i], feed) >= Score(R[j], feed)} OBVIOUS
<1>6. T = {i \in S : \A j \in S : f[i] >= f[j]} BY <1>3, <1>5
<1>7. T # {} /\ T \in SUBSET DOMAIN R /\ T \subseteq S BY <1>1, <1>4, <1>6, Foremost
<1>8. First(R, feed, T) \in T BY <1>7, FirstIn
<1> QED BY <1>5, <1>7, <1>8 DEF Best

(* The ladder answers with one of the rows it was given, or with none.      *)
LEMMA DecisionIn ==
    ASSUME NEW R, SoundRows(R), NEW feed, feed.day \in Nat, NEW S \in SUBSET DOMAIN R
    PROVE  LET decision == DecideMatch(R, feed, S)
           IN  decision.action \in {"auto", "review"} => decision.row \in S
<1>1. CASE S = {} BY <1>1 DEF DecideMatch, Decision
<1>2. CASE S # {}
    <2>1. PICK best : best = Best(R, feed, S) OBVIOUS
    <2>2. best \in S BY <1>2, <2>1, BestIn
    <2>3. PICK near : near = {i \in S : Gap(feed.day, BankDate(R[i])) <= TightDays} OBVIOUS
    <2>4. PICK only : only = CHOOSE i \in near : TRUE OBVIOUS
    <2>5. near # {} => only \in S BY <2>3, <2>4
    <2>6. near # {} => Disputed(R, feed, near).row \in S
        <3> HAVE near # {}
        <3>1. near \in SUBSET DOMAIN R /\ IsFiniteSet(near)
            BY <2>3, FiniteRows, FS_Subset
        <3>2. PICK f : f = [i \in near |-> Similarity(Names(R[i]), feed.payee, 50)] OBVIOUS
        <3>3. f \in [near -> Int] BY <3>2, SimilarityInt
        <3>4. PICK closest : closest = {i \in near : \A j \in near :
                                 Similarity(Names(R[i]), feed.payee, 50)
                                   >= Similarity(Names(R[j]), feed.payee, 50)}
            OBVIOUS
        <3>5. closest = {i \in near : \A j \in near : f[i] >= f[j]} BY <3>2, <3>4
        <3>6. closest # {} /\ closest \in SUBSET DOMAIN R /\ closest \subseteq near
            BY <3>1, <3>3, <3>5, Foremost
        <3>7. First(R, feed, closest) \in closest BY <3>6, FirstIn
        <3>8. Disputed(R, feed, near).row = First(R, feed, closest)
            BY <3>4 DEF Disputed, Decision
        <3> QED BY <2>3, <3>6, <3>7, <3>8
    <2>7. DecideMatch(R, feed, S).row \in {best, only, Disputed(R, feed, near).row}
             /\ (near = {} => DecideMatch(R, feed, S).row = best)
        BY <1>2, <2>1, <2>3, <2>4 DEF DecideMatch, Decision
    <2> QED BY <2>2, <2>5, <2>6, <2>7
<1> QED BY <1>1, <1>2

-----------------------------------------------------------------------------
(* What a run does with one record.                                        *)

LEMMA TryMatchRun ==
    ASSUME NEW run, NEW R0, NEW D, SoundRun(run, R0, D), NEW n \in Live(run.rows)
    PROVE  SoundRun(TryMatch(run, n), R0, D)
<1> DEFINE R == run.rows
<1>1. SoundRows(R) /\ SoundMatches(R, run.matches) /\ DOMAIN run = RunFields BY DEF SoundRun
<1>2. \A i \in DOMAIN R : SoundRow(R[i]) BY <1>1 DEF SoundRows
<1>3. n \in DOMAIN R BY DEF Live
<1>4. PICK able : able = {i \in Live(R) \ {n} : /\ UserEntered(R[i]) /\ R[i].amount = R[n].amount
                                                /\ Gap(R[i].day, R[n].day) <= MatchDays}
    OBVIOUS
<1>5. PICK T : T = {i \in able : \A j \in able : Confidence(R[n], R[i]) >= Confidence(R[n], R[j])}
    OBVIOUS
<1>6. PICK best : best = Min(T) OBVIOUS
<1>7. PICK merged : merged = Merged(R, run.matches, n, best) OBVIOUS
<1>8. TryMatch(run, n) =
        IF able = {} \/ Confidence(R[n], R[best]) < OfferScore THEN run
        ELSE IF Confidence(R[n], R[best]) >= AutoAcceptScore /\ CanMerge(R, n, best)
             THEN [run EXCEPT !.rows = merged.rows,
                              !.matches = merged.matches \cup {Match(n, best, "accepted")}]
        ELSE [run EXCEPT !.matches = @ \cup {Match(n, best, "pending")}]
    BY <1>4, <1>5, <1>6, <1>7 DEF TryMatch
<1>9. able # {} => best \in able
    <2> HAVE able # {}
    <2>1. able \in SUBSET DOMAIN R /\ IsFiniteSet(able) BY <1>1, <1>4, FiniteRows, FS_Subset
    <2>2. PICK f : f = [i \in able |-> Confidence(R[n], R[i])] OBVIOUS
    <2>3. f \in [able -> Int]
        <3>1. \A i \in able : Confidence(R[n], R[i]) \in Int
            BY <1>2, <1>3, <2>1, ConfidenceInt
        <3> QED BY <2>2, <3>1
    <2>4. T = {i \in able : \A j \in able : f[i] >= f[j]} BY <1>5, <2>2
    <2>5. T # {} BY <2>1, <2>3, <2>4, Foremost
    <2>6. T \in SUBSET Nat BY <1>1, <1>5, <2>1, FiniteRows
    <2> QED BY <1>5, <1>6, <2>5, <2>6, LeastOf
<1>10. PICK next : next = TryMatch(run, n) OBVIOUS
<1>11. CASE able = {} \/ Confidence(R[n], R[best]) < OfferScore BY <1>8, <1>11
<1>12. CASE ~(able = {} \/ Confidence(R[n], R[best]) < OfferScore)
    <2>1. best \in Live(R) /\ best # n BY <1>4, <1>9, <1>12
    <2>2. best \in DOMAIN R BY <2>1 DEF Live
    <2>3. CASE Confidence(R[n], R[best]) >= AutoAcceptScore /\ CanMerge(R, n, best)
        <3>1. /\ DOMAIN next = RunFields /\ next.rows = merged.rows
              /\ next.matches = merged.matches \cup {Match(n, best, "accepted")}
              /\ next.fresh = run.fresh /\ next.deferred = run.deferred
            BY <1>1, <1>8, <1>10, <1>12, <2>3 DEF RunFields
        <3>2. PICK kept, lost \in Live(R) :
                 /\ {kept, lost} = {n, best} /\ kept # lost
                 /\ SoundRows(next.rows) /\ DOMAIN next.rows = DOMAIN R /\ Steady(R, next.rows)
                 /\ next.rows[kept].live /\ next.rows[kept].gone = None /\ ~next.rows[lost].live
                 /\ next.rows[lost].gone = "merged"
                 /\ \A k \in DOMAIN R \ {kept, lost} : Like(next.rows[k], R[k])
                 /\ merged.matches = Cancelled(run.matches, {lost})
            <4>1. MergeLeaves(R, merged.rows, run.matches, merged.matches, n, best)
                BY <1>1, <1>7, <2>1, <2>3, MergedSound
            <4> QED BY <3>1, <4>1 DEF MergeLeaves
        <3>3. \A k \in Live(R) \ {lost} : next.rows[k].live BY <3>2 DEF Live, Like
        <3>4. Cancelled(run.matches, {lost}) \subseteq next.matches BY <3>1, <3>2
        <3>5. SoundMatches(next.rows, merged.matches) BY <1>1, <3>2, CancelledSound
        <3>6. SoundMatches(next.rows, next.matches)
            <4> SUFFICES ASSUME NEW m \in next.matches
                         PROVE  /\ DOMAIN m = {"synced", "manual", "status"}
                                /\ m.synced \in DOMAIN R /\ m.manual \in DOMAIN R
                BY <3>2 DEF SoundMatches
            <4>1. CASE m \in merged.matches BY <3>2, <3>5, <4>1 DEF SoundMatches
            <4>2. CASE m = Match(n, best, "accepted") BY <1>3, <2>2, <4>2 DEF Match
            <4> QED BY <3>1, <4>1, <4>2
        <3>7. \A i \in Linkless(next.rows) :
                 i \in Linkless(R) \/ \E m \in next.matches : Mentions(next.rows, m, i)
            <4> TAKE i \in Linkless(next.rows)
            <4>1. CASE i = kept
                <5>1. PICK m : m = Match(n, best, "accepted") OBVIOUS
                <5>2. m \in next.matches BY <3>1, <5>1
                <5>3. i \in {m.synced, m.manual} /\ m.status # "pending"
                    BY <3>2, <4>1, <5>1 DEF Match
                <5>4. Mentions(next.rows, m, i) BY <5>3 DEF Mentions
                <5> QED BY <5>2, <5>4
            <4>2. CASE i # kept
                <5>1. i \in DOMAIN R \ {kept, lost} BY <3>2, <4>2 DEF Linkless, Live
                <5>2. Like(next.rows[i], R[i]) BY <3>2, <5>1
                <5> QED BY <5>1, <5>2 DEF Linkless, Live, Like
            <4> QED BY <4>1, <4>2
        <3>8. /\ next.fresh \subseteq DOMAIN next.rows
              /\ \A k \in next.fresh : next.rows[k].gone \in {None, "merged"}
            BY <3>1, <3>2 DEF SoundRun, Like
        <3>9. SoundRun(next, R0, D) BY <3>1, <3>2, <3>3, <3>4, <3>6, <3>7, <3>8, RunStep
        <3> QED BY <1>10, <3>9
    <2>4. CASE ~(Confidence(R[n], R[best]) >= AutoAcceptScore /\ CanMerge(R, n, best))
        <3>1. /\ DOMAIN next = RunFields /\ next.rows = R
              /\ next.matches = run.matches \cup {Match(n, best, "pending")}
              /\ next.fresh = run.fresh /\ next.deferred = run.deferred
            BY <1>1, <1>8, <1>10, <1>12, <2>4 DEF RunFields
        <3>2. Steady(R, next.rows) BY <3>1 DEF Steady
        <3>3. \A k \in Live(R) \ {} : next.rows[k].live BY <3>1 DEF Live
        <3>4. Cancelled(run.matches, {}) \subseteq next.matches BY <3>1, NothingCancelled
        <3>5. SoundMatches(next.rows, next.matches)
            BY <1>1, <1>3, <2>2, <3>1 DEF SoundMatches, Match
        <3>6. /\ next.fresh \subseteq DOMAIN next.rows
              /\ \A k \in next.fresh : next.rows[k].gone \in {None, "merged"}
            BY <3>1 DEF SoundRun
        <3>7. SoundRun(next, R0, D) BY <1>1, <3>1, <3>2, <3>3, <3>4, <3>5, <3>6, RunStep
        <3> QED BY <1>10, <3>7
    <2> QED BY <2>3, <2>4
<1> QED BY <1>11, <1>12

(* A pair put to the person, both of whose rows are there.                  *)
LEMMA QueuedRun ==
    ASSUME NEW run, NEW R0, NEW D, SoundRun(run, R0, D),
           NEW n \in DOMAIN run.rows, NEW i \in DOMAIN run.rows, NEW consumed, NEW next,
           next = [run EXCEPT !.consumed = consumed,
                              !.matches = @ \cup {Match(n, i, "pending")}]
    PROVE  SoundRun(next, R0, D)
<1>2. /\ DOMAIN next = RunFields /\ next.rows = run.rows
      /\ next.matches = run.matches \cup {Match(n, i, "pending")}
      /\ next.fresh = run.fresh /\ next.deferred = run.deferred
    BY DEF SoundRun, RunFields
<1>3. Steady(run.rows, next.rows) BY <1>2 DEF Steady
<1>4. \A k \in Live(run.rows) \ {} : next.rows[k].live BY <1>2 DEF Live
<1>5. Cancelled(run.matches, {}) \subseteq next.matches BY <1>2, NothingCancelled
<1>6. SoundMatches(next.rows, next.matches) BY <1>2 DEF SoundRun, SoundMatches, Match
<1>7. /\ next.fresh \subseteq DOMAIN next.rows
      /\ \A k \in next.fresh : next.rows[k].gone \in {None, "merged"}
    BY <1>2 DEF SoundRun
<1>8. SoundRows(next.rows) BY <1>2 DEF SoundRun
<1> QED BY <1>2, <1>3, <1>4, <1>5, <1>6, <1>7, <1>8, RunStep

LEMMA IdentifiedRun ==
    ASSUME NEW run, NEW R0, NEW D, SoundRun(run, R0, D), NEW feed, SoundRecord(feed),
           NEW i \in Live(run.rows), run.rows[i].sync = feed.sync
    PROVE  SoundRun(Identified(run, i, feed), R0, D)
<1>1. SoundRows(run.rows) /\ SoundMatches(run.rows, run.matches) /\ DOMAIN run = RunFields
    BY DEF SoundRun
<1>2. i \in DOMAIN run.rows /\ run.rows[i].live BY DEF Live
<1>3. \A j \in Live(run.rows) : run.rows[j].sync = feed.sync => j = i
    BY <1>1 DEF SoundRows, SoundRecord
<1>4. CASE ~NeedsReview(run.rows[i], feed, FALSE)
    BY <1>3, <1>4, TakenRun DEF Identified
<1>5. CASE NeedsReview(run.rows[i], feed, FALSE)
    <2>1. PICK R : R = Released(run.rows, {i}) OBVIOUS
    <2>2. PICK row : row = Imported(feed) OBVIOUS
    <2>3. PICK next : next = Identified(run, i, feed) OBVIOUS
    <2>4. /\ SoundRows(R) /\ DOMAIN R = DOMAIN run.rows /\ Steady(run.rows, R)
          /\ \A j \in DOMAIN run.rows \ {i} : R[j] = run.rows[j]
          /\ R[i].sync = None /\ (R[i].live <=> run.rows[i].live)
          /\ R[i].gone = run.rows[i].gone
        BY <1>1, <1>2, <2>1, ReleasedSound
    <2>5. SoundRow(row) /\ row.live /\ row.source /\ row.gone = None /\ row.sync = feed.sync
        BY <2>2, ImportedSound DEF SoundRecord
    <2>6. \A j \in Live(R) : R[j].sync # row.sync
        <3> TAKE j \in Live(R)
        <3>1. CASE j = i BY <2>4, <2>5, <3>1 DEF SoundRecord
        <3>2. CASE j # i BY <1>3, <2>4, <2>5, <3>2 DEF Live
        <3> QED BY <3>1, <3>2
    <2>7. PICK n : n = Len(R) + 1 OBVIOUS
    <2>8. PICK Q : Q = Append(R, row) OBVIOUS
    <2>9. /\ SoundRows(Q) /\ Steady(R, Q) /\ n \notin DOMAIN R /\ Len(Q) = n
          /\ DOMAIN Q = DOMAIN R \cup {n} /\ Q[n] = row /\ \A j \in DOMAIN R : Q[j] = R[j]
        BY <2>4, <2>5, <2>6, <2>7, <2>8, AppendSound
    <2>10. /\ DOMAIN next = RunFields /\ next.rows = Q
           /\ next.matches = run.matches \cup {Match(Len(Q), i, "pending")}
           /\ next.fresh = run.fresh \cup {n} /\ next.deferred = run.deferred
        BY <1>1, <1>5, <2>1, <2>2, <2>3, <2>7, <2>8 DEF Identified, WithImport, RunFields
    <2>11. PICK m : m = Match(n, i, "pending") OBVIOUS
    <2>12. /\ DOMAIN m = {"synced", "manual", "status"} /\ m.synced = n /\ m.manual = i
           /\ m \in next.matches /\ next.matches = run.matches \cup {m}
        BY <2>9, <2>10, <2>11 DEF Match
    <2>13. Steady(run.rows, next.rows) BY <2>4, <2>9, <2>10, SteadyTwice
    <2>14. \A k \in Live(run.rows) \ {} : next.rows[k].live BY <2>4, <2>9, <2>10 DEF Live
    <2>15. Cancelled(run.matches, {}) \subseteq next.matches BY <2>12, NothingCancelled
    <2>16. SoundMatches(next.rows, next.matches)
        BY <1>1, <1>2, <2>4, <2>9, <2>10, <2>12 DEF SoundMatches
    <2>17. \A k \in Linkless(next.rows) :
             k \in Linkless(run.rows) \/ \E q \in next.matches : Mentions(next.rows, q, k)
        <3> TAKE k \in Linkless(next.rows)
        <3>1. k # n BY <2>5, <2>9, <2>10 DEF Linkless, SoundRecord
        <3>2. CASE k = i
            <4>1. Mentions(next.rows, m, i)
                BY <1>2, <2>4, <2>5, <2>9, <2>10, <2>12 DEF Mentions
            <4> QED BY <2>12, <3>2, <4>1
        <3>3. CASE k # i
            <4>1. k \in DOMAIN run.rows /\ next.rows[k] = run.rows[k]
                BY <2>4, <2>9, <2>10, <3>1, <3>3 DEF Linkless, Live
            <4> QED BY <4>1 DEF Linkless, Live
        <3> QED BY <3>2, <3>3
    <2>18. /\ next.fresh \subseteq DOMAIN next.rows
           /\ \A k \in next.fresh : next.rows[k].gone \in {None, "merged"}
        <3> SUFFICES ASSUME NEW k \in next.fresh
                     PROVE  k \in DOMAIN next.rows /\ next.rows[k].gone \in {None, "merged"}
            OBVIOUS
        <3>1. CASE k = n BY <2>5, <2>9, <2>10, <3>1
        <3>2. CASE k # n
            <4>1. k \in run.fresh BY <2>10, <3>2
            <4>2. k \in DOMAIN run.rows /\ run.rows[k].gone \in {None, "merged"}
                BY <4>1 DEF SoundRun
            <4>3. next.rows[k].gone = run.rows[k].gone
                BY <2>4, <2>9, <2>10, <4>2
            <4> QED BY <2>4, <2>9, <2>10, <4>2, <4>3
        <3> QED BY <3>1, <3>2
    <2>19. SoundRun(next, R0, D)
        BY <2>9, <2>10, <2>13, <2>14, <2>15, <2>16, <2>17, <2>18, RunStep
    <2> QED BY <2>3, <2>19
<1> QED BY <1>4, <1>5

LEMMA ActedRun ==
    ASSUME NEW run, NEW R0, NEW D, SoundRun(run, R0, D), NEW feed, SoundRecord(feed),
           \A j \in Live(run.rows) : run.rows[j].sync # feed.sync,
           NEW decision, decision.action \in {"auto", "review"} => decision.row \in Live(run.rows)
    PROVE  SoundRun(Acted(run, feed, decision), R0, D)
<1>1. PICK created : created = WithImport(run, feed) OBVIOUS
<1>2. PICK n : n = Len(run.rows) + 1 OBVIOUS
<1>3. /\ SoundRun(created, R0, D) /\ DOMAIN created.rows = DOMAIN run.rows \cup {n}
      /\ Len(created.rows) = n /\ created.rows[n].live
    BY <1>1, <1>2, ImportRun
<1>4. n \in Live(created.rows) BY <1>3 DEF Live
<1>5. CASE decision.action = "auto"
    <2>1. Acted(run, feed, decision) = Taken(run, decision.row, feed) BY <1>5 DEF Acted
    <2> QED BY <1>5, <2>1, TakenRun
<1>6. CASE decision.action = "review"
    <2>1. PICK next : next = Acted(run, feed, decision) OBVIOUS
    <2>3. PICK consumed : consumed = created.consumed \cup {decision.row} OBVIOUS
    <2>4. next = [created EXCEPT !.consumed = consumed,
                                 !.matches = @ \cup {Match(n, decision.row, "pending")}]
        BY <1>1, <1>3, <1>6, <2>1, <2>3 DEF Acted
    <2>2. n \in DOMAIN created.rows /\ decision.row \in DOMAIN created.rows
        BY <1>3, <1>6 DEF Live
    <2>5. SoundRun(next, R0, D) BY <1>3, <2>2, <2>4, QueuedRun
    <2> QED BY <2>1, <2>5
<1>7. CASE decision.action \notin {"auto", "review"}
    <2>1. Acted(run, feed, decision) = TryMatch(created, n) BY <1>1, <1>3, <1>7 DEF Acted
    <2> QED BY <1>3, <1>4, <2>1, TryMatchRun
<1> QED BY <1>5, <1>6, <1>7

LEMMA PostFeedRowRun ==
    ASSUME NEW run, NEW R0, NEW D, SoundRun(run, R0, D), NEW feed, SoundRecord(feed),
           NEW fed, NEW since, NEW strict
    PROVE  SoundRun(PostFeedRow(run, feed, fed, since, strict), R0, D)
<1> DEFINE R == run.rows
<1>1. SoundRows(R) /\ DOMAIN run = RunFields BY DEF SoundRun
<1>2. PICK alive : alive = Holders(R, feed.sync) \cap Live(R) OBVIOUS
<1>3. PICK S : S = Candidates(R, feed, run.consumed, fed, since) OBVIOUS
<1>4. PICK decision : decision = DecideMatch(R, feed, S) OBVIOUS
<1>5. S \subseteq Live(R) BY <1>3 DEF Candidates
<1>6. decision.action \in {"auto", "review"} => decision.row \in S
    <2>1. feed.day \in Nat BY DEF SoundRecord, SoundFeed
    <2>2. S \in SUBSET DOMAIN R BY <1>5 DEF Live
    <2> HIDE DEF R
    <2> QED BY <1>1, <1>4, <2>1, <2>2, DecisionIn
<1>7. CASE alive # {}
    <2>1. PICK i \in alive : TRUE BY <1>7
    <2>2. i \in Live(R) /\ R[i].sync = feed.sync BY <1>2 DEF Holders
    <2>3. \A j \in alive : j = i
        <3> TAKE j \in alive
        <3>1. j \in Live(R) /\ R[j].sync = feed.sync BY <1>2 DEF Holders
        <3> QED BY <1>1, <2>2, <3>1 DEF SoundRows, SoundRecord
    <2>4. alive = {i} /\ i \in Nat BY <1>1, <1>2, <2>1, <2>3, FiniteRows
    <2>5. Max(alive) = i BY <2>4 DEF Max
    <2>6. PostFeedRow(run, feed, fed, since, strict) = Identified(run, i, feed)
        BY <1>2, <1>7, <2>5 DEF PostFeedRow
    <2> QED BY <2>2, <2>6, IdentifiedRun
<1>8. CASE alive = {} /\ Holders(R, feed.sync) # {}
    <2>1. PostFeedRow(run, feed, fed, since, strict) = run BY <1>2, <1>8 DEF PostFeedRow
    <2> QED BY <2>1
<1>9. CASE alive = {} /\ Holders(R, feed.sync) = {} /\ strict /\ ~SettlesInStrictPass(decision)
    <2>1. PICK next : next = [run EXCEPT !.deferred = Append(@, feed)] OBVIOUS
    <2>2. PostFeedRow(run, feed, fed, since, strict) = next
        BY <1>2, <1>3, <1>4, <1>9, <2>1 DEF PostFeedRow
    <2>3. /\ DOMAIN next = RunFields /\ next.rows = run.rows /\ next.matches = run.matches
          /\ next.fresh = run.fresh /\ next.deferred = Append(run.deferred, feed)
        BY <1>1, <2>1 DEF RunFields
    <2>4. run.deferred \in Seq(Range(run.deferred)) BY DEF SoundRun
    <2>5. PICK n : n = Len(run.deferred) + 1 OBVIOUS
    <2>6. /\ next.deferred \in Seq(Range(next.deferred))
          /\ DOMAIN next.deferred = DOMAIN run.deferred \cup {n} /\ next.deferred[n] = feed
          /\ \A k \in DOMAIN run.deferred : next.deferred[k] = run.deferred[k]
        BY <2>3, <2>4, <2>5, OneLonger
    <2>7. \A k \in DOMAIN next.deferred : SoundRecord(next.deferred[k])
        BY <2>6 DEF SoundRun
    <2>8. SoundRun(next, R0, D) BY <2>3, <2>6, <2>7 DEF SoundRun
    <2> QED BY <2>2, <2>8
<1>10. CASE alive = {} /\ Holders(R, feed.sync) = {} /\ ~(strict /\ ~SettlesInStrictPass(decision))
    <2>1. PostFeedRow(run, feed, fed, since, strict) = Acted(run, feed, decision)
        BY <1>2, <1>3, <1>4, <1>10 DEF PostFeedRow
    <2>2. \A j \in Live(run.rows) : run.rows[j].sync # feed.sync
        BY <1>10 DEF Holders, Live
    <2>3. decision.action \in {"auto", "review"} => decision.row \in Live(run.rows)
        BY <1>5, <1>6
    <2> QED BY <2>1, <2>2, <2>3, ActedRun
<1> QED BY <1>7, <1>8, <1>9, <1>10

(* A pass is the recursion its definition says, and keeps a run sound.      *)
PassTable(f, m, start, feeds, fed, since, strict) ==
    f = [n \in 0..m |-> IF n = 0 THEN start
                        ELSE PostFeedRow(f[n - 1], feeds[n], fed, since, strict)]

LEMMA PassUnfolds ==
    ASSUME NEW start, NEW feeds, Len(feeds) \in Nat, NEW fed, NEW since, NEW strict
    PROVE  \E f : /\ PassTable(f, Len(feeds), start, feeds, fed, since, strict)
                  /\ Pass(start, feeds, fed, since, strict) = f[Len(feeds)]
<1> DEFINE N == Len(feeds)
<1> DEFINE Sat(f, m) == f = [n \in 0..m |->
                               IF n = 0 THEN start
                               ELSE PostFeedRow(f[n - 1], feeds[n], fed, since, strict)]
<1> DEFINE S == {m \in Nat : \E f : Sat(f, m)}
<1>1. 0 \in S
    <2> DEFINE f == [n \in 0..0 |-> start]
    <2>1. Sat(f, 0) OBVIOUS
    <2> QED BY <2>1
<1>2. ASSUME NEW m \in Nat, m \in S PROVE m + 1 \in S
    <2>1. PICK f : Sat(f, m) BY <1>2
    <2>2. PICK last : last = PostFeedRow(f[m], feeds[m + 1], fed, since, strict) OBVIOUS
    <2> DEFINE g == [n \in 0..(m + 1) |-> IF n <= m THEN f[n] ELSE last]
    <2>3. \A n \in 0..(m + 1) :
             g[n] = IF n = 0 THEN start
                    ELSE PostFeedRow(g[n - 1], feeds[n], fed, since, strict)
        <3> TAKE n \in 0..(m + 1)
        <3>1. CASE n = 0
            <4>1. 0 \in 0..m /\ 0 <= m OBVIOUS
            <4>2. f[0] = start BY <2>1, <4>1
            <4> QED BY <3>1, <4>1, <4>2
        <3>2. CASE n # 0 /\ n <= m
            <4>1. n \in 0..m /\ n - 1 \in 0..m /\ n - 1 <= m BY <3>2
            <4>2. f[n] = PostFeedRow(f[n - 1], feeds[n], fed, since, strict)
                BY <2>1, <3>2, <4>1
            <4>3. g[n] = f[n] /\ g[n - 1] = f[n - 1] BY <3>2, <4>1
            <4> QED BY <3>2, <4>2, <4>3
        <3>3. CASE n = m + 1
            <4>1. n - 1 = m /\ m \in 0..(m + 1) /\ n # 0 /\ ~(n <= m) BY <3>3
            <4>2. g[n] = last /\ g[m] = f[m] BY <3>3, <4>1
            <4> QED BY <2>2, <3>3, <4>1, <4>2
        <3> QED BY <3>1, <3>2, <3>3
    <2>4. g = [n \in 0..(m + 1) |-> g[n]] OBVIOUS
    <2> HIDE DEF g
    <2>5. Sat(g, m + 1) BY <2>3, <2>4
    <2> QED BY <2>5
<1> HIDE DEF S
<1>3. Nat \subseteq S BY <1>1, <1>2, Induct
<1>4. N \in S BY <1>3
<1>5. \E f : Sat(f, N) BY <1>4 DEF S
<1>6. PICK f : f = CHOOSE h : Sat(h, N) OBVIOUS
<1>7. Sat(f, N) BY <1>5, <1>6
<1>8. Pass(start, feeds, fed, since, strict) = f[N] BY <1>6 DEF Pass
<1> QED BY <1>7, <1>8 DEF PassTable

LEMMA PassRun ==
    ASSUME NEW start, NEW R0, NEW D, SoundRun(start, R0, D),
           NEW feeds, feeds \in Seq(Range(feeds)), \A n \in DOMAIN feeds : SoundRecord(feeds[n]),
           NEW fed, NEW since, NEW strict
    PROVE  SoundRun(Pass(start, feeds, fed, since, strict), R0, D)
<1>1. Len(feeds) \in Nat /\ DOMAIN feeds = 1..Len(feeds) OBVIOUS
<1>2. PICK f : /\ PassTable(f, Len(feeds), start, feeds, fed, since, strict)
               /\ Pass(start, feeds, fed, since, strict) = f[Len(feeds)]
    BY <1>1, PassUnfolds
<1> DEFINE S == {n \in Nat : n <= Len(feeds) => SoundRun(f[n], R0, D)}
<1>3. 0 \in S
    <2>1. 0 \in 0..Len(feeds) BY <1>1
    <2>2. f[0] = start BY <1>2, <2>1 DEF PassTable
    <2> QED BY <1>1, <2>2
<1>4. ASSUME NEW n \in Nat, n \in S PROVE n + 1 \in S
    <2> SUFFICES ASSUME n + 1 <= Len(feeds) PROVE SoundRun(f[n + 1], R0, D) OBVIOUS
    <2>1. /\ n + 1 \in 0..Len(feeds) /\ n + 1 # 0 /\ (n + 1) - 1 = n
          /\ n + 1 \in DOMAIN feeds /\ n <= Len(feeds)
        BY <1>1
    <2>2. f[n + 1] = PostFeedRow(f[n], feeds[n + 1], fed, since, strict)
        BY <1>2, <2>1 DEF PassTable
    <2>3. SoundRun(f[n], R0, D) BY <1>4, <2>1
    <2>4. SoundRecord(feeds[n + 1]) BY <2>1
    <2> QED BY <2>2, <2>3, <2>4, PostFeedRowRun
<1> HIDE DEF S
<1>5. Nat \subseteq S BY <1>3, <1>4, Induct
<1>6. Len(feeds) \in S BY <1>1, <1>5
<1>7. SoundRun(f[Len(feeds)], R0, D) BY <1>1, <1>6 DEF S
<1> QED BY <1>2, <1>7

LEMMA PostedRun ==
    ASSUME NEW D, SoundRows(rows), SoundMatches(rows, matches), AllTold(rows, matches, D),
           NEW feeds, feeds \in Seq(Range(feeds)), \A n \in DOMAIN feeds : SoundRecord(feeds[n]),
           NEW fed, NEW since
    PROVE  SoundRun(Posted(feeds, fed, since), rows, D)
<1>1. PICK start : start = [rows |-> rows, matches |-> matches, consumed |-> {}, fresh |-> {},
                            deferred |-> <<>>]
    OBVIOUS
<1>2. SoundRun(start, rows, D)
    <2>1. DOMAIN start = RunFields BY <1>1 DEF RunFields
    <2>2. /\ start.rows = rows /\ start.matches = matches /\ start.fresh = {}
          /\ start.deferred = << >>
        BY <1>1
    <2>3. start.deferred \in Seq(Range(start.deferred)) /\ DOMAIN start.deferred = {} BY <2>2
    <2>4. Steady(rows, start.rows) BY <2>2 DEF Steady
    <2> QED BY <2>1, <2>2, <2>3, <2>4 DEF SoundRun
<1>3. PICK strict : strict = Pass(start, feeds, fed, since, TRUE) OBVIOUS
<1>4. SoundRun(strict, rows, D) BY <1>2, <1>3, PassRun
<1>5. /\ strict.deferred \in Seq(Range(strict.deferred))
      /\ \A n \in DOMAIN strict.deferred : SoundRecord(strict.deferred[n])
    BY <1>4 DEF SoundRun
<1>6. SoundRun(Pass(strict, strict.deferred, fed, since, FALSE), rows, D)
    BY <1>4, <1>5, PassRun
<1>7. Posted(feeds, fed, since) = Pass(strict, strict.deferred, fed, since, FALSE)
    BY <1>1, <1>3 DEF Posted
<1> QED BY <1>6, <1>7

-----------------------------------------------------------------------------
(* The judging of absences.                                                *)

LEMMA ReidentifiedIn ==
    ASSUME NEW run, SoundRows(run.rows), run.fresh \subseteq DOMAIN run.rows,
           NEW i \in DOMAIN run.rows, Reviewable(run, i)
    PROVE  /\ Reidentified(run, i) \in run.fresh
           /\ run.rows[Reidentified(run, i)].posted # None
<1> DEFINE R == run.rows
<1> DEFINE feed(n) == [day |-> R[n].posted, payee |-> R[n].descriptor]
<1>1. PICK alike : alike = {n \in run.fresh \ {i} :
                              /\ R[n].posted # None
                              /\ Gap(R[n].posted, BankDate(R[i])) <= TightDays
                              /\ Score(R[i], feed(n)) >= StaleLinkScore}
    OBVIOUS
<1>2. PICK best : best = {n \in alike : \A k \in alike :
                            Score(R[i], feed(n)) >= Score(R[i], feed(k))}
    OBVIOUS
<1>3. Reidentified(run, i) = IF alike = {} THEN None ELSE Min(best)
    BY <1>1, <1>2 DEF Reidentified
<1>4. alike # {} BY <1>3 DEF Reviewable
<1>5. IsFiniteSet(alike) /\ alike \in SUBSET DOMAIN R BY <1>1, FiniteRows, FS_Subset
<1>6. PICK f : f = [n \in alike |-> Score(R[i], feed(n))] OBVIOUS
<1>7. f \in [alike -> Int]
    <2>1. \A n \in alike : Score(R[i], feed(n)) \in Int
        <3> TAKE n \in alike
        <3>1. SoundRow(R[n]) /\ SoundRow(R[i]) BY <1>5 DEF SoundRows
        <3>2. R[n].posted \in Nat BY <1>1, <3>1 DEF SoundRow
        <3>3. feed(n).day \in Nat BY <3>2
        <3> HIDE DEF feed
        <3> QED BY <3>1, <3>3, ScoreInt
    <2> QED BY <1>6, <2>1
<1> HIDE DEF feed
<1>8. best = {n \in alike : \A k \in alike : f[n] >= f[k]} BY <1>2, <1>6
<1>9. best # {} BY <1>4, <1>5, <1>7, <1>8, Foremost
<1>10. best \in SUBSET Nat BY <1>2, <1>5, FiniteRows
<1>11. Min(best) \in best BY <1>9, <1>10, LeastOf
<1> QED BY <1>1, <1>2, <1>3, <1>4, <1>11

LEMMA DroppedSound ==
    ASSUME NEW R, SoundRows(R), NEW S \in SUBSET Live(R),
           \A i \in S : R[i].cleared = "pending", NEW P, NEW Q, P = Released(R, S),
           Q = [i \in DOMAIN P |-> IF i \in S THEN Gone(P[i], "dropped") ELSE P[i]]
    PROVE  /\ SoundRows(Q) /\ DOMAIN Q = DOMAIN R /\ Steady(R, Q)
           /\ \A i \in DOMAIN R \ S : Q[i] = R[i]
           /\ \A i \in S : ~Q[i].live
<1>1. /\ SoundRows(P) /\ DOMAIN P = DOMAIN R /\ Steady(R, P)
      /\ \A i \in DOMAIN R \ S : P[i] = R[i]
      /\ \A i \in DOMAIN R \cap S : /\ P[i].sync = None /\ (P[i].mine <=> R[i].mine)
                                    /\ P[i].cleared = R[i].cleared
    BY ReleasedSound
<1>2. S \subseteq DOMAIN R BY DEF Live
<1>3. \A i \in DOMAIN R : SoundRow(P[i]) /\ SoundRow(R[i]) BY <1>1 DEF SoundRows
<1>4. \A i \in S : /\ SoundRow(Q[i]) /\ ~Q[i].live /\ Q[i].cleared = "pending"
    <2> TAKE i \in S
    <2>1. ~P[i].mine /\ P[i].sync = None /\ P[i].cleared = "pending"
        BY <1>1, <1>2, <1>3 DEF SoundRow
    <2>2. Q[i] = Gone(P[i], "dropped") BY <1>1, <1>2
    <2>3. PICK p : p = P[i] OBVIOUS
    <2>4. SoundRow(p) /\ ~p.mine /\ p.sync = None /\ p.cleared = "pending"
        BY <1>2, <1>3, <2>1, <2>3
    <2>5. PICK how : how = "dropped" OBVIOUS
    <2>6. how \in Fates BY <2>5
    <2>7. /\ SoundRow(Gone(p, how)) /\ ~Gone(p, how).live
          /\ Gone(p, how).cleared = p.cleared
        BY <2>4, <2>6, GoneSound
    <2> QED BY <2>2, <2>3, <2>4, <2>5, <2>7
<1>5. \A i \in DOMAIN R \ S : Q[i] = R[i] BY <1>1
<1>6. Q = [i \in DOMAIN R |-> Q[i]] BY <1>1
<1>7. SoundRows(Q) /\ DOMAIN Q = DOMAIN R
    <2>1. \A i \in DOMAIN R : SoundRow(Q[i]) BY <1>3, <1>4, <1>5
    <2>2. \A i \in DOMAIN R : Q[i].live /\ Q[i].sync # None
                                => R[i].live /\ Q[i].sync = R[i].sync
        BY <1>4, <1>5
    <2> QED BY <1>6, <2>1, <2>2, PointwiseSound
<1>8. Steady(R, Q)
    <2>1. \A i \in S : R[i].gone # "merged" BY <1>2, <1>3 DEF Live, SoundRow
    <2> QED BY <1>4, <1>5, <1>7, <2>1 DEF Steady
<1> QED BY <1>4, <1>5, <1>7, <1>8

LEMMA JudgedSound ==
    ASSUME NEW R0, NEW run, SoundRun(run, R0, DOMAIN absences),
           DOMAIN absences \subseteq DOMAIN run.rows,
           NEW feeds, NEW fed, NEW from, NEW next, next = Judged(run, feeds, fed, from)
    PROVE  /\ SoundRows(next.rows) /\ SoundMatches(next.rows, next.matches)
           /\ DOMAIN next.absences \subseteq DOMAIN next.rows
           /\ AllTold(next.rows, next.matches, DOMAIN next.absences)
           /\ Steady(R0, next.rows)
<1> DEFINE R == run.rows
<1>1. SoundRows(R) /\ SoundMatches(R, run.matches) /\ DOMAIN run = RunFields BY DEF SoundRun
<1>2. CASE fed = {}
    <2>1. next.rows = R /\ next.matches = run.matches /\ next.absences = absences
        BY <1>2 DEF Judged
    <2> QED BY <2>1 DEF SoundRun
<1>3. CASE fed # {}
    <2>1. PICK holds : holds = {i \in Live(R) : /\ SyncCreatedPending(R[i])
                                                /\ R[i].sync \notin fed /\ R[i].day >= from}
        OBVIOUS
    <2>2. PICK theirs : theirs = {i \in Live(R) : /\ UserRowLinkedToHold(R[i])
                                                  /\ R[i].sync \notin fed /\ R[i].day >= from}
        OBVIOUS
    <2>3. PICK dropped : dropped = DropHolds(run, holds) OBVIOUS
    <2>4. PICK asked : asked = {i \in theirs : Reviewable(dropped, i)} OBVIOUS
    <2>5. PICK judged : judged = Unlink(dropped, theirs) OBVIOUS
    <2>6. /\ next.rows = judged.rows /\ next.matches = judged.matches
          /\ \E gone \in SUBSET Live(R) :
                DOMAIN next.absences = gone \cup (theirs \ asked) \cup holds \cup DOMAIN absences
        <3> DEFINE postings == {feeds[n].day : n \in {m \in DOMAIN feeds : feeds[m].posted}}
        <3> DEFINE lost == IF postings = {} THEN {}
                           ELSE {i \in Unreported(R, PostedBankLink, BankDate,
                                                  Max({from, Min(postings)}), fed) :
                                   ~StillMissing(i)}
        <3>1. lost \in SUBSET Live(R) BY DEF Unreported
        <3>2. next.rows = judged.rows /\ next.matches = judged.matches
            BY <1>3, <2>1, <2>2, <2>3, <2>5 DEF Judged, Unreported
        <3>3. DOMAIN next.absences = lost \cup (theirs \ asked) \cup holds \cup DOMAIN absences
            BY <1>3, <2>1, <2>2, <2>3, <2>4 DEF Judged, Unreported
        <3> QED BY <3>1, <3>2, <3>3
    <2>7. PICK gone \in SUBSET Live(R) :
             DOMAIN next.absences = gone \cup (theirs \ asked) \cup holds \cup DOMAIN absences
        BY <2>6
    <2> DEFINE P == dropped.rows
    <2> DEFINE Q == next.rows
    <2>8. /\ DOMAIN dropped = RunFields /\ dropped.matches = Cancelled(run.matches, holds)
          /\ dropped.fresh = run.fresh
          /\ SoundRows(P) /\ DOMAIN P = DOMAIN R /\ Steady(R, P)
          /\ \A i \in DOMAIN R \ holds : P[i] = R[i]
          /\ \A i \in holds : ~P[i].live
        <3>1. PICK G : G = Released(R, holds) OBVIOUS
        <3>2. /\ DOMAIN dropped = RunFields /\ dropped.matches = Cancelled(run.matches, holds)
              /\ dropped.fresh = run.fresh
              /\ P = [i \in DOMAIN G |-> IF i \in holds THEN Gone(G[i], "dropped") ELSE G[i]]
            BY <1>1, <2>3, <3>1 DEF DropHolds, RunFields
        <3>3. holds \in SUBSET Live(R) BY <2>1
        <3>4. \A i \in holds : R[i].cleared = "pending" BY <2>1 DEF SyncCreatedPending
        <3> HIDE DEF R, P
        <3> QED BY <1>1, <3>1, <3>2, <3>3, <3>4, DroppedSound
    <2>9. theirs \subseteq DOMAIN R /\ theirs \cap holds = {}
        BY <2>1, <2>2 DEF Live, SyncCreatedPending, UserRowLinkedToHold
    <2>10. /\ Q = Released(P, theirs)
           /\ next.matches = dropped.matches \cup
                {Match(Reidentified(dropped, i), i, "pending") : i \in asked}
        BY <2>4, <2>5, <2>6, <2>8 DEF Unlink, RunFields
    <2>11. /\ SoundRows(Q) /\ DOMAIN Q = DOMAIN R /\ Steady(P, Q)
           /\ \A i \in DOMAIN R \ theirs : Q[i] = P[i]
           /\ \A i \in theirs : (Q[i].live <=> P[i].live) /\ Q[i].gone = P[i].gone
        <3> HIDE DEF P, Q
        <3> QED BY <2>8, <2>9, <2>10, ReleasedSound
    <2>12. Steady(R, Q) /\ Steady(R0, Q) BY <2>8, <2>11, SteadyTwice DEF SoundRun
    <2>13. \A i \in asked : /\ Reidentified(dropped, i) \in run.fresh
                            /\ P[Reidentified(dropped, i)].posted # None
        <3> TAKE i \in asked
        <3>1. dropped.fresh \subseteq DOMAIN P BY <2>8 DEF SoundRun
        <3>2. i \in DOMAIN P /\ Reviewable(dropped, i) BY <2>4, <2>8, <2>9
        <3> QED BY <2>8, <3>1, <3>2, ReidentifiedIn
    <2>14. \A i \in asked : LET n == Reidentified(dropped, i)
                            IN  n \in DOMAIN Q /\ (Q[n].live \/ Q[n].gone = "merged")
        <3> TAKE i \in asked
        <3>1. PICK n : n = Reidentified(dropped, i) OBVIOUS
        <3>2. n \in DOMAIN R /\ R[n].gone \in {None, "merged"} /\ P[n].posted # None
            BY <2>13, <3>1 DEF SoundRun
        <3>3. n \notin holds
            <4>1. SUFFICES ASSUME n \in holds PROVE FALSE OBVIOUS
            <4>2. R[n].cleared = "pending" /\ SoundRow(P[n])
                BY <2>1, <2>8, <3>2, <4>1 DEF SyncCreatedPending, SoundRows
            <4>3. P[n].cleared = "pending"
                <5>1. PICK G : G = Released(R, holds) OBVIOUS
                <5>2. P[n] = Gone(G[n], "dropped") /\ n \in DOMAIN G
                    BY <1>1, <2>3, <3>2, <4>1, <5>1 DEF DropHolds, RunFields, Released
                <5>3. SoundRow(G[n]) /\ G[n].cleared = "pending"
                    <6> HIDE DEF R
                    <6> QED BY <1>1, <3>2, <4>1, <4>2, <5>1, ReleasedSound DEF SoundRows
                <5>4. DOMAIN G[n] = RowFields BY <5>3, FieldsOfRow
                <5> QED BY <5>2, <5>3, <5>4 DEF Gone, RowFields
            <4> QED BY <3>2, <4>2, <4>3 DEF SoundRow
        <3>4. P[n] = R[n] /\ SoundRow(R[n]) BY <1>1, <2>8, <3>2, <3>3 DEF SoundRows
        <3>5. Q[n].gone = R[n].gone /\ (Q[n].live <=> R[n].live) BY <2>11, <3>2, <3>4
        <3>6. R[n].live \/ R[n].gone = "merged" BY <3>2, <3>4 DEF SoundRow
        <3> QED BY <2>11, <3>1, <3>2, <3>5, <3>6
    <2>15. SoundMatches(Q, next.matches)
        <3>1. SoundMatches(Q, dropped.matches)
            <4> HIDE DEF R, Q
            <4> QED BY <1>1, <2>8, <2>11, CancelledSound
        <3> SUFFICES ASSUME NEW m \in next.matches
                     PROVE  /\ DOMAIN m = {"synced", "manual", "status"}
                            /\ m.synced \in DOMAIN Q /\ m.manual \in DOMAIN Q
            BY DEF SoundMatches
        <3>2. CASE m \in dropped.matches BY <3>1, <3>2 DEF SoundMatches
        <3>3. CASE \E i \in asked : m = Match(Reidentified(dropped, i), i, "pending")
            <4>1. PICK i \in asked : m = Match(Reidentified(dropped, i), i, "pending") BY <3>3
            <4>2. i \in DOMAIN Q /\ Reidentified(dropped, i) \in DOMAIN Q
                BY <2>4, <2>9, <2>11, <2>14
            <4> QED BY <4>1, <4>2 DEF Match
        <3> QED BY <2>10, <3>2, <3>3
    <2>16. DOMAIN next.absences \subseteq DOMAIN Q
        BY <2>1, <2>7, <2>9, <2>11 DEF Live
    <2>17. \A k \in Live(R) \ holds : Q[k].live
        <3> TAKE k \in Live(R) \ holds
        <3>1. k \in DOMAIN R /\ R[k].live /\ P[k] = R[k] BY <2>8 DEF Live
        <3> QED BY <2>11, <3>1
    <2>18. AllTold(Q, next.matches, DOMAIN next.absences)
        <3> SUFFICES ASSUME NEW i \in Linkless(Q), i \notin DOMAIN next.absences
                     PROVE  \E m \in next.matches : Mentions(Q, m, i)
            BY DEF AllTold
        <3>1. CASE i \in theirs
            <4>1. i \in asked BY <2>7, <3>1
            <4>2. PICK n : n = Reidentified(dropped, i) OBVIOUS
            <4>3. PICK m : m = Match(n, i, "pending") OBVIOUS
            <4>4. m \in next.matches /\ m.synced = n /\ m.manual = i
                BY <2>10, <4>1, <4>2, <4>3 DEF Match
            <4>5. Q[n].live \/ Q[n].gone = "merged" BY <2>14, <4>1, <4>2
            <4>6. Q[i].live BY DEF Linkless, Live
            <4>7. Mentions(Q, m, i) BY <4>4, <4>5, <4>6 DEF Mentions
            <4> QED BY <4>4, <4>7
        <3>2. CASE i \notin theirs
            <4>1. i \in DOMAIN R /\ Q[i] = P[i] /\ Q[i].live /\ Q[i].source /\ Q[i].sync = None
                BY <2>11, <3>2 DEF Linkless, Live
            <4>2. i \notin holds BY <2>8, <4>1
            <4>3. i \in Linkless(R) BY <2>8, <4>1, <4>2 DEF Linkless, Live
            <4>4. i \notin DOMAIN absences BY <2>7
            <4>5. \E m \in run.matches : Mentions(R, m, i)
                BY <4>3, <4>4 DEF SoundRun, AllTold
            <4>6. Cancelled(run.matches, holds) \subseteq next.matches BY <2>8, <2>10
            <4>7. PICK P1 : P1 = R OBVIOUS
            <4>8. PICK Q1 : Q1 = Q OBVIOUS
            <4>9. PICK M1, N1 : M1 = run.matches /\ N1 = next.matches OBVIOUS
            <4>10. /\ Steady(P1, Q1) /\ SoundMatches(P1, M1) /\ Cancelled(M1, holds) \subseteq N1
                   /\ \A k \in Live(P1) \ holds : Q1[k].live
                   /\ \E m \in M1 : Mentions(P1, m, i)
                BY <1>1, <2>12, <2>17, <4>5, <4>6, <4>7, <4>8, <4>9
            <4>11. \E m \in N1 : Mentions(Q1, m, i) BY <4>10, MentionsKept
            <4> QED BY <4>8, <4>9, <4>11
        <3> QED BY <3>1, <3>2
    <2> QED BY <2>11, <2>12, <2>15, <2>16, <2>18
<1> QED BY <1>2, <1>3

-----------------------------------------------------------------------------
(* The inductive invariant.                                                *)

BankInv == TypeOK /\ AllTold(rows, matches, DOMAIN absences)
Kept == BankInv' /\ Steady(rows, rows')

LEMMA SteadySame == ASSUME NEW R PROVE Steady(R, R)
BY DEF Steady

(* A step of the bank's, or of the link, leaves the register alone.         *)
LEMMA RegisterKept ==
    ASSUME BankInv, UNCHANGED Register, SoundBank(bank'), today' \in Days,
           link.stamp' \in StampsOf(today')
    PROVE  Kept
<1>1. rows' = rows /\ matches' = matches /\ absences' = absences BY DEF Register
<1>2. AllTold(rows', matches', DOMAIN absences') BY <1>1 DEF BankInv
<1>3. TypeOK' BY <1>1 DEF BankInv, TypeOK
<1>4. Steady(rows, rows') BY <1>1, SteadySame
<1> QED BY <1>2, <1>3, <1>4 DEF BankInv, Kept

(* A step of the person's leaves the bank alone.                            *)
LEMMA PersonKept ==
    ASSUME BankInv, Keep, SoundRows(rows'), SoundMatches(rows', matches'),
           absences' = absences, AllTold(rows', matches', DOMAIN absences), Steady(rows, rows')
    PROVE  Kept
<1>1. bank' = bank /\ today' = today /\ link' = link BY DEF Keep, BankKeeps
<1>2. DOMAIN absences \subseteq DOMAIN rows' BY DEF BankInv, TypeOK, Steady
<1> QED BY <1>1, <1>2 DEF BankInv, TypeOK, Kept

LEMMA ServeSound ==
    ASSUME BankInv, NEW window, NEW account, Serve(window, account)
    PROVE  Kept
<1> DEFINE Answered(order, feeds, fed, run) ==
        /\ feeds = [n \in DOMAIN order |-> FeedRecord(order[n])]
        /\ fed = {feeds[n].sync : n \in DOMAIN feeds}
        /\ run = Judged(Posted(feeds, fed, window.since), feeds, fed, JudgedFrom(window))
        /\ rows' = run.rows /\ matches' = run.matches /\ absences' = run.absences
        /\ link' = [id |-> account.id, name |-> account.name, stamp |-> today]
        /\ BankKeeps
<1>0. PICK answer \in Answers(window) :
         \E order \in SetToSeqs(answer) : \E feeds, fed, run : Answered(order, feeds, fed, run)
    BY Zenon DEF Serve
<1>a. PICK order \in SetToSeqs(answer) : \E feeds, fed, run : Answered(order, feeds, fed, run)
    BY <1>0
<1>1. PICK feeds, fed, run : Answered(order, feeds, fed, run) BY <1>a
<1>2. answer \subseteq Reported BY <1>0 DEF Answers
<1>3. SoundBank(bank) /\ Reported \subseteq Purchases /\ today \in Days
    BY DEF BankInv, TypeOK, SoundBank, Reported
<1>4. IsFiniteSet(answer) BY <1>2, <1>3, FS_Subset
<1>5. PICK N : N = Cardinality(answer) OBVIOUS
<1>6. N \in Nat BY <1>4, <1>5, FS_CardinalityType
<1>7. order \in [1..N -> answer] BY <1>a, <1>5 DEF SetToSeqs
<1>8. DOMAIN feeds = 1..N /\ \A n \in 1..N : feeds[n] = FeedRecord(order[n]) BY <1>1, <1>7
<1>9. feeds \in Seq(Range(feeds))
    <2>1. feeds \in [1..N -> Range(feeds)] BY <1>1, <1>8 DEF Range
    <2> QED BY <1>6, <2>1
<1>10. \A n \in DOMAIN feeds : SoundRecord(feeds[n])
    <2> TAKE n \in DOMAIN feeds
    <2>1. PICK p : p = order[n] OBVIOUS
    <2>2. p \in Reported BY <1>2, <1>7, <1>8, <2>1
    <2>3. /\ p \in Purchases /\ bank[p].version \in Nat /\ bank[p].posted \in BOOLEAN
          /\ bank[p].day \in Days
        BY <1>3, <2>2 DEF SoundBank, Reported
    <2>4. /\ feeds[n].sync = <<p, bank[p].version>> /\ feeds[n].posted = bank[p].posted
          /\ feeds[n].day = bank[p].day
        BY <1>8, <2>1 DEF FeedRecord, IdOf
    <2>5. feeds[n].sync # None
        <3>1. <<p, bank[p].version>> \in Purchases \X Nat BY <2>3
        <3> QED BY <2>4, <3>1
    <2>6. SoundFeed(feeds[n]) BY <2>3, <2>4 DEF SoundFeed
    <2> QED BY <2>5, <2>6 DEF SoundRecord
<1>11. PICK D : D = DOMAIN absences OBVIOUS
<1>12. PICK posted : posted = Posted(feeds, fed, window.since) OBVIOUS
<1>13. SoundRun(posted, rows, D)
    <2>1. SoundRows(rows) /\ SoundMatches(rows, matches) /\ AllTold(rows, matches, D)
        BY <1>11 DEF BankInv, TypeOK
    <2> QED BY <1>9, <1>10, <1>12, <2>1, PostedRun
<1>14. DOMAIN absences \subseteq DOMAIN posted.rows
    BY <1>13 DEF BankInv, TypeOK, SoundRun, Steady
<1>15. PICK from : from = JudgedFrom(window) OBVIOUS
<1>16. run = Judged(posted, feeds, fed, from) BY <1>1, <1>12, <1>15
<1>17. /\ SoundRows(run.rows) /\ SoundMatches(run.rows, run.matches)
       /\ DOMAIN run.absences \subseteq DOMAIN run.rows
       /\ AllTold(run.rows, run.matches, DOMAIN run.absences)
       /\ Steady(rows, run.rows)
    BY <1>11, <1>13, <1>14, <1>16, JudgedSound
<1>18. bank' = bank /\ today' = today /\ link.stamp' = today BY <1>1 DEF BankKeeps
<1>19. link.stamp' \in StampsOf(today') BY <1>3, <1>18 DEF StampsOf
<1>20. TypeOK' BY <1>1, <1>3, <1>17, <1>18, <1>19 DEF TypeOK
<1>21. AllTold(rows', matches', DOMAIN absences') BY <1>1, <1>17
<1> QED BY <1>1, <1>17, <1>20, <1>21 DEF BankInv, Kept

-----------------------------------------------------------------------------
(* The bank.                                                               *)

LEMMA SaysSound ==
    ASSUME BankInv, NEW p \in Purchases, NEW record, Says(p, record),
           DOMAIN record = DOMAIN Unsaid, record.version \in Nat, record.posted \in BOOLEAN,
           record.day \in Days
    PROVE  Kept
<1>1. SoundBank(bank) BY DEF BankInv, TypeOK
<1>2. /\ bank' = [bank EXCEPT ![p] = record] /\ link' = link /\ today' = today
      /\ UNCHANGED Register
    BY DEF Says
<1>3. SoundBank(bank')
    <2>1. DOMAIN bank' = Purchases BY <1>1, <1>2 DEF SoundBank
    <2>2. \A q \in Purchases : bank'[q] = IF q = p THEN record ELSE bank[q]
        BY <1>1, <1>2 DEF SoundBank
    <2> QED BY <1>1, <2>1, <2>2 DEF SoundBank
<1>4. today' \in Days /\ link.stamp' \in StampsOf(today') BY <1>2 DEF BankInv, TypeOK
<1> QED BY <1>2, <1>3, <1>4, RegisterKept

LEMMA BankSteps ==
    ASSUME BankInv, Announce \/ Post \/ Omit \/ Return
    PROVE  Kept
<1>1. SoundBank(bank) /\ DOMAIN bank = Purchases /\ Recent \subseteq Days
    BY DEF BankInv, TypeOK, SoundBank, Recent
<1>2. \A p \in Purchases : DOMAIN bank[p] = {"state", "version", "amount", "posted", "day"}
    BY <1>1 DEF SoundBank, Unsaid
<1>3. CASE Announce
    <2>1. PICK p \in DOMAIN bank, posted \in BOOLEAN, day \in Recent :
             Says(p, [state |-> "reported", version |-> 1, amount |-> purchases[p].amount,
                      posted |-> posted, day |-> day])
        BY <1>3 DEF Announce
    <2>2. PICK record : record = [state |-> "reported", version |-> 1,
                                  amount |-> purchases[p].amount, posted |-> posted, day |-> day]
        OBVIOUS
    <2>3. /\ DOMAIN record = DOMAIN Unsaid /\ record.version \in Nat
          /\ record.posted \in BOOLEAN /\ record.day \in Days
        BY <1>1, <2>2 DEF Unsaid
    <2> QED BY <1>1, <2>1, <2>2, <2>3, SaysSound
<1>4. CASE Post
    <2>1. PICK p \in Reported, extra \in {0, Tip}, fresh \in {0, 1}, day \in Recent :
             Says(p, [bank[p] EXCEPT !.posted = TRUE, !.amount = @ + extra,
                                     !.version = @ + fresh, !.day = day])
        BY <1>4 DEF Post
    <2>2. PICK record : record = [bank[p] EXCEPT !.posted = TRUE, !.amount = @ + extra,
                                                 !.version = @ + fresh, !.day = day]
        OBVIOUS
    <2>3. p \in Purchases BY <1>1, <2>1 DEF Reported
    <2>4. bank[p].version \in Nat BY <1>1, <2>3 DEF SoundBank
    <2>5. DOMAIN record = DOMAIN Unsaid BY <1>2, <2>2, <2>3 DEF Unsaid
    <2>6. record.version = bank[p].version + fresh /\ record.posted = TRUE /\ record.day = day
        BY <1>2, <2>2, <2>3
    <2>7. record.version \in Nat
        <3>1. PICK v \in Nat : v = bank[p].version BY <2>4
        <3>2. v + fresh \in Nat BY <2>1
        <3> QED BY <2>6, <3>1, <3>2
    <2>8. record.posted \in BOOLEAN /\ record.day \in Days BY <1>1, <2>6
    <2> QED BY <2>1, <2>2, <2>3, <2>5, <2>7, <2>8, SaysSound
<1>5. CASE Omit
    <2>1. PICK p \in Reported : Says(p, [bank[p] EXCEPT !.state = "omitted"])
        BY <1>5 DEF Omit
    <2>2. PICK record : record = [bank[p] EXCEPT !.state = "omitted"] OBVIOUS
    <2>3. p \in Purchases /\ bank[p].state # "unsaid" BY <1>1, <2>1 DEF Reported
    <2>4. /\ DOMAIN record = DOMAIN Unsaid /\ record.version \in Nat
          /\ record.posted \in BOOLEAN /\ record.day \in Days
        BY <1>1, <1>2, <2>2, <2>3 DEF SoundBank, Unsaid
    <2> QED BY <2>1, <2>2, <2>3, <2>4, SaysSound
<1>6. CASE Return
    <2>1. PICK p \in DOMAIN bank, posted \in BOOLEAN :
             /\ bank[p].state = "omitted"
             /\ Says(p, [bank[p] EXCEPT !.state = "reported", !.posted = posted])
        BY <1>6 DEF Return
    <2>2. PICK record : record = [bank[p] EXCEPT !.state = "reported", !.posted = posted]
        OBVIOUS
    <2>3. p \in Purchases /\ bank[p].state # "unsaid" BY <1>1, <2>1
    <2>4. DOMAIN record = DOMAIN Unsaid /\ record.version \in Nat /\ record.day \in Days
        BY <1>1, <1>2, <2>2, <2>3 DEF SoundBank, Unsaid
    <2>5. record.posted = posted BY <1>2, <2>2, <2>3
    <2>6. record.posted \in BOOLEAN BY <2>1, <2>5
    <2> QED BY <2>1, <2>2, <2>3, <2>4, <2>6, SaysSound
<1> QED BY <1>3, <1>4, <1>5, <1>6

LEMMA ReissueSound == ASSUME BankInv, Reissue PROVE Kept
<1>1. SoundBank(bank) BY DEF BankInv, TypeOK
<1>2. /\ bank' = [p \in DOMAIN bank |-> [bank[p] EXCEPT !.version = @ + 1]]
      /\ link' = link /\ today' = today /\ UNCHANGED Register
    BY DEF Reissue
<1>3. SoundBank(bank')
    <2>1. DOMAIN bank' = Purchases BY <1>1, <1>2 DEF SoundBank
    <2>2. ASSUME NEW p \in Purchases
          PROVE  /\ DOMAIN bank'[p] = DOMAIN Unsaid
                 /\ bank'[p].version \in Nat /\ bank'[p].posted \in BOOLEAN
                 /\ bank'[p].state # "unsaid" => bank'[p].day \in Days
        <3>1. PICK b : b = bank[p] OBVIOUS
        <3>2. bank'[p] = [b EXCEPT !.version = @ + 1] BY <1>1, <1>2, <3>1 DEF SoundBank
        <3>3. /\ DOMAIN b = {"state", "version", "amount", "posted", "day"}
              /\ b.version \in Nat /\ b.posted \in BOOLEAN
              /\ b.state # "unsaid" => b.day \in Days
            BY <1>1, <3>1 DEF SoundBank, Unsaid
        <3> QED BY <3>2, <3>3 DEF Unsaid
    <2> QED BY <2>1, <2>2 DEF SoundBank
<1>4. today' \in Days /\ link.stamp' \in StampsOf(today') BY <1>2 DEF BankInv, TypeOK
<1> QED BY <1>2, <1>3, <1>4, RegisterKept

LEMMA TickSound == ASSUME BankInv, Tick PROVE Kept
<1>1. PICK T : T = {d \in Days : d > today} OBVIOUS
<1>2. T # {} /\ today' = Min(T) /\ bank' = bank /\ link' = link /\ UNCHANGED Register
    BY <1>1 DEF Tick
<1>3. T \in SUBSET Nat BY <1>1
<1>4. today' \in T BY <1>2, <1>3, LeastOf
<1>5. SoundBank(bank) /\ today \in Days /\ link.stamp \in StampsOf(today)
    BY DEF BankInv, TypeOK
<1>6. today' \in Days /\ today' > today BY <1>1, <1>4
<1>7. StampsOf(today) \subseteq StampsOf(today')
    <2>1. PICK t, u \in Days : t = today /\ u = today' BY <1>5, <1>6
    <2>2. t < u BY <1>6, <2>1
    <2>3. \A d \in Days : d <= t => d <= u BY <2>2
    <2> QED BY <2>1, <2>3 DEF StampsOf
<1> QED BY <1>2, <1>5, <1>6, <1>7, RegisterKept

LEMMA RelinkSound == ASSUME BankInv, Relink PROVE Kept
<1>1. link.stamp' = None /\ bank' = bank /\ today' = today /\ UNCHANGED Register
    BY DEF Relink, BankKeeps, Register
<1>2. SoundBank(bank') /\ today' \in Days BY <1>1 DEF BankInv, TypeOK
<1>3. link.stamp' \in StampsOf(today') BY <1>1 DEF StampsOf
<1> QED BY <1>1, <1>2, <1>3, RegisterKept

-----------------------------------------------------------------------------
(* The person.                                                             *)

LEMMA AllToldKept ==
    ASSUME NEW R, NEW Q, Steady(R, Q), NEW M, SoundMatches(R, M), NEW S, NEW N, NEW D,
           Cancelled(M, S) \subseteq N, \A k \in Live(R) \ S : Q[k].live, AllTold(R, M, D),
           \A i \in Linkless(Q) :
              i \in Linkless(R) \/ i \in D \/ \E m \in N : Mentions(Q, m, i)
    PROVE  AllTold(Q, N, D)
<1> SUFFICES ASSUME NEW i \in Linkless(Q), i \notin D
             PROVE  \E m \in N : Mentions(Q, m, i)
    BY DEF AllTold
<1>1. CASE i \in Linkless(R)
    <2>1. \E m \in M : Mentions(R, m, i) BY <1>1 DEF AllTold
    <2> QED BY <2>1, MentionsKept
<1> QED BY <1>1

LEMMA RowsOf ==
    ASSUME BankInv
    PROVE  /\ SoundRows(rows) /\ SoundMatches(rows, matches)
           /\ AllTold(rows, matches, DOMAIN absences)
           /\ DOMAIN absences \subseteq DOMAIN rows
           /\ \A i \in DOMAIN rows : SoundRow(rows[i])
BY DEF BankInv, TypeOK, SoundRows

LEMMA EnterSound == ASSUME BankInv, Enter PROVE Kept
<1>1. PICK p \in DOMAIN purchases :
         \E payee \in {purchases[p].payee, OwnName} :
            /\ Writes(Append(rows, [Row(purchases[p].amount, today, "uncleared", payee)
                                     EXCEPT !.of = p]))
            /\ UNCHANGED <<matches, absences>>
    BY DEF Enter
<1>2. PICK payee \in {purchases[p].payee, OwnName} :
         /\ Writes(Append(rows, [Row(purchases[p].amount, today, "uncleared", payee)
                                  EXCEPT !.of = p]))
         /\ UNCHANGED <<matches, absences>>
    BY <1>1
<1>3. PICK row : row = [Row(purchases[p].amount, today, "uncleared", payee) EXCEPT !.of = p]
    OBVIOUS
<1>4. today \in Days BY DEF BankInv, TypeOK
<1>5. SoundRow(row) /\ ~row.source /\ row.sync = None
    <2>1. PICK a, day : a = purchases[p].amount /\ day = today OBVIOUS
    <2>2. row = [Row(a, day, "uncleared", payee) EXCEPT !.of = p] /\ day \in Days
        BY <1>3, <1>4, <2>1
    <2> QED BY <2>2 DEF Row, SoundRow
<1>6. rows' = Append(rows, row) /\ matches' = matches /\ absences' = absences /\ Keep
    BY <1>2, <1>3 DEF Writes
<1>7. PICK R, n : R = rows /\ n = Len(rows) + 1 OBVIOUS
<1>8. PICK Q : Q = Append(R, row) OBVIOUS
<1>9. /\ SoundRows(Q) /\ Steady(R, Q) /\ DOMAIN Q = DOMAIN R \cup {n} /\ Q[n] = row
      /\ \A i \in DOMAIN R : Q[i] = R[i]
    BY <1>5, <1>7, <1>8, RowsOf, AppendSound
<1>10. \A k \in Live(R) \ {} : Q[k].live BY <1>9 DEF Live
<1>11. \A i \in Linkless(Q) : i \in Linkless(R) BY <1>5, <1>9 DEF Linkless, Live
<1>12. PICK M, D : M = matches /\ D = DOMAIN absences OBVIOUS
<1>13. SoundMatches(R, M) /\ AllTold(R, M, D) BY <1>7, <1>12, RowsOf
<1>14. Cancelled(M, {}) \subseteq M BY NothingCancelled
<1>15. AllTold(Q, M, D) BY <1>9, <1>10, <1>11, <1>13, <1>14, AllToldKept
<1>16. SoundMatches(Q, M) BY <1>9, <1>13 DEF SoundMatches
<1> QED BY <1>6, <1>7, <1>8, <1>9, <1>12, <1>15, <1>16, PersonKept

(* One row changed in place.                                                *)
LEMMA OneRowKept ==
    ASSUME BankInv, Keep, absences' = absences, NEW i \in DOMAIN rows, NEW q,
           rows' = [rows EXCEPT ![i] = q], SoundRow(q),
           q.live /\ q.sync # None => rows[i].live /\ q.sync = rows[i].sync,
           q.cleared = "reconciled" => rows[i].cleared = "reconciled",
           rows[i].gone = "merged" => q.gone = "merged",
           NEW S \in SUBSET {i}, rows[i].live => q.live \/ i \in S,
           matches' = Cancelled(matches, S),
           q.live /\ q.source /\ q.sync = None => i \in Linkless(rows) \/ i \in DOMAIN absences
    PROVE  Kept
<1>1. PICK R, Q : R = rows /\ Q = rows' OBVIOUS
<1>2. PICK M, N, D : M = matches /\ N = Cancelled(M, S) /\ D = DOMAIN absences OBVIOUS
<1>3. /\ SoundRows(R) /\ SoundMatches(R, M) /\ AllTold(R, M, D)
      /\ \A k \in DOMAIN R : SoundRow(R[k])
    BY <1>1, <1>2, RowsOf
<1>4. Q = [k \in DOMAIN R |-> Q[k]] /\ Q[i] = q /\ \A k \in DOMAIN R \ {i} : Q[k] = R[k]
    BY <1>1
<1>5. \A k \in DOMAIN R : SoundRow(Q[k]) BY <1>3, <1>4
<1>6. \A k \in DOMAIN R : Q[k].live /\ Q[k].sync # None => R[k].live /\ Q[k].sync = R[k].sync
    BY <1>1, <1>4
<1>7. SoundRows(Q) /\ DOMAIN Q = DOMAIN R BY <1>3, <1>4, <1>5, <1>6, PointwiseSound
<1>8. Steady(R, Q) BY <1>1, <1>4, <1>7 DEF Steady
<1>9. \A k \in Live(R) \ S : Q[k].live BY <1>1, <1>4 DEF Live
<1>10. \A k \in Linkless(Q) :
          k \in Linkless(R) \/ k \in D \/ \E m \in N : Mentions(Q, m, k)
    <2> TAKE k \in Linkless(Q)
    <2>1. CASE k = i BY <1>1, <1>2, <1>4, <2>1 DEF Linkless, Live
    <2>2. CASE k # i
        <3>1. k \in DOMAIN R /\ Q[k] = R[k] BY <1>4, <1>7, <2>2 DEF Linkless, Live
        <3> QED BY <3>1 DEF Linkless, Live
    <2> QED BY <2>1, <2>2
<1>11. Cancelled(M, S) \subseteq N BY <1>2
<1>12. AllTold(Q, N, D) BY <1>3, <1>8, <1>9, <1>10, <1>11, AllToldKept
<1>13. SoundMatches(Q, N)
    <2>1. SoundMatches(Q, Cancelled(M, S)) BY <1>3, <1>7, CancelledSound
    <2> QED BY <1>2, <2>1
<1> QED BY <1>1, <1>2, <1>7, <1>8, <1>12, <1>13, PersonKept

LEMMA TickOffSound == ASSUME BankInv, TickOff PROVE Kept
<1>1. PICK i \in Live(rows) :
         /\ Writes([rows EXCEPT ![i].cleared = "cleared"])
         /\ UNCHANGED <<matches, absences>>
    BY DEF TickOff
<1>2. i \in DOMAIN rows /\ SoundRow(rows[i]) BY RowsOf DEF Live
<1>3. PICK row : row = rows[i] OBVIOUS
<1>4. PICK q : q = [row EXCEPT !.cleared = "cleared"] OBVIOUS
<1>5. PICK how : how = "cleared" OBVIOUS
<1>6. /\ SoundRow(q) /\ q.cleared = "cleared" /\ q.sync = row.sync /\ q.gone = row.gone
      /\ (q.live <=> row.live) /\ (q.source <=> row.source)
    BY <1>2, <1>3, <1>4, <1>5, TickedSound
<1>7. /\ rows' = [rows EXCEPT ![i] = q] /\ matches' = matches /\ absences' = absences /\ Keep
    BY <1>1, <1>3, <1>4 DEF Writes
<1>8. matches' = Cancelled(matches, {}) BY <1>7, NothingCancelled
<1>9. q.live /\ q.source /\ q.sync = None => i \in Linkless(rows)
    BY <1>1, <1>3, <1>6 DEF Linkless
<1> QED BY <1>2, <1>3, <1>6, <1>7, <1>8, <1>9, OneRowKept

LEMMA DeleteSound == ASSUME BankInv, Delete PROVE Kept
<1>1. PICK i \in Live(rows) :
         /\ Writes([rows EXCEPT ![i] = Gone(@, "person")])
         /\ matches' = Cancelled(matches, {i}) /\ UNCHANGED absences
    BY DEF Delete
<1>2. i \in DOMAIN rows /\ rows[i].live /\ SoundRow(rows[i]) BY RowsOf DEF Live
<1>3. PICK row, how : row = rows[i] /\ how = "person" OBVIOUS
<1>4. PICK q : q = Gone(row, how) OBVIOUS
<1>5. SoundRow(q) /\ ~q.live /\ q.cleared = row.cleared
    BY <1>2, <1>3, <1>4, GoneSound
<1>6. row.gone # "merged" BY <1>2, <1>3 DEF SoundRow
<1>7. /\ rows' = [rows EXCEPT ![i] = q] /\ absences' = absences /\ Keep
    BY <1>1, <1>3, <1>4 DEF Writes
<1>8. matches' = Cancelled(matches, {i}) /\ {i} \in SUBSET {i} /\ i \in {i} BY <1>1
<1> QED BY <1>2, <1>3, <1>5, <1>6, <1>7, <1>8, OneRowKept

LEMMA RestoreSound == ASSUME BankInv, Restore PROVE Kept
<1>1. PICK i \in DOMAIN rows :
         /\ OpenRemoval(i)
         /\ Writes([rows EXCEPT ![i].live = TRUE, ![i].cleared = "uncleared",
                         ![i].mine = TRUE, ![i].gone = None])
         /\ UNCHANGED <<matches, absences>>
    BY DEF Restore
<1>2. i \in DOMAIN absences /\ rows[i].gone = "dropped" BY <1>1 DEF OpenRemoval
<1>3. PICK row : row = rows[i] OBVIOUS
<1>4. PICK q : q = [row EXCEPT !.live = TRUE, !.cleared = "uncleared",
                               !.mine = TRUE, !.gone = None]
    OBVIOUS
<1>5. SoundRow(row) BY <1>3, RowsOf
<1>6. SoundRow(q) /\ q.sync = None /\ q.cleared = "uncleared"
    BY <1>2, <1>3, <1>4, <1>5, RestoredSound
<1>7. rows' = [rows EXCEPT ![i] = q]
    <2>1. rows' = [rows EXCEPT ![i].live = TRUE, ![i].cleared = "uncleared",
                               ![i].mine = TRUE, ![i].gone = None]
        BY <1>1 DEF Writes
    <2>2. DOMAIN row = RowFields BY <1>5, FieldsOfRow
    <2> QED BY <1>3, <1>4, <2>1, <2>2 DEF RowFields
<1>8. /\ absences' = absences /\ Keep /\ matches' = Cancelled(matches, {})
      /\ {} \in SUBSET {i}
    BY <1>1, NothingCancelled DEF Writes
<1>9. ~row.live BY <1>2, <1>3, <1>5 DEF SoundRow
<1> QED BY <1>2, <1>3, <1>6, <1>7, <1>8, <1>9, OneRowKept

(* What a decision on a match leaves of the others.                         *)
LEMMA AcceptSound == ASSUME BankInv, AcceptMatch PROVE Kept
<1>1. PICK m \in matches :
         LET merged == Merged(rows, matches \ {m}, m.synced, m.manual)
         IN  /\ m.status # "accepted" /\ Paired(m) /\ CanMerge(rows, m.synced, m.manual)
             /\ Writes(merged.rows)
             /\ matches' = merged.matches \cup {[m EXCEPT !.status = "accepted"]}
             /\ UNCHANGED absences
    BY DEF AcceptMatch
<1>2. PICK R, M, D : R = rows /\ M = matches /\ D = DOMAIN absences OBVIOUS
<1>3. /\ SoundRows(R) /\ SoundMatches(R, M) /\ AllTold(R, M, D) BY <1>2, RowsOf
<1>4. PICK i, j : i = m.synced /\ j = m.manual OBVIOUS
<1>5. i \in Live(R) /\ j \in Live(R) /\ m \in M
      /\ DOMAIN m = {"synced", "manual", "status"}
    BY <1>1, <1>2, <1>3, <1>4 DEF Paired, Live, SoundMatches
<1>6. PICK M0 : M0 = M \ {m} OBVIOUS
<1>7. PICK Q, N0 : Q = Merged(R, M0, i, j).rows /\ N0 = Merged(R, M0, i, j).matches OBVIOUS
<1>8. CanMerge(R, i, j) BY <1>1, <1>2, <1>4
<1>9. MergeLeaves(R, Q, M0, N0, i, j) BY <1>3, <1>5, <1>7, <1>8, MergedSound
<1>10. PICK c : c = [m EXCEPT !.status = "accepted"] OBVIOUS
<1>11. /\ rows' = Q /\ matches' = N0 \cup {c} /\ absences' = absences /\ Keep
    BY <1>1, <1>2, <1>4, <1>6, <1>7, <1>10 DEF Writes
<1>12. /\ DOMAIN c = {"synced", "manual", "status"} /\ c.synced = i /\ c.manual = j
       /\ c.status # "pending"
    BY <1>4, <1>5, <1>10
<1>13. PICK kept, lost \in Live(R) :
          /\ {kept, lost} = {i, j} /\ kept # lost
          /\ SoundRows(Q) /\ DOMAIN Q = DOMAIN R /\ Steady(R, Q)
          /\ Q[kept].live /\ Q[kept].gone = None /\ ~Q[lost].live /\ Q[lost].gone = "merged"
          /\ \A k \in DOMAIN R \ {kept, lost} : Like(Q[k], R[k])
          /\ N0 = Cancelled(M0, {lost})
    BY <1>9 DEF MergeLeaves
<1>14. PICK N : N = N0 \cup {c} OBVIOUS
<1>15. SoundMatches(R, M0) BY <1>3, <1>6 DEF SoundMatches
<1>16. SoundMatches(Q, N0)
    <2>1. SoundMatches(Q, Cancelled(M0, {lost})) BY <1>13, <1>15, CancelledSound
    <2> QED BY <1>13, <2>1
<1>17. SoundMatches(Q, N) BY <1>5, <1>12, <1>13, <1>14, <1>16 DEF SoundMatches, Live
<1>18. \A k \in Live(R) \ {lost} : Q[k].live BY <1>13 DEF Live, Like
<1>19. PICK S, E : S = {lost} /\ E = D \cup {i, j} OBVIOUS
<1>20. AllTold(R, M0, E)
    <2> SUFFICES ASSUME NEW k \in Linkless(R), k \notin E
                 PROVE  \E n \in M0 : Mentions(R, n, k)
        BY DEF AllTold
    <2>1. PICK n \in M : Mentions(R, n, k) BY <1>3, <1>19 DEF AllTold
    <2>2. n # m BY <1>4, <1>19, <2>1 DEF Mentions
    <2> QED BY <1>6, <2>1, <2>2
<1>21. AllTold(Q, N, E)
    <2>1. Steady(R, Q) /\ Cancelled(M0, S) \subseteq N /\ \A k \in Live(R) \ S : Q[k].live
        BY <1>13, <1>14, <1>18, <1>19
    <2>2. \A k \in Linkless(Q) : k \in Linkless(R) \/ k \in E
        BY <1>13, <1>19 DEF Linkless, Live, Like
    <2> QED BY <1>15, <1>20, <2>1, <2>2, AllToldKept
<1>22. AllTold(Q, N, D)
    <2>1. \A k \in {i, j} : Mentions(Q, c, k) BY <1>12 DEF Mentions
    <2> QED BY <1>14, <1>19, <1>21, <2>1 DEF AllTold
<1> QED BY <1>2, <1>11, <1>13, <1>14, <1>17, <1>22, PersonKept

(* The register stays; every match is there as before, or decided.          *)
LEMMA MatchesKept ==
    ASSUME BankInv, Keep, rows' = rows, absences' = absences, SoundMatches(rows, matches'),
           \A m \in matches : \E n \in matches' :
              /\ n.synced = m.synced /\ n.manual = m.manual
              /\ n.status = m.status \/ n.status = "rejected"
    PROVE  Kept
<1>1. PICK R, M, N, D : R = rows /\ M = matches /\ N = matches' /\ D = DOMAIN absences OBVIOUS
<1>2. SoundRows(R) /\ AllTold(R, M, D) BY <1>1, RowsOf
<1>3. AllTold(R, N, D)
    <2> SUFFICES ASSUME NEW i \in Linkless(R), i \notin D
                 PROVE  \E n \in N : Mentions(R, n, i)
        BY DEF AllTold
    <2>1. PICK m \in M : Mentions(R, m, i) BY <1>2 DEF AllTold
    <2>2. PICK n \in N : /\ n.synced = m.synced /\ n.manual = m.manual
                         /\ n.status = m.status \/ n.status = "rejected"
        BY <1>1
    <2>3. Mentions(R, n, i) BY <2>1, <2>2 DEF Mentions
    <2> QED BY <2>3
<1>4. Steady(rows, rows') BY SteadySame
<1> QED BY <1>1, <1>2, <1>3, <1>4, PersonKept

LEMMA RejectSound == ASSUME BankInv, RejectMatch PROVE Kept
<1>1. PICK m \in matches : /\ matches' = Decided(matches, m, "rejected")
                           /\ Writes(rows) /\ UNCHANGED absences
    BY DEF RejectMatch
<1>2. PICK c : c = [m EXCEPT !.status = "rejected"] OBVIOUS
<1>3. matches' = (matches \ {m}) \cup {c} BY <1>1, <1>2 DEF Decided
<1>4. SoundMatches(rows, matches) BY RowsOf
<1>5. /\ DOMAIN m = {"synced", "manual", "status"}
      /\ m.synced \in DOMAIN rows /\ m.manual \in DOMAIN rows
    BY <1>4 DEF SoundMatches
<1>6. /\ DOMAIN c = {"synced", "manual", "status"} /\ c.synced = m.synced
      /\ c.manual = m.manual /\ c.status = "rejected"
    BY <1>2, <1>5
<1>7. SoundMatches(rows, matches') BY <1>3, <1>4, <1>5, <1>6 DEF SoundMatches
<1>8. \A n \in matches : \E l \in matches' :
         /\ l.synced = n.synced /\ l.manual = n.manual
         /\ l.status = n.status \/ l.status = "rejected"
    <2> TAKE n \in matches
    <2>1. CASE n = m BY <1>3, <1>6, <2>1
    <2>2. CASE n # m BY <1>3, <2>2
    <2> QED BY <2>1, <2>2
<1>9. Keep /\ rows' = rows /\ absences' = absences BY <1>1 DEF Writes
<1> QED BY <1>7, <1>8, <1>9, MatchesKept

LEMMA ScanSound == ASSUME BankInv, Scan PROVE Kept
<1>1. \E pairs \in SUBSET (Live(rows) \X Live(rows)) : \E later \in SUBSET pairs :
         /\ Writes(rows) /\ UNCHANGED absences
         /\ matches' = matches \cup {IF p \in later THEN Match(p[1], p[2], "pending")
                                     ELSE Match(p[2], p[1], "pending") : p \in pairs}
    <2> DEFINE alike(a, b) == /\ a.amount = b.amount /\ Gap(a.day, b.day) <= AutoDays
                              /\ ScanScore(a, b) >= 1100 * (AutoDays + 1)
    <2> DEFINE pairs == {p \in Live(rows) \X Live(rows) :
                /\ p[1] < p[2] /\ alike(rows[p[1]], rows[p[2]])
                /\ ~\E m \in matches : {m.synced, m.manual} = {p[1], p[2]}}
    <2> DEFINE ties == {p \in pairs : rows[p[1]].day = rows[p[2]].day}
    <2>1. pairs \in SUBSET (Live(rows) \X Live(rows)) OBVIOUS
    <2>3. PICK swapped \in SUBSET ties :
             matches' = matches \cup
                {IF rows[p[1]].day >= rows[p[2]].day /\ p \notin swapped
                 THEN Match(p[1], p[2], "pending")
                 ELSE Match(p[2], p[1], "pending") : p \in pairs}
        BY Zenon DEF Scan
    <2> HIDE DEF pairs, ties
    <2>4. PICK later : later = {p \in pairs : rows[p[1]].day >= rows[p[2]].day /\ p \notin swapped}
        OBVIOUS
    <2>5. matches' = matches \cup {IF p \in later THEN Match(p[1], p[2], "pending")
                                   ELSE Match(p[2], p[1], "pending") : p \in pairs}
        BY <2>3, <2>4
    <2>6. Writes(rows) /\ UNCHANGED absences BY DEF Scan
    <2>7. pairs \in SUBSET (Live(rows) \X Live(rows)) /\ later \in SUBSET pairs BY <2>1, <2>4
    <2> QED BY <2>5, <2>6, <2>7
<1>2. PICK pairs \in SUBSET (Live(rows) \X Live(rows)) : \E later \in SUBSET pairs :
         /\ Writes(rows) /\ UNCHANGED absences
         /\ matches' = matches \cup {IF p \in later THEN Match(p[1], p[2], "pending")
                                     ELSE Match(p[2], p[1], "pending") : p \in pairs}
    BY <1>1
<1>3. PICK later \in SUBSET pairs :
         /\ Writes(rows) /\ UNCHANGED absences
         /\ matches' = matches \cup {IF p \in later THEN Match(p[1], p[2], "pending")
                                     ELSE Match(p[2], p[1], "pending") : p \in pairs}
    BY <1>2
<1>4. SoundMatches(rows, matches) BY RowsOf
<1>5. SoundMatches(rows, matches')
    <2> SUFFICES ASSUME NEW m \in matches'
                 PROVE  /\ DOMAIN m = {"synced", "manual", "status"}
                        /\ m.synced \in DOMAIN rows /\ m.manual \in DOMAIN rows
        BY DEF SoundMatches
    <2>1. CASE m \in matches BY <1>4, <2>1 DEF SoundMatches
    <2>2. CASE m \notin matches
        <3>1. PICK p \in pairs : m = IF p \in later THEN Match(p[1], p[2], "pending")
                                     ELSE Match(p[2], p[1], "pending")
            BY <1>3, <2>2
        <3>2. p[1] \in DOMAIN rows /\ p[2] \in DOMAIN rows BY DEF Live
        <3> QED BY <3>1, <3>2 DEF Match
    <2> QED BY <2>1, <2>2
<1>6. matches \subseteq matches' BY <1>3
<1>7. Keep /\ rows' = rows /\ absences' = absences BY <1>3 DEF Writes
<1> QED BY <1>5, <1>6, <1>7, MatchesKept

-----------------------------------------------------------------------------
(* Reconciling locks rows, so it is not Steady.                            *)

OnceLocked ==
    \A m \in matches : Acceptable(m) /\ ~ClearedAhead(rows[m.manual]) => ~BothLocked(m)'

LEMMA ReconcileSound == ASSUME BankInv, Reconcile PROVE BankInv' /\ OnceLocked
<1>1. PICK R, Q : R = rows /\ Q = rows' OBVIOUS
<1>2. PICK M, D : M = matches /\ D = DOMAIN absences OBVIOUS
<1>3. /\ SoundRows(R) /\ SoundMatches(R, M) /\ AllTold(R, M, D)
      /\ D \subseteq DOMAIN R /\ \A i \in DOMAIN R : SoundRow(R[i])
    BY <1>1, <1>2, RowsOf
<1>4. /\ Q = [i \in DOMAIN R |-> IF R[i].live /\ R[i].cleared = "cleared"
                                 THEN [R[i] EXCEPT !.cleared = "reconciled"] ELSE R[i]]
      /\ matches' = M /\ absences' = absences /\ Keep /\ InReview = {}
    BY <1>1, <1>2 DEF Reconcile, Writes
<1>5. \A i \in DOMAIN R :
         /\ SoundRow(Q[i]) /\ Q[i].sync = R[i].sync /\ Q[i].gone = R[i].gone
         /\ (Q[i].live <=> R[i].live) /\ (Q[i].source <=> R[i].source)
         /\ Q[i].cleared = "reconciled" => R[i].cleared \in {"cleared", "reconciled"}
    <2> TAKE i \in DOMAIN R
    <2>1. PICK row, q, how : row = R[i] /\ q = Q[i] /\ how = "reconciled" OBVIOUS
    <2>2. SoundRow(row) BY <1>3, <2>1
    <2>3. CASE row.live /\ row.cleared = "cleared"
        <3>1. q = [row EXCEPT !.cleared = how] BY <1>4, <2>1, <2>3
        <3>2. how \in {"cleared", "reconciled"} BY <2>1
        <3>3. /\ SoundRow(q) /\ q.sync = row.sync /\ q.gone = row.gone
              /\ (q.live <=> row.live) /\ (q.source <=> row.source)
            BY <2>2, <3>1, <3>2, TickedSound
        <3> QED BY <2>1, <2>3, <3>3
    <2>4. CASE ~(row.live /\ row.cleared = "cleared")
        <3>1. q = row BY <1>4, <2>1, <2>4
        <3> QED BY <2>1, <2>2, <3>1
    <2> QED BY <2>3, <2>4
<1>6. Q = [i \in DOMAIN R |-> Q[i]] BY <1>4
<1>7. SoundRows(Q) /\ DOMAIN Q = DOMAIN R
    <2>1. \A i \in DOMAIN R : SoundRow(Q[i]) BY <1>5
    <2>2. \A i \in DOMAIN R : Q[i].live /\ Q[i].sync # None
                                => R[i].live /\ Q[i].sync = R[i].sync
        BY <1>5
    <2> QED BY <1>3, <1>6, <2>1, <2>2, PointwiseSound
<1>8. SoundMatches(Q, M) BY <1>3, <1>7 DEF SoundMatches
<1>9. AllTold(Q, M, D)
    <2> SUFFICES ASSUME NEW i \in Linkless(Q), i \notin D
                 PROVE  \E m \in M : Mentions(Q, m, i)
        BY DEF AllTold
    <2>1. i \in Linkless(R) BY <1>5, <1>7 DEF Linkless, Live
    <2>2. PICK m \in M : Mentions(R, m, i) BY <1>3, <2>1 DEF AllTold
    <2>3. m.synced \in DOMAIN R /\ m.manual \in DOMAIN R BY <1>3 DEF SoundMatches
    <2>4. Mentions(Q, m, i) BY <1>5, <2>2, <2>3 DEF Mentions
    <2> QED BY <2>4
<1>10. BankInv'
    <2>1. bank' = bank /\ today' = today /\ link' = link BY <1>4 DEF Keep, BankKeeps
    <2>2. TypeOK' BY <1>1, <1>2, <1>3, <1>4, <1>7, <1>8, <2>1 DEF BankInv, TypeOK
    <2> QED BY <1>1, <1>2, <1>4, <1>9, <2>2 DEF BankInv
<1>11. OnceLocked
    <2> SUFFICES ASSUME NEW m \in matches, Acceptable(m), ~ClearedAhead(rows[m.manual]),
                        BothLocked(m)'
                 PROVE  FALSE
        BY DEF OnceLocked
    <2>1. PICK j : j = m.manual OBVIOUS
    <2>2. j \in DOMAIN R BY <1>2, <1>3, <2>1 DEF SoundMatches
    <2>3. Q[j].cleared = "reconciled" BY <1>1, <2>1 DEF BothLocked
    <2>4. R[j].cleared \in {"cleared", "reconciled"} BY <1>5, <2>2, <2>3
    <2>5. m.status = "pending" /\ rows[m.synced].live /\ rows[j].live
        BY <2>1 DEF Acceptable, Offered, Paired
    <2>6. j \in InReview BY <1>1, <2>1, <2>2, <2>4, <2>5 DEF InReview, Live
    <2> QED BY <1>4, <2>6
<1> QED BY <1>10, <1>11

LEMMA SteadyLocksOnce ==
    ASSUME BankInv, Steady(rows, rows')
    PROVE  OnceLocked
<1> SUFFICES ASSUME NEW m \in matches, Acceptable(m), BothLocked(m)'
             PROVE  FALSE
    BY DEF OnceLocked
<1>1. PICK R, i, j : R = rows /\ i = m.synced /\ j = m.manual OBVIOUS
<1>2. SoundRows(R) /\ i \in DOMAIN R /\ j \in DOMAIN R BY <1>1, RowsOf DEF SoundMatches
<1>3. R[i].cleared = "reconciled" /\ R[j].cleared = "reconciled"
    BY <1>1, <1>2 DEF BothLocked, Steady
<1>4. CanMerge(R, i, j) BY <1>1 DEF Acceptable
<1>5. PICK kept : kept = Survivor(R, i, j) OBVIOUS
<1>6. kept \in {i, j}
    <2>1. i \in Nat /\ j \in Nat BY <1>2, FiniteRows
    <2>2. Min({i, j}) \in {i, j}
        <3>1. \E x \in {i, j} : \A y \in {i, j} : x =< y BY <2>1
        <3> QED BY <3>1 DEF Min
    <2> QED BY <1>5, <2>2 DEF Survivor
<1>7. MayMerge(R, kept, IF kept = i THEN j ELSE i) BY <1>4, <1>5 DEF CanMerge
<1> QED BY <1>3, <1>6, <1>7 DEF MayMerge

-----------------------------------------------------------------------------
(* The theorems.                                                           *)

LEMMA BankInvInit == Init => BankInv
<1> SUFFICES ASSUME Init PROVE BankInv OBVIOUS
<1>1. PICK s \in Scenarios :
         /\ bank = s.bank /\ rows = s.rows /\ matches = s.matches
         /\ link = [id |-> 1, name |-> 1, stamp |-> s.stamp] /\ today = s.today
         /\ absences = <<>>
    BY DEF Init
<1>2. /\ s.today \in Days /\ s.stamp \in StampsOf(s.today)
      /\ SoundBank(s.bank) /\ SoundRows(s.rows) /\ SoundMatches(s.rows, s.matches)
      /\ \A i \in Live(s.rows) : s.rows[i].source => s.rows[i].sync # None
    BY ScenariosAssumption
<1>3. DOMAIN absences = {} BY <1>1
<1>4. TypeOK BY <1>1, <1>2, <1>3 DEF TypeOK
<1>5. Linkless(rows) = {} BY <1>1, <1>2 DEF Linkless
<1> QED BY <1>4, <1>5 DEF BankInv, AllTold

LEMMA BankInvStep == BankInv /\ [Next]_vars => BankInv' /\ OnceLocked
<1> SUFFICES ASSUME BankInv, [Next]_vars PROVE BankInv' /\ OnceLocked OBVIOUS
<1>1. CASE Reconcile BY <1>1, ReconcileSound
<1>2. CASE Kept BY <1>2, SteadyLocksOnce DEF Kept
<1>3. CASE UNCHANGED vars
    <2>1. BankInv' /\ rows' = rows
        BY <1>3 DEF vars, BankInv, TypeOK
    <2>2. Steady(rows, rows') BY <2>1, SteadySame
    <2> QED BY <2>1, <2>2, SteadyLocksOnce
<1>4. ASSUME Next, ~Reconcile PROVE Kept
    <2>1. CASE Announce \/ Post \/ Omit \/ Return BY <2>1, BankSteps
    <2>2. CASE Reissue BY <2>2, ReissueSound
    <2>3. CASE Tick BY <2>3, TickSound
    <2>4. CASE Sync BY <2>4, ServeSound DEF Sync
    <2>5. CASE SyncRelinks BY <2>5, ServeSound DEF SyncRelinks
    <2>6. CASE Relink BY <2>6, RelinkSound
    <2>7. CASE Refetch BY <2>7, ServeSound DEF Refetch
    <2>8. CASE Enter BY <2>8, EnterSound
    <2>9. CASE TickOff BY <2>9, TickOffSound
    <2>10. CASE Delete BY <2>10, DeleteSound
    <2>11. CASE AcceptMatch BY <2>11, AcceptSound
    <2>12. CASE RejectMatch BY <2>12, RejectSound
    <2>13. CASE Restore BY <2>13, RestoreSound
    <2>14. CASE Scan BY <2>14, ScanSound
    <2> QED BY <1>4, <2>1, <2>2, <2>3, <2>4, <2>5, <2>6, <2>7, <2>8, <2>9, <2>10, <2>11,
               <2>12, <2>13, <2>14 DEF Next
<1> QED BY <1>1, <1>2, <1>3, <1>4

(* However the bank and the person behave, the rows, the matches and the    *)
(* absences stay sound and every row a run left without a link was told of. *)
THEOREM BankKept == Spec => []BankInv
<1>1. Init => BankInv BY BankInvInit
<1>2. BankInv /\ [Next]_vars => BankInv' BY BankInvStep
<1> QED BY <1>1, <1>2, PTL DEF Spec

(* Rows are well formed, a live bank id has one row, matches and absences   *)
(* name rows that exist, and a run is stamped no later than today.          *)
THEOREM BankTypes == Spec => []TypeOK
<1>1. BankInv => TypeOK BY DEF BankInv
<1> QED BY <1>1, BankKept, PTL

(* A run never removes a row a person typed or took back                    *)
(* (domain/bank_absence.py).                                                *)
THEOREM TypedRowsStay == Spec => []NothingTypedIsDropped
<1>1. BankInv => NothingTypedIsDropped
    <2> SUFFICES ASSUME BankInv, NEW i \in DOMAIN rows, rows[i].gone = "dropped"
                 PROVE  ~rows[i].mine
        BY DEF NothingTypedIsDropped
    <2>1. SoundRow(rows[i]) BY RowsOf
    <2> QED BY <2>1 DEF SoundRow
<1> QED BY <1>1, BankKept, PTL

(* A row a run unlinks from a vanished hold is recorded as missing or put   *)
(* in a review (_judge_absences, find_reidentified).                        *)
THEOREM UnlinkedRowsTold == Spec => []UnlinkedIsTold
<1>1. BankInv => UnlinkedIsTold
    <2> SUFFICES ASSUME BankInv, NEW i \in UnlinkedRows, Unmentioned(i)
                 PROVE  \E m \in matches : m.manual = i /\ rows[m.synced].gone = "merged"
        BY DEF UnlinkedIsTold
    <2>1. i \in Linkless(rows) BY DEF UnlinkedRows, Linkless
    <2>2. PICK m \in matches : Mentions(rows, m, i)
        BY <2>1, RowsOf DEF AllTold, Unmentioned
    <2>3. ~(i \in {m.synced, m.manual} /\ (Offered(m) \/ m.status # "pending"))
        BY DEF Unmentioned
    <2>4. m.manual = i /\ rows[m.synced].gone = "merged"
        BY <2>2, <2>3 DEF Mentions, Offered, Paired
    <2> QED BY <2>4
<1> QED BY <1>1, BankKept, PTL

(* No step locks both rows of a review that can still be accepted           *)
(* (IN_REVIEW_CLEARED blocks the reconciliation).                           *)
THEOREM ReviewsLockOnce == Spec => LockedOnce
<1>1. BankInv /\ [Next]_vars => [OnceLocked]_vars BY BankInvStep
<1>2. Spec => [][OnceLocked]_vars BY <1>1, BankKept, PTL DEF Spec
<1> QED BY <1>2 DEF LockedOnce, OnceLocked

HIDE BankAssumption DEF Fates

-----------------------------------------------------------------------------
(* The book: which ids a run gives to live rows, and which it leaves on      *)
(* rows that are gone. R0 is the register before the run, fed the ids the    *)
(* feed carries.                                                             *)

IdsOf(R) == {R[i].sync : i \in Live(R)}
Dead(R) == DOMAIN R \ Live(R)
Settled(R, consumed, fed) == fed \cap {R[i].sync : i \in Live(R) \cap consumed}
Follows(R, consumed, R0, fed) ==
    /\ \A j \in Dead(R0) : j \in Dead(R) /\ R[j].sync = R0[j].sync /\ R[j].gone = R0[j].gone
    /\ \A i \in Live(R) : R[i].sync # None =>
          \/ R[i].sync \in IdsOf(R0)
          \/ R[i].sync \in fed /\ Holders(R0, R[i].sync) = {}
    /\ \A j \in Dead(R) : R[j].sync # None =>
          \/ j \in Dead(R0)
          \/ R[j].gone = "merged" /\ R[j].sync \in Settled(R, consumed, fed)
\* The record of X has found its row, or X is one a row that was gone before
\* the run still carries.
Done(R, consumed, R0, fed, X) ==
    X \in Settled(R, consumed, fed) \/ \E j \in Dead(R0) : R0[j].sync = X

LEMMA FollowsStep ==
    ASSUME NEW R, NEW C, NEW R0, NEW fed, None \notin fed, Follows(R, C, R0, fed),
           NEW Q, NEW E, NEW X \in fed,
           \A j \in Dead(R) : j \in Dead(Q) /\ Q[j].sync = R[j].sync /\ Q[j].gone = R[j].gone,
           \A i \in Live(Q) : Q[i].sync \in IdsOf(R) \cup {X, None},
           X \in IdsOf(R) \/ Holders(R, X) = {},
           \A j \in Dead(Q) : \/ j \in Dead(R) \/ Q[j].sync = None
                              \/ Q[j].gone = "merged" /\ Q[j].sync = X,
           Settled(R, C, fed) \subseteq Settled(Q, E, fed), X \in Settled(Q, E, fed)
    PROVE  Follows(Q, E, R0, fed)
<1>1. X \in IdsOf(R0) \/ Holders(R0, X) = {}
    <2>1. CASE X \in IdsOf(R)
        <3>1. PICK i \in Live(R) : R[i].sync = X BY <2>1 DEF IdsOf
        <3>2. R[i].sync # None BY <3>1
        <3> QED BY <3>1, <3>2 DEF Follows
    <2>2. CASE Holders(R, X) = {}
        <3> SUFFICES ASSUME NEW j \in Holders(R0, X) PROVE j \in Live(R0) /\ R0[j].sync = X
            BY DEF IdsOf
        <3>1. j \in DOMAIN R0 /\ R0[j].sync = X BY DEF Holders
        <3>2. j \notin Dead(R0)
            <4> SUFFICES ASSUME j \in Dead(R0) PROVE FALSE OBVIOUS
            <4>1. j \in Dead(R) /\ R[j].sync = X BY <3>1 DEF Follows
            <4>2. j \in Holders(R, X) BY <4>1 DEF Dead, Holders
            <4> QED BY <2>2, <4>2
        <3> QED BY <3>1, <3>2 DEF Dead
    <2> QED BY <2>1, <2>2
<1>2. \A j \in Dead(R0) : j \in Dead(Q) /\ Q[j].sync = R0[j].sync /\ Q[j].gone = R0[j].gone
    BY DEF Follows
<1>3. ASSUME NEW i \in Live(Q), Q[i].sync # None
      PROVE  Q[i].sync \in IdsOf(R0) \/ (Q[i].sync \in fed /\ Holders(R0, Q[i].sync) = {})
    <2>1. CASE Q[i].sync = X BY <1>1, <2>1
    <2>2. CASE Q[i].sync # X
        <3>1. PICK k \in Live(R) : Q[i].sync = R[k].sync BY <1>3, <2>2 DEF IdsOf
        <3> QED BY <1>3, <3>1 DEF Follows
    <2> QED BY <2>1, <2>2
<1>4. ASSUME NEW j \in Dead(Q), Q[j].sync # None
      PROVE  j \in Dead(R0) \/ (Q[j].gone = "merged" /\ Q[j].sync \in Settled(Q, E, fed))
    <2>1. CASE j \in Dead(R) BY <1>4, <2>1 DEF Follows
    <2> QED BY <1>4, <2>1
<1> QED BY <1>2, <1>3, <1>4 DEF Follows

LEMMA TakenFollows ==
    ASSUME NEW R, SoundRows(R), NEW C, NEW R0, NEW fed, None \notin fed, Follows(R, C, R0, fed),
           NEW feed, SoundRecord(feed), feed.sync \in fed, NEW i \in Live(R),
           R[i].sync = feed.sync \/ (i \notin C /\ Holders(R, feed.sync) = {}),
           NEW Q, Q = Taking(R, i, feed), NEW E, E = C \cup {i}
    PROVE  /\ Follows(Q, E, R0, fed) /\ Settled(R, C, fed) \subseteq Settled(Q, E, fed)
           /\ feed.sync \in Settled(Q, E, fed)
<1>1. PICK X : X = feed.sync OBVIOUS
<1>2. \A j \in Live(R) : R[j].sync = feed.sync => j = i
    <2>1. CASE R[i].sync = feed.sync BY <2>1 DEF SoundRows, SoundRecord
    <2>2. CASE Holders(R, feed.sync) = {} BY <2>2 DEF Holders, Live
    <2> QED BY <2>1, <2>2
<1>3. /\ SoundRows(Q) /\ DOMAIN Q = DOMAIN R
      /\ \A j \in DOMAIN R \ {i} : Like(Q[j], R[j])
      /\ Q[i].live /\ Q[i].gone = None /\ Q[i].sync = X
    BY <1>1, <1>2, TakingSound DEF SoundRecord
<1>4. i \in DOMAIN R /\ i \in Live(Q) BY <1>3 DEF Live
<1>5. Live(Q) = Live(R) BY <1>3, <1>4 DEF Live, Like
<1>6. \A j \in Dead(R) : j \in Dead(Q) /\ Q[j].sync = R[j].sync /\ Q[j].gone = R[j].gone
    BY <1>3, <1>5 DEF Dead, Like
<1>7. \A j \in Live(Q) : Q[j].sync \in IdsOf(R) \cup {X, None}
    BY <1>3, <1>5 DEF IdsOf, Like, Live
<1>8. X \in IdsOf(R) \/ Holders(R, X) = {} BY <1>1 DEF IdsOf
<1>9. \A j \in Dead(Q) : j \in Dead(R) BY <1>3, <1>5 DEF Dead
<1>10. X \in Settled(Q, E, fed) BY <1>1, <1>3, <1>4 DEF Settled
<1>11. Settled(R, C, fed) \subseteq Settled(Q, E, fed)
    <2> SUFFICES ASSUME NEW Y \in Settled(R, C, fed) PROVE Y \in Settled(Q, E, fed) OBVIOUS
    <2>1. PICK k \in Live(R) \cap C : Y = R[k].sync /\ Y \in fed BY DEF Settled
    <2>2. CASE k = i BY <1>1, <1>10, <2>1, <2>2
    <2>3. CASE k # i
        <3>1. k \in Live(Q) \cap E /\ Q[k].sync = Y BY <1>3, <1>5, <2>1, <2>3 DEF Like, Live
        <3> QED BY <2>1, <3>1 DEF Settled
    <2> QED BY <2>2, <2>3
<1>12. Follows(Q, E, R0, fed) BY <1>1, <1>6, <1>7, <1>8, <1>9, <1>10, <1>11, FollowsStep
<1> QED BY <1>1, <1>10, <1>11, <1>12

(* A new row for the record, and the row that had its id, if one did, set   *)
(* free.                                                                    *)
LEMMA ImportFollows ==
    ASSUME NEW R, NEW C, NEW R0, NEW fed, None \notin fed, Follows(R, C, R0, fed),
           NEW X \in fed, X \in IdsOf(R) \/ Holders(R, X) = {},
           NEW n, n \notin DOMAIN R, NEW Q, DOMAIN Q = DOMAIN R \cup {n},
           Q[n].live, Q[n].sync = X,
           \A j \in DOMAIN R : \/ Q[j] = R[j]
                               \/ R[j].live /\ R[j].sync = X /\ Q[j].live /\ Q[j].sync = None,
           NEW E, C \cup {n} \subseteq E
    PROVE  /\ Follows(Q, E, R0, fed) /\ Settled(R, C, fed) \subseteq Settled(Q, E, fed)
           /\ X \in Settled(Q, E, fed)
<1>1. n \in Live(Q) BY DEF Live
<1>2. Live(Q) = Live(R) \cup {n} /\ Dead(Q) = Dead(R) BY DEF Live, Dead
<1>3. \A j \in Dead(R) : Q[j] = R[j] BY DEF Dead, Live
<1>4. X \in Settled(Q, E, fed) BY <1>1 DEF Settled
<1>5. \A j \in Live(Q) : Q[j].sync \in IdsOf(R) \cup {X, None}
    BY <1>2 DEF IdsOf, Live
<1>6. Settled(R, C, fed) \subseteq Settled(Q, E, fed)
    <2> SUFFICES ASSUME NEW Y \in Settled(R, C, fed), Y # X PROVE Y \in Settled(Q, E, fed)
        BY <1>4
    <2>1. PICK k \in Live(R) \cap C : Y = R[k].sync /\ Y \in fed BY DEF Settled
    <2>2. k \in DOMAIN R /\ Q[k] = R[k] BY <2>1 DEF Live
    <2>3. k \in Live(Q) \cap E BY <1>2, <2>1
    <2> QED BY <2>1, <2>2, <2>3 DEF Settled
<1>7. Follows(Q, E, R0, fed) BY <1>2, <1>3, <1>4, <1>5, <1>6, FollowsStep
<1> QED BY <1>4, <1>6, <1>7

LEMMA AbsorbedIds ==
    ASSUME NEW R, SoundRows(R), NEW kept \in Live(R), NEW lost \in Live(R), kept # lost,
           NEW Q, Q = Absorbed(R, kept, lost)
    PROVE  /\ Q[lost].sync = R[lost].sync
           /\ Q[kept].sync = IF R[lost].sync # None THEN R[lost].sync ELSE R[kept].sync
<1>1. /\ kept \in DOMAIN R /\ lost \in DOMAIN R /\ R[kept].live /\ R[lost].live
      /\ \A j \in DOMAIN R : SoundRow(R[j])
    BY DEF Live, SoundRows
<1>2. PICK G : G = [i \in DOMAIN R |-> IF i = lost THEN Gone(R[i], "merged") ELSE R[i]]
    OBVIOUS
<1>3. G[lost] = Gone(R[lost], "merged") /\ \A j \in DOMAIN R \ {lost} : G[j] = R[j]
    BY <1>1, <1>2
<1>4. PICK row, how : row = R[lost] /\ how = "merged" OBVIOUS
<1>5. DOMAIN row = RowFields /\ SoundRow(row) BY <1>1, <1>4, FieldsOfRow
<1>6. PICK q : q = Gone(row, how) OBVIOUS
<1>7. q.sync = row.sync BY <1>5, <1>6 DEF Gone, RowFields
<1>8. G[lost] = q BY <1>3, <1>4, <1>6
<1>9. CASE ~BankSourced(row)
    <2>1. Q = G BY <1>2, <1>4, <1>9 DEF Absorbed
    <2>2. row.sync = None BY <1>9 DEF BankSourced
    <2> QED BY <1>1, <1>3, <1>4, <1>7, <1>8, <2>1, <2>2
<1>10. CASE BankSourced(row)
    <2>1. PICK feed : feed = StandIn(row) OBVIOUS
    <2>2. Q = Taking(G, kept, feed) BY <1>2, <1>4, <1>10, <2>1 DEF Absorbed
    <2>3. feed.sync = row.sync BY <1>5, <2>1, StandInSound
    <2>4. PICK p, was : p = Posting(was, feed) /\ was = R[kept] OBVIOUS
    <2>5. DOMAIN was = RowFields BY <1>1, <2>4, FieldsOfRow
    <2>6. DOMAIN p = RowFields /\ p.sync = IF feed.sync # None THEN feed.sync ELSE was.sync
        BY <2>4, <2>5, PostingFields
    <2>7. Q[kept] = [p EXCEPT !.of = feed.of]
        BY <1>1, <1>2, <1>3, <2>2, <2>4 DEF Taking
    <2>8. Q[kept].sync = p.sync BY <2>6, <2>7 DEF RowFields
    <2>9. Q[lost] = q \/ Q[lost] = [q EXCEPT !.of = G[kept].of]
        BY <1>1, <1>2, <1>8, <2>2 DEF Taking
    <2>10. DOMAIN q = RowFields BY <1>5, <1>6 DEF Gone
    <2>11. Q[lost].sync = q.sync BY <2>9, <2>10 DEF RowFields
    <2> QED BY <1>4, <1>7, <2>3, <2>4, <2>6, <2>8, <2>11
<1> QED BY <1>9, <1>10

(* What a merge of two live rows does to the ids: the survivor has the one  *)
(* there was, and the other row keeps its copy.                             *)
MergeIds(R, Q, i, j) ==
    \E kept, lost \in Live(R) :
        /\ {kept, lost} = {i, j} /\ kept # lost /\ DOMAIN Q = DOMAIN R
        /\ Q[kept].live /\ ~Q[lost].live /\ Q[lost].gone = "merged"
        /\ Q[lost].sync = R[lost].sync
        /\ Q[kept].sync = IF R[lost].sync # None THEN R[lost].sync ELSE R[kept].sync
        /\ R[kept].sync = None \/ R[lost].sync = None
        /\ \A k \in DOMAIN R \ {kept, lost} : Like(Q[k], R[k])

LEMMA MergedIds ==
    ASSUME NEW R, SoundRows(R), NEW i \in Live(R), NEW j \in Live(R), CanMerge(R, i, j), NEW M,
           NEW Q, Q = Merged(R, M, i, j).rows
    PROVE  MergeIds(R, Q, i, j)
<1>1. PICK kept : kept = Survivor(R, i, j) OBVIOUS
<1>2. PICK lost : lost = IF kept = i THEN j ELSE i OBVIOUS
<1>3. i \in Nat /\ j \in Nat BY FiniteRows
<1>4. Min({i, j}) \in {i, j}
    <2>1. \E x \in {i, j} : \A y \in {i, j} : x =< y BY <1>3
    <2> QED BY <2>1 DEF Min
<1>5. kept \in {i, j} BY <1>1, <1>4 DEF Survivor
<1>6. MayMerge(R, kept, lost) BY <1>1, <1>2 DEF CanMerge
<1>7. kept # lost BY <1>6 DEF MayMerge
<1>8. {kept, lost} = {i, j} /\ kept \in Live(R) /\ lost \in Live(R) BY <1>2, <1>5, <1>7
<1>9. Q = Absorbed(R, kept, lost) BY <1>1, <1>2 DEF Merged
<1>10. /\ DOMAIN Q = DOMAIN R /\ Q[kept].live /\ ~Q[lost].live /\ Q[lost].gone = "merged"
       /\ \A k \in DOMAIN R \ {kept, lost} : Like(Q[k], R[k])
    BY <1>7, <1>8, <1>9, AbsorbedSound
<1>11. /\ Q[lost].sync = R[lost].sync
       /\ Q[kept].sync = IF R[lost].sync # None THEN R[lost].sync ELSE R[kept].sync
    BY <1>7, <1>8, <1>9, AbsorbedIds
<1>12. R[kept].sync = None \/ R[lost].sync = None
    BY <1>6, <1>7, <1>8 DEF MayMerge, SoundRows
<1> QED BY <1>7, <1>8, <1>10, <1>11, <1>12 DEF MergeIds

(* A match that is tried leaves the register, or merges the new row with a  *)
(* row a person entered.                                                    *)
Twin(R, n, i) == /\ i \in Live(R) \ {n} /\ UserEntered(R[i]) /\ R[i].amount = R[n].amount
                 /\ Gap(R[i].day, R[n].day) <= MatchDays

LEMMA TryMatchRows ==
    ASSUME NEW run, DOMAIN run = RunFields, SoundRows(run.rows), NEW n \in Live(run.rows)
    PROVE  LET next == TryMatch(run, n)
           IN  /\ DOMAIN next = RunFields /\ next.consumed = run.consumed
               /\ next.deferred = run.deferred
               /\ \/ next.rows = run.rows
                  \/ \E best : /\ Twin(run.rows, n, best) /\ CanMerge(run.rows, n, best)
                               /\ next.rows = Merged(run.rows, run.matches, n, best).rows
<1> DEFINE R == run.rows
<1>2. \A i \in DOMAIN R : SoundRow(R[i]) BY DEF SoundRows
<1>3. n \in DOMAIN R BY DEF Live
<1>4. PICK able : able = {i \in Live(R) \ {n} : /\ UserEntered(R[i]) /\ R[i].amount = R[n].amount
                                                /\ Gap(R[i].day, R[n].day) <= MatchDays}
    OBVIOUS
<1>5. PICK T : T = {i \in able : \A j \in able : Confidence(R[n], R[i]) >= Confidence(R[n], R[j])}
    OBVIOUS
<1>6. PICK best : best = Min(T) OBVIOUS
<1>7. PICK merged : merged = Merged(R, run.matches, n, best) OBVIOUS
<1>8. TryMatch(run, n) =
        IF able = {} \/ Confidence(R[n], R[best]) < OfferScore THEN run
        ELSE IF Confidence(R[n], R[best]) >= AutoAcceptScore /\ CanMerge(R, n, best)
             THEN [run EXCEPT !.rows = merged.rows,
                              !.matches = merged.matches \cup {Match(n, best, "accepted")}]
        ELSE [run EXCEPT !.matches = @ \cup {Match(n, best, "pending")}]
    BY <1>4, <1>5, <1>6, <1>7 DEF TryMatch
<1>9. able # {} => best \in able
    <2> HAVE able # {}
    <2>1. able \in SUBSET DOMAIN R /\ IsFiniteSet(able) BY <1>4, FiniteRows, FS_Subset
    <2>2. PICK f : f = [i \in able |-> Confidence(R[n], R[i])] OBVIOUS
    <2>3. f \in [able -> Int]
        <3>1. \A i \in able : Confidence(R[n], R[i]) \in Int
            BY <1>2, <1>3, <2>1, ConfidenceInt
        <3> QED BY <2>2, <3>1
    <2>4. T = {i \in able : \A j \in able : f[i] >= f[j]} BY <1>5, <2>2
    <2>5. T # {} BY <2>1, <2>3, <2>4, Foremost
    <2>6. T \in SUBSET Nat BY <1>5, <2>1, FiniteRows
    <2> QED BY <1>5, <1>6, <2>5, <2>6, LeastOf
<1>10. able # {} => Twin(R, n, best) BY <1>4, <1>9 DEF Twin
<1>11. PICK next : next = TryMatch(run, n) OBVIOUS
<1>12. DOMAIN next = RunFields /\ next.consumed = run.consumed /\ next.deferred = run.deferred
    BY <1>8, <1>11 DEF RunFields
<1>13. \/ next.rows = run.rows
       \/ able # {} /\ CanMerge(R, n, best) /\ next.rows = merged.rows
    BY <1>8, <1>11 DEF RunFields
<1> QED BY <1>7, <1>10, <1>11, <1>12, <1>13

(* The ids of a run: what it has settled so far, and what its next record,  *)
(* of id X, adds.                                                           *)
Traced(run, R0, fed) == Follows(run.rows, run.consumed, R0, fed)
SettledBy(run, fed) == Settled(run.rows, run.consumed, fed)
Onward(run, next, R0, fed, X) ==
    /\ Traced(next, R0, fed) /\ SettledBy(run, fed) \subseteq SettledBy(next, fed)
    /\ X \in SettledBy(next, fed) /\ next.deferred = run.deferred

LEMMA MergeFollows ==
    ASSUME NEW R, NEW C, NEW R0, NEW fed, None \notin fed, Follows(R, C, R0, fed),
           NEW n \in Live(R), NEW i \in Live(R), n \in C, i \in C, R[n].sync \in fed,
           R[i].sync = None, NEW Q, MergeIds(R, Q, n, i)
    PROVE  /\ Follows(Q, C, R0, fed) /\ Settled(R, C, fed) \subseteq Settled(Q, C, fed)
           /\ R[n].sync \in Settled(Q, C, fed)
<1>1. PICK kept \in Live(R), lost \in Live(R) :
        /\ {kept, lost} = {n, i} /\ kept # lost /\ DOMAIN Q = DOMAIN R
        /\ Q[kept].live /\ ~Q[lost].live /\ Q[lost].gone = "merged"
        /\ Q[lost].sync = R[lost].sync
        /\ Q[kept].sync = IF R[lost].sync # None THEN R[lost].sync ELSE R[kept].sync
        /\ \A k \in DOMAIN R \ {kept, lost} : Like(Q[k], R[k])
    BY DEF MergeIds
<1>2. PICK X : X = R[n].sync OBVIOUS
<1>3. X # None /\ X \in fed BY <1>2
<1>4. Q[kept].sync = X /\ Q[lost].sync \in {X, None} BY <1>1, <1>2, <1>3
<1>5. kept \in C /\ kept \in Live(Q) BY <1>1 DEF Live
<1>6. X \in Settled(Q, C, fed) BY <1>3, <1>4, <1>5 DEF Settled
<1>7. Live(Q) \subseteq Live(R) BY <1>1 DEF Live, Like
<1>8. \A j \in Dead(R) : j \in Dead(Q) /\ Q[j].sync = R[j].sync /\ Q[j].gone = R[j].gone
    <2> TAKE j \in Dead(R)
    <2>1. j \in DOMAIN R \ {kept, lost} BY DEF Dead
    <2>2. Like(Q[j], R[j]) BY <1>1, <2>1
    <2> QED BY <1>1, <1>7, <2>2 DEF Dead, Like
<1>9. \A j \in Live(Q) : Q[j].sync \in IdsOf(R) \cup {X, None}
    <2> TAKE j \in Live(Q)
    <2>1. CASE j = kept BY <1>4, <2>1
    <2>2. CASE j # kept
        <3>1. j \in DOMAIN R \ {kept, lost} BY <1>1, <2>2 DEF Live
        <3>2. Q[j].sync = R[j].sync BY <1>1, <3>1 DEF Like
        <3> QED BY <1>7, <3>2 DEF IdsOf
    <2> QED BY <2>1, <2>2
<1>10. X \in IdsOf(R) BY <1>2 DEF IdsOf
<1>11. \A j \in Dead(Q) : j \in Dead(R) \/ Q[j].sync = None
                          \/ (Q[j].gone = "merged" /\ Q[j].sync = X)
    <2> TAKE j \in Dead(Q)
    <2>1. CASE j = lost BY <1>1, <1>4, <2>1
    <2>2. CASE j # lost
        <3>1. j \in DOMAIN R \ {kept, lost} BY <1>1, <1>5, <2>2 DEF Dead
        <3>2. Q[j].live <=> R[j].live BY <1>1, <3>1 DEF Like
        <3> QED BY <1>1, <3>1, <3>2 DEF Dead, Live
    <2> QED BY <2>1, <2>2
<1>12. Settled(R, C, fed) \subseteq Settled(Q, C, fed)
    <2> SUFFICES ASSUME NEW Y \in Settled(R, C, fed), Y # X PROVE Y \in Settled(Q, C, fed)
        BY <1>6
    <2>1. PICK k \in Live(R) \cap C : Y = R[k].sync /\ Y \in fed BY DEF Settled
    <2>2. k \notin {n, i} BY <1>2, <2>1
    <2>3. k \in DOMAIN R \ {kept, lost} BY <1>1, <2>1, <2>2 DEF Live
    <2>4. Like(Q[k], R[k]) BY <1>1, <2>3
    <2>5. k \in Live(Q) /\ Q[k].sync = Y BY <1>1, <2>1, <2>4 DEF Live, Like
    <2> QED BY <2>1, <2>5 DEF Settled
<1>13. Follows(Q, C, R0, fed) BY <1>3, <1>6, <1>8, <1>9, <1>10, <1>11, <1>12, FollowsStep
<1> QED BY <1>2, <1>6, <1>12, <1>13

LEMMA TryMatchFollows ==
    ASSUME NEW run, DOMAIN run = RunFields, SoundRows(run.rows), NEW n \in Live(run.rows),
           n \in run.consumed, \A i : Twin(run.rows, n, i) => i \in run.consumed,
           NEW R0, NEW fed, None \notin fed, Traced(run, R0, fed), run.rows[n].sync \in fed
    PROVE  Onward(run, TryMatch(run, n), R0, fed, run.rows[n].sync)
<1> DEFINE R == run.rows
<1>1. PICK next : next = TryMatch(run, n) OBVIOUS
<1>2. /\ DOMAIN next = RunFields /\ next.consumed = run.consumed /\ next.deferred = run.deferred
      /\ \/ next.rows = R
         \/ \E best : /\ Twin(R, n, best) /\ CanMerge(R, n, best)
                      /\ next.rows = Merged(R, run.matches, n, best).rows
    BY <1>1, TryMatchRows
<1>3. CASE next.rows = R
    <2>1. R[n].sync \in SettledBy(run, fed) BY DEF SettledBy, Settled
    <2> QED BY <1>1, <1>2, <1>3, <2>1 DEF Onward, Traced, SettledBy
<1>4. CASE next.rows # R
    <2>1. PICK best : /\ Twin(R, n, best) /\ CanMerge(R, n, best)
                      /\ next.rows = Merged(R, run.matches, n, best).rows
        BY <1>2, <1>4
    <2>2. best \in Live(R) /\ R[best].sync = None /\ best \in run.consumed
        BY <2>1 DEF Twin, UserEntered
    <2>3. MergeIds(R, next.rows, n, best) BY <2>1, <2>2, MergedIds
    <2>4. Follows(R, run.consumed, R0, fed) BY DEF Traced
    <2>5. PICK C : C = run.consumed OBVIOUS
    <2>6. /\ Follows(next.rows, C, R0, fed)
          /\ Settled(R, C, fed) \subseteq Settled(next.rows, C, fed)
          /\ R[n].sync \in Settled(next.rows, C, fed)
        BY <2>2, <2>3, <2>4, <2>5, MergeFollows
    <2> QED BY <1>1, <1>2, <2>5, <2>6 DEF Onward, Traced, SettledBy
<1> QED BY <1>3, <1>4

LEMMA TakenOnward ==
    ASSUME NEW run, DOMAIN run = RunFields, SoundRows(run.rows), NEW feed, SoundRecord(feed),
           NEW R0, NEW fed, None \notin fed, Traced(run, R0, fed), feed.sync \in fed,
           NEW i \in Live(run.rows),
           \/ run.rows[i].sync = feed.sync
           \/ i \notin run.consumed /\ Holders(run.rows, feed.sync) = {}
    PROVE  Onward(run, Taken(run, i, feed), R0, fed, feed.sync)
<1>1. PICK next : next = Taken(run, i, feed) OBVIOUS
<1>2. PICK R, C, Q, E : R = run.rows /\ C = run.consumed /\ Q = Taking(R, i, feed) /\ E = C \cup {i}
    OBVIOUS
<1>3. next.rows = Q /\ next.consumed = E /\ next.deferred = run.deferred
    BY <1>1, <1>2 DEF Taken, RunFields
<1>4. Follows(R, C, R0, fed) BY <1>2 DEF Traced
<1>5. /\ Follows(Q, E, R0, fed) /\ Settled(R, C, fed) \subseteq Settled(Q, E, fed)
      /\ feed.sync \in Settled(Q, E, fed)
    BY <1>2, <1>4, TakenFollows
<1> QED BY <1>1, <1>2, <1>3, <1>5 DEF Onward, Traced, SettledBy

LEMMA IdentifiedFollows ==
    ASSUME NEW run, DOMAIN run = RunFields, SoundRows(run.rows), NEW feed, SoundRecord(feed),
           NEW R0, NEW fed, None \notin fed, Traced(run, R0, fed), feed.sync \in fed,
           NEW i \in Live(run.rows), run.rows[i].sync = feed.sync
    PROVE  Onward(run, Identified(run, i, feed), R0, fed, feed.sync)
<1>1. CASE ~NeedsReview(run.rows[i], feed, FALSE)
    BY <1>1, TakenOnward DEF Identified
<1>2. CASE NeedsReview(run.rows[i], feed, FALSE)
    <2>1. PICK R : R = Released(run.rows, {i}) OBVIOUS
    <2>2. PICK row : row = Imported(feed) OBVIOUS
    <2>3. PICK next : next = Identified(run, i, feed) OBVIOUS
    <2>4. i \in DOMAIN run.rows /\ run.rows[i].live BY DEF Live
    <2>5. /\ row.live /\ row.sync = feed.sync /\ SoundRow(row)
        BY <2>2, ImportedSound DEF SoundRecord
    <2>6. DOMAIN R = DOMAIN run.rows BY <2>1 DEF Released
    <2>7. /\ SoundRow(run.rows[i]) /\ R[i] = [run.rows[i] EXCEPT !.sync = None]
          /\ \A j \in DOMAIN R \ {i} : R[j] = run.rows[j]
        BY <2>1, <2>4 DEF Released, SoundRows
    <2>8. R[i].live /\ R[i].sync = None BY <2>4, <2>7, UnlinkedSound
    <2>9. PICK n : n = Len(R) + 1 OBVIOUS
    <2>10. PICK Q : Q = Append(R, row) OBVIOUS
    <2>11. R \in Seq(Range(R))
        <3>1. SoundRows(R) BY <2>1, <2>4, ReleasedSound
        <3> QED BY <3>1 DEF SoundRows
    <2>12. /\ n \notin DOMAIN R /\ DOMAIN Q = DOMAIN R \cup {n} /\ Q[n] = row
           /\ \A j \in DOMAIN R : Q[j] = R[j]
        BY <2>9, <2>10, <2>11, OneLonger
    <2>13. PICK E : E = (run.consumed \cup {n}) \cup {i} OBVIOUS
    <2>14. next.rows = Q /\ next.consumed = E /\ next.deferred = run.deferred
        BY <1>2, <2>1, <2>2, <2>3, <2>9, <2>10, <2>13 DEF Identified, WithImport, RunFields
    <2>15. PICK P, C, X : P = run.rows /\ C = run.consumed /\ X = feed.sync OBVIOUS
    <2>16. Follows(P, C, R0, fed) /\ X \in IdsOf(P) BY <2>15 DEF Traced, IdsOf
    <2>17. n \notin DOMAIN P /\ DOMAIN Q = DOMAIN P \cup {n} /\ Q[n].live /\ Q[n].sync = X
        BY <2>5, <2>6, <2>12, <2>15
    <2>18. \A j \in DOMAIN P : \/ Q[j] = P[j]
                               \/ P[j].live /\ P[j].sync = X /\ Q[j].live /\ Q[j].sync = None
        BY <2>4, <2>6, <2>7, <2>8, <2>12, <2>15
    <2>19. X \in fed /\ C \cup {n} \subseteq E BY <2>13, <2>15
    <2>20. /\ Follows(Q, E, R0, fed) /\ Settled(P, C, fed) \subseteq Settled(Q, E, fed)
           /\ X \in Settled(Q, E, fed)
        BY <2>16, <2>17, <2>18, <2>19, ImportFollows
    <2> QED BY <2>3, <2>14, <2>15, <2>20 DEF Onward, Traced, SettledBy
<1> QED BY <1>1, <1>2

LEMMA OnwardTwice ==
    ASSUME NEW run, NEW mid, NEW next, NEW R0, NEW fed, NEW X,
           Onward(run, mid, R0, fed, X), Onward(mid, next, R0, fed, X)
    PROVE  Onward(run, next, R0, fed, X)
BY DEF Onward

LEMMA ImportPlain ==
    ASSUME NEW R, NEW C, NEW R0, NEW fed, None \notin fed, Follows(R, C, R0, fed),
           NEW X \in fed, Holders(R, X) = {}, NEW n, n \notin DOMAIN R,
           NEW Q, DOMAIN Q = DOMAIN R \cup {n}, Q[n].live, Q[n].sync = X,
           \A j \in DOMAIN R : Q[j] = R[j], NEW E, C \cup {n} \subseteq E
    PROVE  /\ Follows(Q, E, R0, fed) /\ Settled(R, C, fed) \subseteq Settled(Q, E, fed)
           /\ X \in Settled(Q, E, fed)
BY ImportFollows

LEMMA ImportOnward ==
    ASSUME NEW run, DOMAIN run = RunFields, SoundRows(run.rows), NEW feed, SoundRecord(feed),
           NEW R0, NEW fed, None \notin fed, Traced(run, R0, fed), feed.sync \in fed,
           Holders(run.rows, feed.sync) = {}, NEW n, n = Len(run.rows) + 1,
           NEW next, DOMAIN next = RunFields, next.rows = Append(run.rows, Imported(feed)),
           run.consumed \cup {n} \subseteq next.consumed, next.deferred = run.deferred
    PROVE  /\ Onward(run, next, R0, fed, feed.sync) /\ SoundRows(next.rows)
           /\ n \notin DOMAIN run.rows /\ n \in Live(next.rows) /\ Len(next.rows) = n
           /\ DOMAIN next.rows = DOMAIN run.rows \cup {n} /\ next.rows[n] = Imported(feed)
           /\ \A j \in DOMAIN run.rows : next.rows[j] = run.rows[j]
<1>1. PICK row : row = Imported(feed) OBVIOUS
<1>2. SoundRow(row) /\ row.live /\ row.sync = feed.sync
    BY <1>1, ImportedSound DEF SoundRecord
<1>3. PICK P, C, X, Q, E, k : /\ P = run.rows /\ C = run.consumed /\ X = feed.sync
                              /\ Q = next.rows /\ E = next.consumed /\ k = n
    OBVIOUS
<1>4. \A j \in Live(P) : P[j].sync # row.sync BY <1>2, <1>3 DEF Holders, Live
<1>5. /\ SoundRows(Q) /\ k \notin DOMAIN P /\ Len(Q) = k /\ DOMAIN Q = DOMAIN P \cup {k}
      /\ Q[k] = row /\ \A j \in DOMAIN P : Q[j] = P[j]
    BY <1>1, <1>2, <1>3, <1>4, AppendSound
<1>6. Follows(P, C, R0, fed) BY <1>3 DEF Traced
<1>7. X \in fed /\ Holders(P, X) = {} /\ C \cup {k} \subseteq E BY <1>3
<1>8. Q[k].live /\ Q[k].sync = X BY <1>2, <1>3, <1>5
<1>9. Live(Q) = Live(P) \cup {k} BY <1>5, <1>8 DEF Live
<1>10. /\ Follows(Q, E, R0, fed) /\ Settled(P, C, fed) \subseteq Settled(Q, E, fed)
       /\ X \in Settled(Q, E, fed)
    <2>1. k \notin DOMAIN P BY <1>5
    <2>2. DOMAIN Q = DOMAIN P \cup {k} BY <1>5
    <2>3. \A j \in DOMAIN P : Q[j] = P[j] BY <1>5
    <2>4. Follows(Q, E, R0, fed) BY <1>6, <1>7, <1>8, <2>1, <2>2, <2>3, ImportPlain
    <2>5. Settled(P, C, fed) \subseteq Settled(Q, E, fed)
        BY <1>6, <1>7, <1>8, <2>1, <2>2, <2>3, ImportPlain
    <2>6. X \in Settled(Q, E, fed) BY <1>6, <1>7, <1>8, <2>1, <2>2, <2>3, ImportPlain
    <2> QED BY <2>4, <2>5, <2>6
<1> QED BY <1>1, <1>3, <1>5, <1>9, <1>10 DEF Onward, Traced, SettledBy

(* A record the ladder creates a row for had no candidate.                  *)
LEMMA DecisionKind ==
    ASSUME NEW R, NEW feed, NEW S, S # {}
    PROVE  DecideMatch(R, feed, S).action \in {"auto", "review"}
<1>1. PICK best : best = Best(R, feed, S) OBVIOUS
<1>2. PICK near : near = {i \in S : Gap(feed.day, BankDate(R[i])) <= TightDays} OBVIOUS
<1>3. Disputed(R, feed, near).action \in {"auto", "review"} BY DEF Disputed, Decision
<1>4. DecideMatch(R, feed, S) = Disputed(R, feed, near)
        \/ DecideMatch(R, feed, S).action \in {"auto", "review"}
    BY <1>1, <1>2 DEF DecideMatch, Decision
<1> QED BY <1>3, <1>4

LEMMA NoTwinLeft ==
    ASSUME NEW R, SoundRows(R), NEW C, NEW feed, SoundRecord(feed), NEW fed, NEW since,
           Candidates(R, feed, C, fed, since) = {}, NEW n, n \notin DOMAIN R,
           NEW Q, DOMAIN Q = DOMAIN R \cup {n}, Q[n] = Imported(feed),
           \A j \in DOMAIN R : Q[j] = R[j], NEW i, Twin(Q, n, i)
    PROVE  i \in C
<1>1. PICK row : row = Imported(feed) OBVIOUS
<1>2. row.day = feed.day /\ row.amount = feed.amount BY <1>1 DEF Imported, Row
<1>3. i \in Live(Q) /\ i # n /\ UserEntered(Q[i]) /\ Q[i].amount = row.amount
      /\ Gap(Q[i].day, row.day) <= MatchDays
    BY <1>1 DEF Twin
<1>4. i \in DOMAIN R /\ Q[i] = R[i] /\ i \in Live(R) BY <1>3 DEF Live
<1>5. R[i].day \in Nat /\ feed.day \in Nat
    <2>1. PICK q : q = R[i] OBVIOUS
    <2>2. SoundRow(q) BY <1>4, <2>1 DEF SoundRows
    <2>3. q.day \in Nat BY BankAssumption, <2>2 DEF SoundRow
    <2>4. feed.day \in Nat BY BankAssumption DEF SoundRecord, SoundFeed
    <2> QED BY <2>1, <2>3, <2>4
<1>6. Gap(R[i].day, feed.day) <= DedupDays
    <2>1. Gap(R[i].day, feed.day) \in Nat BY <1>5, GapNat
    <2>2. Gap(R[i].day, feed.day) <= MatchDays BY <1>2, <1>3, <1>4
    <2> QED BY <2>1, <2>2 DEF MatchDays, DedupDays
<1>7. Unlinked(R[i]) BY <1>3, <1>4 DEF UserEntered, Unlinked
<1>8. R[i].amount = feed.amount BY <1>2, <1>3, <1>4
<1> QED BY <1>4, <1>6, <1>7, <1>8 DEF Candidates

LEMMA ActedFollows ==
    ASSUME NEW run, DOMAIN run = RunFields, SoundRows(run.rows), NEW feed, SoundRecord(feed),
           NEW R0, NEW fed, None \notin fed, Traced(run, R0, fed), feed.sync \in fed,
           Holders(run.rows, feed.sync) = {}, NEW since, NEW S,
           S = Candidates(run.rows, feed, run.consumed, fed, since),
           NEW decision, decision = DecideMatch(run.rows, feed, S),
           decision.action \in {"auto", "review"} => decision.row \in S
    PROVE  Onward(run, Acted(run, feed, decision), R0, fed, feed.sync)
<1>1. PICK created : created = WithImport(run, feed) OBVIOUS
<1>2. PICK n : n = Len(run.rows) + 1 OBVIOUS
<1>3. /\ DOMAIN created = RunFields /\ created.rows = Append(run.rows, Imported(feed))
      /\ created.consumed = run.consumed \cup {n} /\ created.deferred = run.deferred
    BY <1>1, <1>2 DEF WithImport, RunFields
<1>4. CASE decision.action = "auto"
    <2>1. Acted(run, feed, decision) = Taken(run, decision.row, feed) BY <1>4 DEF Acted
    <2>2. decision.row \in Live(run.rows) /\ decision.row \notin run.consumed
        BY <1>4 DEF Candidates
    <2> QED BY <2>1, <2>2, TakenOnward
<1>5. CASE decision.action = "review"
    <2>1. PICK next : next = Acted(run, feed, decision) OBVIOUS
    <2>2. PICK m : m = Match(Len(created.rows), decision.row, "pending") OBVIOUS
    <2>3. next = [created EXCEPT !.consumed = @ \cup {decision.row}, !.matches = @ \cup {m}]
        BY <1>1, <1>5, <2>1, <2>2 DEF Acted
    <2>4. /\ DOMAIN next = RunFields /\ next.rows = created.rows
          /\ run.consumed \cup {n} \subseteq next.consumed /\ next.deferred = run.deferred
        BY <1>3, <2>3 DEF RunFields
    <2> QED BY <1>2, <1>3, <2>1, <2>4, ImportOnward
<1>6. CASE decision.action \notin {"auto", "review"}
    <2>1. S = {} BY <1>6, DecisionKind
    <2>2. run.consumed \cup {n} \subseteq created.consumed BY <1>3
    <2>3. /\ Onward(run, created, R0, fed, feed.sync) /\ SoundRows(created.rows)
          /\ n \notin DOMAIN run.rows /\ n \in Live(created.rows) /\ Len(created.rows) = n
          /\ DOMAIN created.rows = DOMAIN run.rows \cup {n} /\ created.rows[n] = Imported(feed)
          /\ \A j \in DOMAIN run.rows : created.rows[j] = run.rows[j]
        <3>1. Onward(run, created, R0, fed, feed.sync) BY <1>2, <1>3, <2>2, ImportOnward
        <3>2. /\ n \notin DOMAIN run.rows /\ DOMAIN created.rows = DOMAIN run.rows \cup {n}
              /\ created.rows[n] = Imported(feed)
            BY <1>2, <1>3, <2>2, ImportOnward
        <3>3. \A j \in DOMAIN run.rows : created.rows[j] = run.rows[j]
            BY <1>2, <1>3, <2>2, ImportOnward
        <3>4. PICK P, Q, row : P = run.rows /\ Q = created.rows /\ row = Imported(feed) OBVIOUS
        <3>5. SoundRow(row) /\ row.live /\ row.sync = feed.sync
            BY <3>4, ImportedSound DEF SoundRecord
        <3>6. \A j \in Live(P) : P[j].sync # row.sync BY <3>4, <3>5 DEF Holders, Live
        <3>7. Q = Append(P, row) /\ SoundRows(P) BY <1>3, <3>4
        <3>8. SoundRows(Q) /\ Len(Q) = n BY <1>2, <3>4, <3>5, <3>6, <3>7, AppendSound
        <3>9. n \in Live(Q) BY <3>2, <3>4, <3>5 DEF Live
        <3> QED BY <3>1, <3>2, <3>3, <3>4, <3>8, <3>9
    <2>4. Acted(run, feed, decision) = TryMatch(created, n) BY <1>1, <1>6, <2>3 DEF Acted
    <2>5. \A i : Twin(created.rows, n, i) => i \in created.consumed
        <3> SUFFICES ASSUME NEW i, Twin(created.rows, n, i) PROVE i \in run.consumed BY <2>2
        <3>1. PICK R, C, Q : R = run.rows /\ C = run.consumed /\ Q = created.rows OBVIOUS
        <3>2. Candidates(R, feed, C, fed, since) = {} BY <2>1, <3>1
        <3>3. SoundRows(R) /\ Twin(Q, n, i) BY <3>1
        <3>4. n \notin DOMAIN R /\ DOMAIN Q = DOMAIN R \cup {n} /\ Q[n] = Imported(feed)
            BY <2>3, <3>1
        <3>5. \A j \in DOMAIN R : Q[j] = R[j] BY <2>3, <3>1
        <3>6. i \in C BY ONLY SoundRecord(feed), <3>2, <3>3, <3>4, <3>5, NoTwinLeft
        <3> QED BY <3>1, <3>6
    <2>6. created.rows[n].sync = feed.sync
        <3>1. PICK row : row = Imported(feed) OBVIOUS
        <3>2. row.sync = feed.sync BY <3>1, ImportedSound DEF SoundRecord
        <3> QED BY <2>3, <3>1, <3>2
    <2>7. Traced(created, R0, fed) /\ n \in created.consumed BY <1>3, <2>3 DEF Onward
    <2>8. Onward(created, TryMatch(created, n), R0, fed, feed.sync)
        BY <1>3, <2>3, <2>5, <2>6, <2>7, TryMatchFollows
    <2> QED BY <2>3, <2>4, <2>8, OnwardTwice
<1> QED BY <1>4, <1>5, <1>6

(* A record that is answered is done, or waits for the second pass.         *)
Waiting(run, X) == \E k \in DOMAIN run.deferred : run.deferred[k].sync = X
DoneBy(run, R0, fed, X) == Done(run.rows, run.consumed, R0, fed, X)
Handled(run, next, R0, fed, X, strict) ==
    /\ Traced(next, R0, fed) /\ SettledBy(run, fed) \subseteq SettledBy(next, fed)
    /\ \A Y : Waiting(run, Y) => Waiting(next, Y)
    /\ \A Y : Waiting(next, Y) => Waiting(run, Y) \/ Y = X
    /\ DoneBy(next, R0, fed, X) \/ (strict /\ Waiting(next, X))

LEMMA OnwardAnswers ==
    ASSUME NEW run, NEW next, NEW R0, NEW fed, NEW X, NEW strict, Onward(run, next, R0, fed, X)
    PROVE  Handled(run, next, R0, fed, X, strict)
<1>1. next.deferred = run.deferred BY DEF Onward
<1>2. \A Y : Waiting(run, Y) <=> Waiting(next, Y) BY <1>1 DEF Waiting
<1>3. DoneBy(next, R0, fed, X) BY DEF Onward, SettledBy, DoneBy, Done
<1>4. Traced(next, R0, fed) /\ SettledBy(run, fed) \subseteq SettledBy(next, fed) BY DEF Onward
<1> QED BY <1>2, <1>3, <1>4 DEF Handled

LEMMA PostFeedRowFollows ==
    ASSUME NEW run, NEW P, NEW D, SoundRun(run, P, D), NEW feed, SoundRecord(feed),
           NEW R0, NEW fed, None \notin fed, Traced(run, R0, fed), feed.sync \in fed,
           NEW since, NEW strict
    PROVE  Handled(run, PostFeedRow(run, feed, fed, since, strict), R0, fed, feed.sync, strict)
<1> DEFINE R == run.rows
<1>1. SoundRows(R) /\ DOMAIN run = RunFields BY DEF SoundRun
<1>2. PICK alive : alive = Holders(R, feed.sync) \cap Live(R) OBVIOUS
<1>3. PICK S : S = Candidates(R, feed, run.consumed, fed, since) OBVIOUS
<1>4. PICK decision : decision = DecideMatch(R, feed, S) OBVIOUS
<1>5. S \subseteq Live(R) BY <1>3 DEF Candidates
<1>6. decision.action \in {"auto", "review"} => decision.row \in S
    <2>1. feed.day \in Nat BY BankAssumption DEF SoundRecord, SoundFeed
    <2>2. S \in SUBSET DOMAIN R BY <1>5 DEF Live
    <2> HIDE DEF R
    <2> QED BY <1>1, <1>4, <2>1, <2>2, DecisionIn
<1>7. CASE alive # {}
    <2>1. PICK i \in alive : TRUE BY <1>7
    <2>2. i \in Live(R) /\ R[i].sync = feed.sync BY <1>2, <2>1 DEF Holders
    <2>3. \A j \in alive : j = i
        <3> TAKE j \in alive
        <3>1. j \in Live(R) /\ R[j].sync = feed.sync BY <1>2 DEF Holders
        <3> QED BY <1>1, <2>2, <3>1 DEF SoundRows, SoundRecord
    <2>4. alive = {i} /\ i \in Nat BY <1>1, <1>2, <2>1, <2>3, FiniteRows
    <2>5. Max(alive) = i BY <2>4 DEF Max
    <2>6. PostFeedRow(run, feed, fed, since, strict) = Identified(run, i, feed)
        BY <1>2, <1>7, <2>5 DEF PostFeedRow
    <2>7. Onward(run, Identified(run, i, feed), R0, fed, feed.sync)
        BY <1>1, <2>2, IdentifiedFollows
    <2> QED BY <2>6, <2>7, OnwardAnswers
<1>8. CASE alive = {} /\ Holders(R, feed.sync) # {}
    <2>1. PostFeedRow(run, feed, fed, since, strict) = run BY <1>2, <1>8 DEF PostFeedRow
    <2>2. PICK j : j \in Holders(R, feed.sync) BY <1>8
    <2>3. j \in Dead(R) /\ R[j].sync = feed.sync /\ R[j].sync # None
        BY <1>2, <1>8, <2>2 DEF Holders, Dead, SoundRecord
    <2>4. DoneBy(run, R0, fed, feed.sync) BY <2>3 DEF Traced, Follows, DoneBy, Done
    <2> QED BY <2>1, <2>4 DEF Handled
<1>9. CASE alive = {} /\ Holders(R, feed.sync) = {} /\ strict /\ ~SettlesInStrictPass(decision)
    <2>1. PICK next : next = [run EXCEPT !.deferred = Append(@, feed)] OBVIOUS
    <2>2. PostFeedRow(run, feed, fed, since, strict) = next
        BY <1>2, <1>3, <1>4, <1>9, <2>1 DEF PostFeedRow
    <2>3. /\ next.rows = run.rows /\ next.consumed = run.consumed
          /\ next.deferred = Append(run.deferred, feed)
        BY <1>1, <2>1 DEF RunFields
    <2>4. run.deferred \in Seq(Range(run.deferred)) BY DEF SoundRun
    <2>5. PICK n : n = Len(run.deferred) + 1 OBVIOUS
    <2>6. /\ DOMAIN next.deferred = DOMAIN run.deferred \cup {n} /\ next.deferred[n] = feed
          /\ \A k \in DOMAIN run.deferred : next.deferred[k] = run.deferred[k]
        BY <2>3, <2>4, <2>5, OneLonger
    <2>7. \A Y : Waiting(run, Y) => Waiting(next, Y) BY <2>6 DEF Waiting
    <2>8. \A Y : Waiting(next, Y) => Waiting(run, Y) \/ Y = feed.sync BY <2>6 DEF Waiting
    <2>9. Waiting(next, feed.sync) BY <2>6 DEF Waiting
    <2>10. Traced(next, R0, fed) /\ SettledBy(next, fed) = SettledBy(run, fed)
        BY <2>3 DEF Traced, SettledBy
    <2> QED BY <1>9, <2>2, <2>7, <2>8, <2>9, <2>10 DEF Handled
<1>10. CASE alive = {} /\ Holders(R, feed.sync) = {} /\ ~(strict /\ ~SettlesInStrictPass(decision))
    <2>1. PostFeedRow(run, feed, fed, since, strict) = Acted(run, feed, decision)
        BY <1>2, <1>3, <1>4, <1>10 DEF PostFeedRow
    <2>2. Onward(run, Acted(run, feed, decision), R0, fed, feed.sync)
        BY <1>1, <1>3, <1>4, <1>6, <1>10, ActedFollows
    <2> QED BY <2>1, <2>2, OnwardAnswers
<1> QED BY <1>7, <1>8, <1>9, <1>10

LEMMA StillDone ==
    ASSUME NEW run, NEW next, NEW R0, NEW fed, NEW X, DoneBy(run, R0, fed, X),
           SettledBy(run, fed) \subseteq SettledBy(next, fed)
    PROVE  DoneBy(next, R0, fed, X)
BY DEF DoneBy, Done, SettledBy

(* After a pass every record is done or, in the strict one, waits; and      *)
(* nothing else does.                                                       *)
LEMMA PassFollows ==
    ASSUME NEW start, NEW P, NEW D, SoundRun(start, P, D),
           NEW feeds, feeds \in Seq(Range(feeds)), \A n \in DOMAIN feeds : SoundRecord(feeds[n]),
           NEW R0, NEW fed, None \notin fed, Traced(start, R0, fed),
           \A n \in DOMAIN feeds : feeds[n].sync \in fed, NEW since, NEW strict,
           NEW last, last = Pass(start, feeds, fed, since, strict)
    PROVE  /\ Traced(last, R0, fed)
           /\ SettledBy(start, fed) \subseteq SettledBy(last, fed)
           /\ \A Y : Waiting(last, Y) => Waiting(start, Y) \/ Y \in fed
           /\ \A k \in DOMAIN feeds : \/ DoneBy(last, R0, fed, feeds[k].sync)
                                      \/ strict /\ Waiting(last, feeds[k].sync)
<1>1. Len(feeds) \in Nat /\ DOMAIN feeds = 1..Len(feeds) OBVIOUS
<1>2. PICK f : /\ PassTable(f, Len(feeds), start, feeds, fed, since, strict)
               /\ Pass(start, feeds, fed, since, strict) = f[Len(feeds)]
    BY <1>1, PassUnfolds
<1> DEFINE So(n) ==
      /\ SoundRun(f[n], P, D) /\ Traced(f[n], R0, fed)
      /\ SettledBy(start, fed) \subseteq SettledBy(f[n], fed)
      /\ \A Y : Waiting(f[n], Y) => Waiting(start, Y) \/ Y \in fed
      /\ \A k \in 1..n : \/ DoneBy(f[n], R0, fed, feeds[k].sync)
                         \/ strict /\ Waiting(f[n], feeds[k].sync)
<1> DEFINE S == {n \in Nat : n <= Len(feeds) => So(n)}
<1>3. 0 \in S
    <2>1. 0 \in 0..Len(feeds) BY <1>1
    <2>2. f[0] = start BY <1>2, <2>1 DEF PassTable
    <2>3. So(0) BY <2>2
    <2> QED BY <2>3
<1>4. ASSUME NEW n \in Nat, n \in S PROVE n + 1 \in S
    <2> SUFFICES ASSUME n + 1 <= Len(feeds) PROVE So(n + 1) OBVIOUS
    <2>1. /\ n + 1 \in 0..Len(feeds) /\ n + 1 # 0 /\ (n + 1) - 1 = n
          /\ n + 1 \in DOMAIN feeds /\ n <= Len(feeds)
        BY <1>1
    <2>2. PICK run, next, feed : run = f[n] /\ next = f[n + 1] /\ feed = feeds[n + 1] OBVIOUS
    <2>3. next = PostFeedRow(run, feed, fed, since, strict)
        BY <1>2, <2>1, <2>2 DEF PassTable
    <2>4. So(n) BY <1>4, <2>1
    <2>5. SoundRecord(feed) /\ feed.sync \in fed BY <2>1, <2>2
    <2>6. SoundRun(run, P, D) /\ Traced(run, R0, fed) BY <2>2, <2>4
    <2>7. SoundRun(next, P, D) BY <2>3, <2>5, <2>6, PostFeedRowRun
    <2>8. Handled(run, next, R0, fed, feed.sync, strict)
        BY <2>3, <2>5, <2>6, PostFeedRowFollows
    <2>9. SettledBy(run, fed) \subseteq SettledBy(next, fed) BY <2>8 DEF Handled
    <2>10. \A Y : Waiting(next, Y) => Waiting(start, Y) \/ Y \in fed
        BY <2>2, <2>4, <2>5, <2>8 DEF Handled
    <2>11. ASSUME NEW k \in 1..(n + 1)
           PROVE  \/ DoneBy(next, R0, fed, feeds[k].sync)
                  \/ strict /\ Waiting(next, feeds[k].sync)
        <3>1. CASE k = n + 1 BY <2>2, <2>8, <3>1 DEF Handled
        <3>2. CASE k # n + 1
            <4>1. k \in 1..n BY <3>2
            <4>2. \/ DoneBy(run, R0, fed, feeds[k].sync)
                  \/ strict /\ Waiting(run, feeds[k].sync)
                BY <2>2, <2>4, <4>1
            <4>3. CASE DoneBy(run, R0, fed, feeds[k].sync) BY <2>9, <4>3, StillDone
            <4>4. CASE strict /\ Waiting(run, feeds[k].sync) BY <2>8, <4>4 DEF Handled
            <4> QED BY <4>2, <4>3, <4>4
        <3> QED BY <3>1, <3>2
    <2>12. Traced(next, R0, fed) BY <2>8 DEF Handled
    <2>13. SettledBy(start, fed) \subseteq SettledBy(next, fed) BY <2>2, <2>4, <2>9
    <2> QED BY <2>2, <2>7, <2>10, <2>11, <2>12, <2>13
<1> HIDE DEF S
<1>5. Nat \subseteq S BY <1>3, <1>4, Induct
<1>6. Len(feeds) \in S BY <1>1, <1>5
<1>7. So(Len(feeds)) BY <1>1, <1>6 DEF S
<1>8. last = f[Len(feeds)] BY <1>2
<1> QED BY <1>1, <1>7, <1>8

LEMMA PostedFollows ==
    ASSUME NEW D, SoundRows(rows), SoundMatches(rows, matches), AllTold(rows, matches, D),
           NEW feeds, feeds \in Seq(Range(feeds)), \A n \in DOMAIN feeds : SoundRecord(feeds[n]),
           NEW fed, None \notin fed, \A n \in DOMAIN feeds : feeds[n].sync \in fed, NEW since,
           NEW last, last = Posted(feeds, fed, since)
    PROVE  /\ Traced(last, rows, fed)
           /\ \A k \in DOMAIN feeds : DoneBy(last, rows, fed, feeds[k].sync)
<1>1. PICK start : start = [rows |-> rows, matches |-> matches, consumed |-> {}, fresh |-> {},
                            deferred |-> <<>>]
    OBVIOUS
<1>2. start.rows = rows /\ start.consumed = {} /\ start.deferred = << >> BY <1>1
<1>3. SoundRun(start, rows, D)
    <2>1. DOMAIN start = RunFields BY <1>1 DEF RunFields
    <2>2. start.matches = matches /\ start.fresh = {} BY <1>1
    <2>3. start.deferred \in Seq(Range(start.deferred)) /\ DOMAIN start.deferred = {} BY <1>2
    <2>4. Steady(rows, start.rows) BY <1>2 DEF Steady
    <2> QED BY <1>2, <2>1, <2>2, <2>3, <2>4 DEF SoundRun
<1>4. Traced(start, rows, fed) BY <1>2 DEF Traced, Follows, IdsOf
<1>5. \A Y : ~Waiting(start, Y) BY <1>2 DEF Waiting
<1>a. PICK strict : strict = TRUE OBVIOUS
<1>6. PICK mid : mid = Pass(start, feeds, fed, since, strict) OBVIOUS
<1>7. SoundRun(mid, rows, D) BY <1>3, <1>6, PassRun
<1>8. Traced(mid, rows, fed) BY <1>3, <1>4, <1>6, PassFollows
<1>b. \A Y : Waiting(mid, Y) => Waiting(start, Y) \/ Y \in fed
    BY <1>3, <1>4, <1>6, PassFollows
<1>9. \A k \in DOMAIN feeds : \/ DoneBy(mid, rows, fed, feeds[k].sync)
                              \/ strict /\ Waiting(mid, feeds[k].sync)
    BY <1>3, <1>4, <1>6, PassFollows
<1>10. PICK waits : waits = mid.deferred OBVIOUS
<1>11. /\ waits \in Seq(Range(waits)) /\ \A n \in DOMAIN waits : SoundRecord(waits[n])
    BY <1>7, <1>10 DEF SoundRun
<1>12. \A n \in DOMAIN waits : waits[n].sync \in fed
    BY <1>5, <1>b, <1>10 DEF Waiting
<1>13. last = Pass(mid, waits, fed, since, FALSE) BY <1>1, <1>a, <1>6, <1>10 DEF Posted
<1>14. /\ Traced(last, rows, fed) /\ SettledBy(mid, fed) \subseteq SettledBy(last, fed)
    BY <1>7, <1>8, <1>11, <1>12, <1>13, PassFollows
<1>15. \A k \in DOMAIN waits : DoneBy(last, rows, fed, waits[k].sync)
    BY <1>7, <1>8, <1>11, <1>12, <1>13, PassFollows
<1>16. ASSUME NEW k \in DOMAIN feeds PROVE DoneBy(last, rows, fed, feeds[k].sync)
    <2>1. CASE DoneBy(mid, rows, fed, feeds[k].sync) BY <1>14, <2>1, StillDone
    <2>2. CASE Waiting(mid, feeds[k].sync)
        <3>1. PICK n \in DOMAIN waits : waits[n].sync = feeds[k].sync
            BY <1>10, <2>2 DEF Waiting
        <3> QED BY <1>15, <3>1
    <2> QED BY <1>9, <2>1, <2>2
<1> QED BY <1>14, <1>16

(* The judging takes the id from rows whose id the feed did not carry, and  *)
(* leaves the others as they are; it closes the reviews of the rows it      *)
(* removes, and no others.                                                  *)
ReviewsClosed(run, next, fed) ==
    \E S \in SUBSET Live(run.rows) :
       /\ Cancelled(run.matches, S) \subseteq next.matches
       /\ \A i \in S : run.rows[i].sync \notin fed /\ next.rows[i].gone = "dropped"

LEMMA JudgedRows ==
    ASSUME NEW run, DOMAIN run = RunFields, SoundRows(run.rows),
           NEW feeds, NEW fed, NEW from, NEW next, next = Judged(run, feeds, fed, from)
    PROVE  /\ DOMAIN next.rows = DOMAIN run.rows
           /\ \A i \in DOMAIN run.rows :
                 \/ next.rows[i] = run.rows[i]
                 \/ /\ run.rows[i].live /\ run.rows[i].sync \notin fed \cup {None}
                    /\ next.rows[i].sync = None
           /\ ReviewsClosed(run, next, fed)
<1> DEFINE R == run.rows
<1>1. CASE fed = {}
    <2>1. next.rows = R /\ next.matches = run.matches BY <1>1 DEF Judged
    <2>2. PICK S : S = {} OBVIOUS
    <2>3. Cancelled(run.matches, S) \subseteq next.matches BY <2>1, <2>2, NothingCancelled
    <2>4. ReviewsClosed(run, next, fed) BY <2>2, <2>3 DEF ReviewsClosed
    <2> QED BY <2>1, <2>4
<1>2. CASE fed # {}
    <2>1. PICK holds : holds = {i \in Live(R) : /\ SyncCreatedPending(R[i])
                                                /\ R[i].sync \notin fed /\ R[i].day >= from}
        OBVIOUS
    <2>2. PICK theirs : theirs = {i \in Live(R) : /\ UserRowLinkedToHold(R[i])
                                                  /\ R[i].sync \notin fed /\ R[i].day >= from}
        OBVIOUS
    <2>3. PICK dropped : dropped = DropHolds(run, holds) OBVIOUS
    <2>4. PICK judged : judged = Unlink(dropped, theirs) OBVIOUS
    <2>5. next.rows = judged.rows /\ next.matches = judged.matches
        BY <1>2, <2>1, <2>2, <2>3, <2>4 DEF Judged, Unreported
    <2>6. PICK G : G = Released(R, holds) OBVIOUS
    <2>7. PICK P : P = dropped.rows OBVIOUS
    <2>8. /\ DOMAIN dropped = RunFields /\ dropped.matches = Cancelled(run.matches, holds)
          /\ P = [i \in DOMAIN G |-> IF i \in holds THEN Gone(G[i], "dropped") ELSE G[i]]
        BY <2>3, <2>6, <2>7 DEF DropHolds, RunFields
    <2>9. PICK Q : Q = next.rows OBVIOUS
    <2>10. Q = Released(P, theirs) BY <2>4, <2>5, <2>7, <2>8, <2>9 DEF Unlink, RunFields
    <2>11. holds \subseteq Live(R) /\ holds \cap theirs = {} /\ theirs \subseteq Live(R)
        BY <2>1, <2>2 DEF SyncCreatedPending, UserRowLinkedToHold
    <2>12. DOMAIN G = DOMAIN R /\ DOMAIN P = DOMAIN R /\ DOMAIN Q = DOMAIN R
        BY <2>6, <2>8, <2>10 DEF Released
    <2>13. \A i \in DOMAIN R \ (holds \cup theirs) : Q[i] = R[i]
        BY <2>6, <2>8, <2>10, <2>12 DEF Released
    <2>14. ASSUME NEW i \in holds
           PROVE  R[i].live /\ R[i].sync \notin fed \cup {None} /\ Q[i].sync = None
                  /\ Q[i].gone = "dropped"
        <3>1. i \in DOMAIN R /\ R[i].live /\ SoundRow(R[i]) BY <2>11 DEF Live, SoundRows
        <3>2. PICK row, g, how : row = R[i] /\ g = [row EXCEPT !.sync = None] /\ how = "dropped"
            OBVIOUS
        <3>3. SoundRow(g) /\ g.sync = None BY <3>1, <3>2, UnlinkedSound
        <3>4. DOMAIN g = RowFields BY <3>3, FieldsOfRow
        <3>5. Gone(g, how).sync = None /\ Gone(g, how).gone = how
            BY <3>3, <3>4 DEF Gone, RowFields
        <3>6. Q[i] = Gone(g, how)
            BY <2>6, <2>8, <2>10, <2>11, <2>12, <3>1, <3>2 DEF Released
        <3>7. R[i].sync \notin fed \cup {None} BY <2>1 DEF SyncCreatedPending
        <3> QED BY <3>1, <3>2, <3>5, <3>6, <3>7
    <2>15. ASSUME NEW i \in theirs
           PROVE  R[i].live /\ R[i].sync \notin fed \cup {None} /\ Q[i].sync = None
        <3>1. i \in DOMAIN R /\ R[i].live /\ SoundRow(R[i]) BY <2>11 DEF Live, SoundRows
        <3>2. PICK row, g : row = R[i] /\ g = [row EXCEPT !.sync = None] OBVIOUS
        <3>3. g.sync = None BY <3>1, <3>2, UnlinkedSound
        <3>4. Q[i] = g BY <2>6, <2>8, <2>10, <2>11, <2>12, <3>1, <3>2 DEF Released
        <3>5. R[i].sync \notin fed \cup {None}
            BY <2>2 DEF UserRowLinkedToHold, ProvisionallyLinked
        <3> QED BY <3>1, <3>3, <3>4, <3>5
    <2>16. Cancelled(run.matches, holds) \subseteq next.matches
        BY <2>4, <2>5, <2>8 DEF Unlink, RunFields
    <2>17. \A i \in DOMAIN R : \/ Q[i] = R[i]
                               \/ R[i].live /\ R[i].sync \notin fed \cup {None} /\ Q[i].sync = None
        BY <2>13, <2>14, <2>15
    <2>18. ReviewsClosed(run, next, fed)
        BY <2>9, <2>11, <2>14, <2>16 DEF ReviewsClosed
    <2> QED BY <2>9, <2>12, <2>17, <2>18
<1> QED BY <1>1, <1>2

(* What a run that reached the account leaves of the register R0.           *)
Served(R0, Q, fed) ==
    /\ \A j \in Dead(R0) : j \in Dead(Q) /\ Q[j].sync = R0[j].sync /\ Q[j].gone = R0[j].gone
    /\ \A i \in Live(Q) : Q[i].sync # None =>
          \/ Q[i].sync \in IdsOf(R0)
          \/ Q[i].sync \in fed /\ Holders(R0, Q[i].sync) = {}
    /\ \A j \in Dead(Q) : Q[j].sync # None =>
          j \in Dead(R0) \/ (Q[j].gone = "merged" /\ Q[j].sync \in fed \cap IdsOf(Q))
    /\ \A X \in fed : X \in IdsOf(Q) \/ \E j \in Dead(R0) : R0[j].sync = X

LEMMA FollowsServes ==
    ASSUME NEW R, NEW C, NEW R0, NEW fed, Follows(R, C, R0, fed),
           \A X \in fed : Done(R, C, R0, fed, X), NEW Q, DOMAIN Q = DOMAIN R,
           \A i \in DOMAIN R : \/ Q[i] = R[i]
                               \/ R[i].live /\ R[i].sync \notin fed /\ Q[i].sync = None
    PROVE  Served(R0, Q, fed)
<1>1. ASSUME NEW j \in Dead(R0)
      PROVE  j \in Dead(Q) /\ Q[j].sync = R0[j].sync /\ Q[j].gone = R0[j].gone
    <2>1. j \in Dead(R) /\ R[j].sync = R0[j].sync /\ R[j].gone = R0[j].gone BY DEF Follows
    <2>2. Q[j] = R[j] BY <2>1 DEF Dead, Live
    <2> QED BY <2>1, <2>2 DEF Dead, Live
<1>2. ASSUME NEW i \in Live(Q), Q[i].sync # None
      PROVE  \/ Q[i].sync \in IdsOf(R0)
             \/ Q[i].sync \in fed /\ Holders(R0, Q[i].sync) = {}
    <2>1. i \in DOMAIN R /\ Q[i] = R[i] BY <1>2 DEF Live
    <2>2. i \in Live(R) BY <2>1 DEF Live
    <2> QED BY <1>2, <2>1, <2>2 DEF Follows
<1>3. ASSUME NEW X \in Settled(R, C, fed) PROVE X \in fed \cap IdsOf(Q)
    <2>1. PICK k \in Live(R) \cap C : X = R[k].sync /\ X \in fed BY DEF Settled
    <2>2. Q[k] = R[k] BY <2>1 DEF Live
    <2> QED BY <2>1, <2>2 DEF IdsOf, Live
<1>4. ASSUME NEW j \in Dead(Q), Q[j].sync # None
      PROVE  j \in Dead(R0) \/ (Q[j].gone = "merged" /\ Q[j].sync \in fed \cap IdsOf(Q))
    <2>1. j \in DOMAIN R /\ Q[j] = R[j] BY <1>4 DEF Dead
    <2>2. j \in Dead(R) BY <2>1 DEF Dead, Live
    <2>3. j \in Dead(R0) \/ (R[j].gone = "merged" /\ R[j].sync \in Settled(R, C, fed))
        BY <1>4, <2>1, <2>2 DEF Follows
    <2> QED BY <1>3, <2>1, <2>3
<1>5. ASSUME NEW X \in fed PROVE X \in IdsOf(Q) \/ \E j \in Dead(R0) : R0[j].sync = X
    BY <1>3 DEF Done
<1> QED BY <1>1, <1>2, <1>4, <1>5 DEF Served

LEMMA RunServes ==
    ASSUME NEW D, SoundRows(rows), SoundMatches(rows, matches), AllTold(rows, matches, D),
           NEW feeds, feeds \in Seq(Range(feeds)), \A n \in DOMAIN feeds : SoundRecord(feeds[n]),
           NEW fed, fed = {feeds[n].sync : n \in DOMAIN feeds}, NEW since, NEW from,
           NEW next, next = Judged(Posted(feeds, fed, since), feeds, fed, from)
    PROVE  Served(rows, next.rows, fed)
<1>1. None \notin fed BY DEF SoundRecord
<1>2. \A n \in DOMAIN feeds : feeds[n].sync \in fed OBVIOUS
<1>3. PICK run : run = Posted(feeds, fed, since) OBVIOUS
<1>4. Traced(run, rows, fed) BY <1>1, <1>2, <1>3, PostedFollows
<1>5. \A k \in DOMAIN feeds : DoneBy(run, rows, fed, feeds[k].sync)
    BY <1>1, <1>2, <1>3, PostedFollows
<1>6. SoundRun(run, rows, D) BY <1>3, PostedRun
<1>7. PICK R, C, Q : R = run.rows /\ C = run.consumed /\ Q = next.rows OBVIOUS
<1>8. DOMAIN run = RunFields /\ SoundRows(run.rows) BY <1>6 DEF SoundRun
<1>9. next = Judged(run, feeds, fed, from) BY <1>3
<1>10. DOMAIN Q = DOMAIN R BY <1>7, <1>8, <1>9, JudgedRows
<1>11. \A i \in DOMAIN R : \/ Q[i] = R[i]
                           \/ R[i].live /\ R[i].sync \notin fed /\ Q[i].sync = None
    BY <1>7, <1>8, <1>9, JudgedRows
<1>12. Follows(R, C, rows, fed) BY <1>4, <1>7 DEF Traced
<1>13. \A X \in fed : Done(R, C, rows, fed, X) BY <1>5, <1>7 DEF DoneBy
<1>14. PICK R0 : R0 = rows OBVIOUS
<1>15. Served(R0, Q, fed)
    <2>1. Follows(R, C, R0, fed) /\ \A X \in fed : Done(R, C, R0, fed, X)
        BY <1>12, <1>13, <1>14
    <2> QED BY <1>10, <1>11, <2>1, FollowsServes
<1> QED BY <1>7, <1>14, <1>15

(* A run that reaches the account: the records it is fed, in their order,   *)
(* and what it commits. Two records of a feed with one id are one record.   *)
Distinct(records) == \A a, b \in records : a.sync = b.sync => a = b
FedWith(answer, feeds, fed) ==
    /\ answer \subseteq Reported /\ fed = {IdOf(p) : p \in answer}
    /\ feeds \in Seq(Range(feeds)) /\ \A n \in DOMAIN feeds : SoundRecord(feeds[n])
    /\ fed = {feeds[n].sync : n \in DOMAIN feeds} /\ Distinct(Range(feeds))
Ran(feeds, fed, since, from) ==
    LET run == Judged(Posted(feeds, fed, since), feeds, fed, from)
    IN  rows' = run.rows /\ matches' = run.matches /\ bank' = bank
ServedBy(answer) ==
    \E feeds, fed, since, from : FedWith(answer, feeds, fed) /\ Ran(feeds, fed, since, from)

LEMMA ServeRun ==
    ASSUME BankInv, NEW window, NEW account, Serve(window, account)
    PROVE  \E answer \in Answers(window) : ServedBy(answer)
<1> DEFINE Told(order, feeds, fed, run) ==
        /\ feeds = [n \in DOMAIN order |-> FeedRecord(order[n])]
        /\ fed = {feeds[n].sync : n \in DOMAIN feeds}
        /\ run = Judged(Posted(feeds, fed, window.since), feeds, fed, JudgedFrom(window))
        /\ rows' = run.rows /\ matches' = run.matches /\ BankKeeps
<1>0. PICK answer \in Answers(window) :
         \E order \in SetToSeqs(answer) : \E feeds, fed, run : Told(order, feeds, fed, run)
    BY Zenon DEF Serve
<1>a. PICK order \in SetToSeqs(answer) : \E feeds, fed, run : Told(order, feeds, fed, run)
    BY <1>0
<1>1. PICK feeds, fed, run : Told(order, feeds, fed, run) BY <1>a
<1>2. answer \subseteq Reported BY <1>0 DEF Answers
<1>3. SoundBank(bank) /\ Reported \subseteq Purchases
    BY DEF BankInv, TypeOK, SoundBank, Reported
<1>4. IsFiniteSet(answer) BY <1>2, <1>3, FS_Subset, BankAssumption
<1>5. PICK N : N = Cardinality(answer) OBVIOUS
<1>6. N \in Nat BY <1>4, <1>5, FS_CardinalityType
<1>7. order \in [1..N -> answer] /\ \A i, j \in 1..N : i # j => order[i] # order[j]
    BY <1>a, <1>5 DEF SetToSeqs
<1>8. \A p \in answer : \E n \in 1..N : order[n] = p
    <2>1. order \in Injection(1..N, answer) BY <1>7 DEF Injection, IsInjective
    <2>2. Cardinality(1..N) = N BY <1>6, FS_Interval
    <2>3. order \in Surjection(1..N, answer) BY <1>4, <1>5, <2>1, <2>2, FS_Injection
    <2> QED BY <2>3 DEF Surjection
<1>9. DOMAIN feeds = 1..N /\ \A n \in 1..N : feeds[n] = FeedRecord(order[n]) BY <1>1, <1>7
<1>10. feeds \in Seq(Range(feeds))
    <2>1. feeds \in [1..N -> Range(feeds)] BY <1>1, <1>9 DEF Range
    <2> QED BY <1>6, <2>1
<1>11. \A n \in DOMAIN feeds : feeds[n].sync = IdOf(order[n]) BY <1>9 DEF FeedRecord
<1>12. \A n \in DOMAIN feeds : SoundRecord(feeds[n])
    <2> TAKE n \in DOMAIN feeds
    <2>1. PICK p : p = order[n] OBVIOUS
    <2>2. p \in Reported BY <1>2, <1>7, <1>9, <2>1
    <2>3. /\ p \in Purchases /\ bank[p].version \in Nat /\ bank[p].posted \in BOOLEAN
          /\ bank[p].day \in Days
        BY <1>3, <2>2 DEF SoundBank, Reported
    <2>4. /\ feeds[n].sync = <<p, bank[p].version>> /\ feeds[n].posted = bank[p].posted
          /\ feeds[n].day = bank[p].day
        BY <1>9, <2>1 DEF FeedRecord, IdOf
    <2>5. feeds[n].sync # None
        <3>1. <<p, bank[p].version>> \in Purchases \X Nat BY <2>3
        <3> QED BY <2>4, <3>1, BankAssumption
    <2>6. SoundFeed(feeds[n]) BY <2>3, <2>4 DEF SoundFeed
    <2> QED BY <2>5, <2>6 DEF SoundRecord
<1>13. fed = {IdOf(p) : p \in answer}
    <2>1. fed = {feeds[n].sync : n \in 1..N} BY <1>1, <1>9
    <2>2. \A n \in 1..N : order[n] \in answer BY <1>7
    <2> QED BY <1>8, <1>9, <1>11, <2>1, <2>2
<1>14. Distinct(Range(feeds))
    <2> SUFFICES ASSUME NEW i \in 1..N, NEW j \in 1..N, feeds[i].sync = feeds[j].sync
                 PROVE  feeds[i] = feeds[j]
        BY <1>9 DEF Distinct, Range
    <2>1. PICK p, q : p = order[i] /\ q = order[j] OBVIOUS
    <2>2. IdOf(p) = IdOf(q) BY <1>9, <1>11, <2>1
    <2>3. p = q BY <2>2 DEF IdOf
    <2> QED BY <1>9, <2>1, <2>3
<1>15. FedWith(answer, feeds, fed)
    BY <1>1, <1>2, <1>10, <1>12, <1>13, <1>14 DEF FedWith
<1>16. Ran(feeds, fed, window.since, JudgedFrom(window)) BY <1>1 DEF Ran, BankKeeps
<1> QED BY <1>15, <1>16 DEF ServedBy

(* A run that reaches the account answers with some of what the bank        *)
(* reports, and leaves the register as Served says.                         *)
ServedFrom(answer) ==
    /\ answer \subseteq Reported /\ Served(rows, rows', {IdOf(p) : p \in answer})
    /\ bank' = bank

LEMMA ServeBook ==
    ASSUME BankInv, NEW window, NEW account, Serve(window, account)
    PROVE  \E answer \in Answers(window) : ServedFrom(answer)
<1>1. PICK answer \in Answers(window) : ServedBy(answer) BY ServeRun
<1>2. PICK feeds, fed, since, from : FedWith(answer, feeds, fed) /\ Ran(feeds, fed, since, from)
    BY <1>1 DEF ServedBy
<1>3. PICK D : D = DOMAIN absences OBVIOUS
<1>4. SoundRows(rows) /\ SoundMatches(rows, matches) /\ AllTold(rows, matches, D)
    BY <1>3 DEF BankInv, TypeOK
<1>5. PICK run : run = Judged(Posted(feeds, fed, since), feeds, fed, from) OBVIOUS
<1>6. rows' = run.rows /\ bank' = bank BY <1>2, <1>5 DEF Ran
<1>7. /\ feeds \in Seq(Range(feeds)) /\ \A n \in DOMAIN feeds : SoundRecord(feeds[n])
      /\ fed = {feeds[n].sync : n \in DOMAIN feeds}
    BY <1>2 DEF FedWith
<1>8. Served(rows, run.rows, fed) BY <1>4, <1>5, <1>7, RunServes
<1> QED BY <1>2, <1>6, <1>8 DEF ServedFrom, FedWith

-----------------------------------------------------------------------------
(* The ids of the register are those of the bank.                           *)

LEMMA ServedIds ==
    ASSUME NEW R0, SoundRows(R0), NEW Q, SoundRows(Q), NEW fed, Served(R0, Q, fed),
           NEW B, SoundIds(R0, B), fed \subseteq IdsGiven(B)
    PROVE  SoundIds(Q, B)
<1>1. \A i \in Live(R0) : i \in DOMAIN R0 /\ i \notin Dead(R0) BY DEF Live, Dead
<1>2. \A i \in Live(Q) : i \in DOMAIN Q /\ Q[i].gone = None
    <2> TAKE i \in Live(Q)
    <2>1. i \in DOMAIN Q /\ SoundRow(Q[i]) /\ Q[i].live BY DEF SoundRows, Live
    <2> QED BY <2>1 DEF SoundRow
<1>3. \A X \in IdsOf(R0) : X # None => X \in IdsGiven(B)
    BY <1>1 DEF IdsOf, SoundIds
<1>4. ASSUME NEW i \in DOMAIN Q, Q[i].sync # None
      PROVE  Q[i].sync \in IdsGiven(B) /\ Q[i].gone \in {None, "merged", "person"}
    <2>1. CASE i \in Live(Q) BY <1>2, <1>3, <1>4, <2>1 DEF Served
    <2>2. CASE i \in Dead(R0)
        <3>1. i \in DOMAIN R0 /\ Q[i].sync = R0[i].sync /\ Q[i].gone = R0[i].gone
            BY <2>2 DEF Served, Dead
        <3> QED BY <1>4, <3>1 DEF SoundIds
    <2>3. CASE i \notin Live(Q) /\ i \notin Dead(R0)
        <3>1. i \in Dead(Q) BY <2>3 DEF Dead
        <3> QED BY <1>4, <2>3, <3>1 DEF Served
    <2> QED BY <2>1, <2>2, <2>3
<1>5. ASSUME NEW i \in Live(Q), NEW j \in DOMAIN Q, Q[i].sync # None, Q[i].sync = Q[j].sync
      PROVE  i = j \/ Q[j].gone = "merged"
    <2>1. CASE j \in Live(Q) BY <1>5, <2>1 DEF SoundRows
    <2>2. CASE j \in Dead(R0)
        <3>1. j \in DOMAIN R0 /\ Q[j].sync = R0[j].sync /\ Q[j].gone = R0[j].gone
            BY <2>2 DEF Served, Dead
        <3>2. j \in Holders(R0, Q[i].sync) BY <1>5, <3>1 DEF Holders
        <3>3. Q[i].sync \in IdsOf(R0) BY <1>5, <3>2 DEF Served
        <3>4. PICK k \in Live(R0) : R0[k].sync = Q[i].sync BY <3>3 DEF IdsOf
        <3>5. k # j BY <1>1, <2>2, <3>4
        <3>6. R0[k].sync # None /\ R0[k].sync = R0[j].sync BY <1>5, <3>1, <3>4
        <3>7. R0[j].gone = "merged" BY <3>1, <3>4, <3>5, <3>6 DEF SoundIds
        <3> QED BY <3>1, <3>7
    <2>3. CASE j \notin Live(Q) /\ j \notin Dead(R0)
        <3>1. j \in Dead(Q) BY <2>3 DEF Dead
        <3> QED BY <1>5, <2>3, <3>1 DEF Served
    <2> QED BY <2>1, <2>2, <2>3
<1> QED BY <1>4, <1>5 DEF SoundIds

(* The rows with a bank id stay as they are.                                *)
Alike(R, Q) ==
    /\ \A j \in DOMAIN Q : Q[j].sync # None =>
          /\ j \in DOMAIN R /\ Q[j].sync = R[j].sync
          /\ (Q[j].live <=> R[j].live) /\ Q[j].gone = R[j].gone
    /\ \A j \in DOMAIN R : R[j].sync # None => j \in DOMAIN Q /\ Q[j].sync = R[j].sync

LEMMA AlikeIds ==
    ASSUME NEW R, NEW Q, Alike(R, Q), NEW B, NEW C, SoundIds(R, B), IdsGiven(B) \subseteq IdsGiven(C)
    PROVE  SoundIds(Q, C)
<1>1. ASSUME NEW i \in DOMAIN Q, Q[i].sync # None
      PROVE  Q[i].sync \in IdsGiven(C) /\ Q[i].gone \in {None, "merged", "person"}
    <2>1. i \in DOMAIN R /\ Q[i].sync = R[i].sync /\ Q[i].gone = R[i].gone BY <1>1 DEF Alike
    <2> QED BY <1>1, <2>1 DEF SoundIds
<1>2. ASSUME NEW i \in Live(Q), NEW j \in DOMAIN Q, Q[i].sync # None, Q[i].sync = Q[j].sync
      PROVE  i = j \/ Q[j].gone = "merged"
    <2>1. i \in DOMAIN Q /\ Q[i].live BY DEF Live
    <2>2. i \in DOMAIN R /\ Q[i].sync = R[i].sync /\ R[i].live BY <1>2, <2>1 DEF Alike
    <2>3. j \in DOMAIN R /\ Q[j].sync = R[j].sync /\ Q[j].gone = R[j].gone BY <1>2 DEF Alike
    <2>4. i \in Live(R) BY <2>2 DEF Live
    <2> QED BY <1>2, <2>2, <2>3, <2>4 DEF SoundIds
<1> QED BY <1>1, <1>2 DEF SoundIds

LEMMA BookTypes == ASSUME DOMAIN bank = Purchases PROVE Book!TypeOK
BY DEF Book!TypeOK, Reported, Renamed, LeftBy, Shelf, Asks

LEMMA BookTypesNext == ASSUME DOMAIN bank' = Purchases PROVE Book!TypeOK'
BY DEF Book!TypeOK, Reported, Renamed, LeftBy, Shelf, Asks

(* The bank gives out new ids, or none.                                     *)
Renews(B, C) ==
    /\ IdsGiven(B) \subseteq IdsGiven(C) /\ SoundBank(C)
    /\ \A p \in Purchases : C[p].version = B[p].version \/ <<p, C[p].version>> \notin IdsGiven(B)

LEMMA BookBank ==
    ASSUME SoundIds(rows, bank), Alike(rows, rows'), Renews(bank, bank')
    PROVE  SoundIds(rows', bank') /\ Book!Bank
<1>1. SoundIds(rows', bank') BY AlikeIds DEF Renews
<1>2. Book!TypeOK' BY BookTypesNext DEF Renews, SoundBank
<1>0. \A p \in Purchases : IdOf(p)' # None
    <2> TAKE p \in Purchases
    <2>1. bank'[p].version \in Nat BY DEF Renews, SoundBank
    <2>2. <<p, bank'[p].version>> \in Purchases \X Nat BY <2>1
    <2> QED BY <2>2, BankAssumption DEF IdOf
<1>3. ASSUME NEW p \in Purchases PROVE Bearers(p)' = Bearers(p)
    <2>1. \A j : j \in Bearers(p)' => j \in Bearers(p) BY DEF Bearers, Live, Alike
    <2>2. \A j : j \in Bearers(p) => j \in Bearers(p)' BY DEF Bearers, Live, Alike
    <2> QED BY <2>1, <2>2
<1>4. \A p \in Purchases : IdOf(p)' = IdOf(p) \/ Holders(rows, IdOf(p)') = {}
    <2> TAKE p \in Purchases
    <2>1. CASE bank'[p].version = bank[p].version BY <2>1 DEF IdOf
    <2>2. CASE <<p, bank'[p].version>> \notin IdsGiven(bank)
        <3>1. \A j \in DOMAIN rows : rows[j].sync = IdOf(p)' => FALSE
            <4> SUFFICES ASSUME NEW j \in DOMAIN rows, rows[j].sync = IdOf(p)' PROVE FALSE
                OBVIOUS
            <4>1. IdOf(p)' = <<p, bank'[p].version>> BY DEF IdOf
            <4>2. rows[j].sync # None BY <1>0
            <4> QED BY <2>2, <4>1, <4>2 DEF SoundIds
        <3> QED BY <3>1 DEF Holders
    <2> QED BY <2>1, <2>2 DEF Renews
<1>5. \A id : id # None => /\ Holders(rows', id) = Holders(rows, id)
                           /\ \A j \in Holders(rows, id) : rows'[j].gone = rows[j].gone
    <2> SUFFICES ASSUME NEW id, id # None
                 PROVE  /\ Holders(rows', id) = Holders(rows, id)
                        /\ \A j \in Holders(rows, id) : rows'[j].gone = rows[j].gone
        OBVIOUS
    <2>1. \A j : j \in Holders(rows', id) =>
                   j \in Holders(rows, id) /\ rows'[j].gone = rows[j].gone
        BY DEF Holders, Alike
    <2>2. \A j : j \in Holders(rows, id) => j \in Holders(rows', id) BY DEF Holders, Alike
    <2> QED BY <2>1, <2>2
<1>6. ASSUME NEW how, NEW p \in Purchases, \E i \in Holders(rows', IdOf(p)') : rows'[i].gone = how
      PROVE  \E i \in Holders(rows, IdOf(p)) : rows[i].gone = how
    <2>1. PICK i \in Holders(rows', IdOf(p)') : rows'[i].gone = how BY <1>6
    <2>2. i \in Holders(rows, IdOf(p)') /\ rows[i].gone = how BY <1>0, <1>5, <2>1
    <2>3. IdOf(p)' = IdOf(p) BY <1>4, <2>2
    <2> QED BY <2>2, <2>3
<1>7. LeftBy("merged")' \subseteq LeftBy("merged") /\ LeftBy("person")' \subseteq LeftBy("person")
    BY <1>6 DEF LeftBy
<1> DEFINE fresh == {p \in Purchases : IdOf(p)' # IdOf(p)}
<1>8. ASSUME NEW p \in Purchases
      PROVE  Shelf'[p] = IF p \in fresh /\ Shelf[p] = "dismissed" THEN "absent" ELSE Shelf[p]
    <2>1. Shelf[p] = IF Bearers(p) # {} THEN "shown"
                     ELSE IF Holders(rows, IdOf(p)) # {} THEN "dismissed" ELSE "absent"
        BY DEF Shelf
    <2>2. Shelf'[p] = IF Bearers(p)' # {} THEN "shown"
                      ELSE IF Holders(rows', IdOf(p)') # {} THEN "dismissed" ELSE "absent"
        BY DEF Shelf
    <2>3. Bearers(p)' = Bearers(p) BY <1>3
    <2>4. CASE p \in fresh
        <3>1. Holders(rows', IdOf(p)') = {} BY <1>0, <1>4, <1>5, <2>4
        <3> QED BY <2>1, <2>2, <2>3, <2>4, <3>1
    <2>5. CASE p \notin fresh
        <3>1. Holders(rows', IdOf(p)') = Holders(rows, IdOf(p)) BY <1>0, <1>5, <2>5
        <3> QED BY <2>1, <2>2, <2>3, <2>5, <3>1
    <2> QED BY <2>4, <2>5
<1>9. Shelf' = [p \in Purchases |->
                  IF p \in fresh /\ Shelf[p] = "dismissed" THEN "absent" ELSE Shelf[p]]
    <2>1. Shelf' = [p \in Purchases |-> Shelf'[p]] BY DEF Shelf
    <2> QED BY <1>8, <2>1
<1>10. fresh \in SUBSET Purchases OBVIOUS
<1> HIDE DEF fresh
<1>11. Book!Bank BY <1>2, <1>7, <1>9, <1>10 DEF Book!Bank
<1> QED BY <1>1, <1>11

(* A run that asked for what BookKept says it asks for, and was answered.   *)
LEMMA BookServe ==
    ASSUME BankInv, BankInv', SoundIds(rows, bank), NEW answer, ServedFrom(answer),
           \A p \in Purchases : Asks(p) => p \in answer
    PROVE  SoundIds(rows', bank') /\ Book!Sync
<1>1. /\ SoundRows(rows) /\ SoundRows(rows') /\ SoundBank(bank) /\ bank' = bank
      /\ answer \subseteq Reported
    BY DEF BankInv, TypeOK, ServedFrom
<1>2. PICK fed : fed = {IdOf(p) : p \in answer} OBVIOUS
<1>3. Served(rows, rows', fed) BY <1>2 DEF ServedFrom
<1>4. Reported \subseteq Purchases BY <1>1 DEF Reported, SoundBank
<1>5. \A p \in Purchases : IdOf(p) = <<p, bank[p].version>> /\ IdOf(p) # None
                           /\ IdOf(p) \in Purchases \X Nat
    <2> TAKE p \in Purchases
    <2>1. bank[p].version \in Nat BY <1>1 DEF SoundBank
    <2>2. <<p, bank[p].version>> \in Purchases \X Nat BY <2>1
    <2> QED BY <2>2, BankAssumption DEF IdOf
<1>6. \A p \in Purchases : IdOf(p)' = IdOf(p) BY <1>1 DEF IdOf
<1>7. fed \subseteq IdsGiven(bank)
    <2> SUFFICES ASSUME NEW p \in answer PROVE IdOf(p) \in IdsGiven(bank) BY <1>2
    <2>1. p \in Purchases /\ bank[p].state = "reported" BY <1>1, <1>4 DEF Reported
    <2>2. bank[p].version \in Nat BY <1>1, <2>1 DEF SoundBank
    <2>3. PICK id : id = IdOf(p) OBVIOUS
    <2>4. id \in Purchases \X Nat /\ id[1] = p /\ id[2] = bank[p].version
        BY <1>5, <2>1, <2>3
    <2>5. id[2] <= bank[id[1]].version /\ bank[id[1]].state # "unsaid" BY <2>1, <2>2, <2>4
    <2> QED BY <2>3, <2>4, <2>5 DEF IdsGiven
<1>8. SoundIds(rows', bank') BY <1>1, <1>3, <1>7, ServedIds
<1>9. \A p \in Purchases : IdOf(p) \in fed => p \in answer
    <2> SUFFICES ASSUME NEW p \in Purchases, NEW q \in answer, IdOf(p) = IdOf(q) PROVE p = q
        BY <1>2
    <2>1. q \in Purchases BY <1>1, <1>4
    <2>2. <<p, bank[p].version>> = <<q, bank[q].version>> BY <1>5, <2>1
    <2> QED BY <2>2
<1>10. \A X \in fed : X # None /\ \A p \in Purchases : X[1] = p => X = IdOf(p) /\ p \in answer
    <2> SUFFICES ASSUME NEW q \in answer
                 PROVE  IdOf(q) # None /\ \A p \in Purchases : IdOf(q)[1] = p => q = p
        BY <1>2
    <2>1. q \in Purchases BY <1>1, <1>4
    <2>2. IdOf(q)[1] = q BY <1>5, <2>1
    <2> QED BY <1>5, <2>1, <2>2
<1>11. Book!TypeOK' BY <1>1, BookTypesNext DEF SoundBank
\* A purchase the register shows after the run stood in it before, or was new.
<1>12. ASSUME NEW p \in Purchases, Bearers(p)' # {}
       PROVE  Bearers(p) # {} \/ (p \in answer /\ Holders(rows, IdOf(p)) = {})
    <2>1. PICK i \in Live(rows') : rows'[i].sync # None /\ rows'[i].sync[1] = p
        BY <1>12 DEF Bearers
    <2>2. CASE rows'[i].sync \in IdsOf(rows)
        <3>1. PICK k \in Live(rows) : rows[k].sync = rows'[i].sync BY <2>2 DEF IdsOf
        <3> QED BY <2>1, <3>1 DEF Bearers
    <2>3. CASE rows'[i].sync \in fed /\ Holders(rows, rows'[i].sync) = {}
        BY <1>10, <2>1, <2>3
    <2> QED BY <1>3, <2>1, <2>2, <2>3 DEF Served
<1>13. ASSUME NEW p \in Purchases, IdOf(p) \in IdsOf(rows') PROVE Bearers(p)' # {}
    <2>1. PICK i \in Live(rows') : rows'[i].sync = IdOf(p) BY <1>13 DEF IdsOf
    <2>2. rows'[i].sync # None /\ rows'[i].sync[1] = p BY <1>5, <2>1
    <2> QED BY <2>2 DEF Bearers
<1>14. ASSUME NEW j \in Dead(rows) PROVE j \in Dead(rows') /\ rows'[j].sync = rows[j].sync
                                         /\ rows'[j].gone = rows[j].gone
    BY <1>3 DEF Served
<1>15. ASSUME NEW p \in Purchases
       PROVE  /\ Shelf[p] = IF Bearers(p) # {} THEN "shown"
                            ELSE IF Holders(rows, IdOf(p)) # {} THEN "dismissed" ELSE "absent"
              /\ Shelf'[p] = IF Bearers(p)' # {} THEN "shown"
                             ELSE IF Holders(rows', IdOf(p)) # {} THEN "dismissed" ELSE "absent"
    BY <1>6 DEF Shelf
<1>16. \A p \in Purchases : p \in {q \in Purchases : Asks(q)} <=> Asks(p) OBVIOUS
<1>17. ASSUME NEW p \in Purchases
       PROVE  \/ Shelf[p] # "dismissed" /\ Shelf'[p] = "shown" /\ p \in Reported
              \/ Shelf[p] = Shelf'[p] /\ (Shelf[p] = "absent" => ~Asks(p))
              \/ Shelf[p] = "shown" /\ Shelf'[p] = "dismissed"
                   /\ p \in LeftBy("merged") \cup LeftBy("person")
              \/ Shelf[p] = "shown" /\ ~Asks(p)
    <2>1. CASE Bearers(p) = {} /\ Holders(rows, IdOf(p)) # {}
        <3>1. Bearers(p)' = {} BY <1>12, <2>1
        <3>2. PICK j \in Holders(rows, IdOf(p)) : TRUE BY <2>1
        <3>3. j \in Dead(rows)
            <4>1. rows[j].sync = IdOf(p) /\ j \in DOMAIN rows BY <3>2 DEF Holders
            <4>2. j \in Live(rows) => j \in Bearers(p) BY <1>5, <4>1 DEF Bearers
            <4> QED BY <2>1, <4>1, <4>2 DEF Dead
        <3>4. j \in Holders(rows', IdOf(p)) BY <1>14, <3>2, <3>3 DEF Holders, Dead
        <3> QED BY <1>15, <2>1, <3>1, <3>4
    <2>2. CASE Bearers(p) = {} /\ Holders(rows, IdOf(p)) = {} /\ p \in answer
        <3>1. IdOf(p) \in fed BY <1>2, <2>2
        <3>2. ~\E j \in Dead(rows) : rows[j].sync = IdOf(p) BY <2>2 DEF Dead, Holders
        <3>3. Bearers(p)' # {} BY <1>3, <1>13, <3>1, <3>2 DEF Served
        <3> QED BY <1>1, <1>15, <2>2, <3>3
    <2>3. CASE Bearers(p) = {} /\ Holders(rows, IdOf(p)) = {} /\ p \notin answer
        <3>1. Bearers(p)' = {} BY <1>12, <2>3
        <3>2. IdOf(p) \notin fed BY <1>9, <2>3
        <3>3. IdOf(p) \notin IdsOf(rows') BY <1>13, <3>1
        <3>4. ASSUME NEW j \in Holders(rows', IdOf(p)) PROVE FALSE
            <4>1. j \in DOMAIN rows' /\ rows'[j].sync = IdOf(p) BY <3>4 DEF Holders
            <4>2. j \in Dead(rows') BY <3>3, <4>1 DEF Dead, IdsOf
            <4>3. rows'[j].sync # None BY <1>5, <4>1
            <4>4. j \in Dead(rows) BY <1>3, <3>2, <4>1, <4>2, <4>3 DEF Served
            <4>5. j \in Holders(rows, IdOf(p)) BY <1>14, <4>1, <4>4 DEF Dead, Holders
            <4> QED BY <2>3, <4>5
        <3>5. Holders(rows', IdOf(p)) = {} BY <3>4
        <3> QED BY <1>15, <2>3, <3>1, <3>5
    <2>4. CASE Bearers(p) # {} /\ Asks(p)
        <3>1. IdOf(p) \in fed BY <1>2, <2>4
        <3>2. CASE Bearers(p)' # {} BY <1>15, <2>4, <3>2
        <3>3. CASE Bearers(p)' = {}
            <4>1. IdOf(p) \notin IdsOf(rows') BY <1>13, <3>3
            <4>2. PICK j \in Dead(rows) : rows[j].sync = IdOf(p) BY <1>3, <3>1, <4>1 DEF Served
            <4>3. j \in DOMAIN rows /\ rows[j].sync # None /\ ~rows[j].live
                BY <1>5, <4>2 DEF Dead, Live
            <4>4. rows[j].gone \in {"merged", "person"}
                <5>1. rows[j].gone \in {None, "merged", "person"} BY <4>3 DEF SoundIds
                <5>2. SoundRow(rows[j]) BY <1>1, <4>3 DEF SoundRows
                <5>3. rows[j].gone # None BY <4>3, <5>2 DEF SoundRow
                <5> QED BY <5>1, <5>3
            <4>5. j \in Holders(rows, IdOf(p)) BY <4>2, <4>3 DEF Holders
            <4>6. p \in LeftBy("merged") \cup LeftBy("person") BY <4>4, <4>5 DEF LeftBy
            <4>7. j \in Holders(rows', IdOf(p)) BY <1>14, <4>2 DEF Holders, Dead
            <4> QED BY <1>15, <2>4, <3>3, <4>6, <4>7
        <3> QED BY <3>2, <3>3
    <2>5. CASE Bearers(p) # {} /\ ~Asks(p) BY <1>15, <2>5
    <2> QED BY <2>1, <2>2, <2>3, <2>4, <2>5
<1>18. Renamed' \subseteq Renamed
    <2> SUFFICES ASSUME NEW p \in Purchases, NEW i \in Live(rows'), rows'[i].sync # None,
                        rows'[i].sync[1] = p, rows'[i].sync # IdOf(p)
                 PROVE  p \in Renamed
        BY <1>6 DEF Renamed, Bearers
    <2>1. rows'[i].sync \notin fed BY <1>10
    <2>2. rows'[i].sync \in IdsOf(rows) BY <1>3, <2>1 DEF Served
    <2>3. PICK k \in Live(rows) : rows[k].sync = rows'[i].sync BY <2>2 DEF IdsOf
    <2>4. k \in Bearers(p) /\ rows[k].sync # IdOf(p) BY <2>3 DEF Bearers
    <2> QED BY <2>4 DEF Renamed
<1>19. LeftBy("person")' = LeftBy("person")
    <2>1. ASSUME NEW p \in Purchases, NEW i \in Holders(rows, IdOf(p)), rows[i].gone = "person"
          PROVE  i \in Holders(rows', IdOf(p)) /\ rows'[i].gone = "person"
        <3>1. i \in DOMAIN rows /\ rows[i].sync = IdOf(p) /\ SoundRow(rows[i])
            BY <1>1 DEF Holders, SoundRows
        <3>2. rows[i].gone # None BY <2>1, BankAssumption DEF Fates
        <3>3. i \in Dead(rows) BY <3>1, <3>2 DEF Dead, Live, SoundRow
        <3> QED BY <1>14, <2>1, <3>1, <3>3 DEF Dead, Holders
    <2>2. ASSUME NEW p \in Purchases, NEW i \in Holders(rows', IdOf(p)), rows'[i].gone = "person"
          PROVE  i \in Holders(rows, IdOf(p)) /\ rows[i].gone = "person"
        <3>1. i \in DOMAIN rows' /\ rows'[i].sync = IdOf(p) /\ SoundRow(rows'[i])
            BY <1>1 DEF Holders, SoundRows
        <3>2. rows'[i].gone # None BY <2>2, BankAssumption DEF Fates
        <3>3. i \in Dead(rows') BY <3>1, <3>2 DEF Dead, Live, SoundRow
        <3>4. rows'[i].sync # None BY <1>5, <3>1
        <3>5. i \in Dead(rows) BY <1>3, <2>2, <3>3, <3>4 DEF Served
        <3> QED BY <1>14, <2>2, <3>1, <3>5 DEF Dead, Holders
    <2> QED BY <1>6, <2>1, <2>2 DEF LeftBy
<1>20. Reported' = Reported BY <1>1 DEF Reported
<1>21. Book!Sync BY <1>11, <1>17, <1>18, <1>19, <1>20 DEF Book!Sync
<1> QED BY <1>8, <1>21

(* Every window reaches back to what BookKept says the next run asks for.   *)
LEMMA LeastBelow ==
    ASSUME NEW T \in SUBSET Nat, NEW y \in T
    PROVE  Min(T) <= y /\ Min(T) \in Nat
<1>1. \E x \in T : \A z \in T : x <= z BY LeastNatural
<1> QED BY <1>1 DEF Min

LEMMA AsksAnswered ==
    ASSUME BankInv, NEW w, w = Window(link.stamp) \/ w = Window(None),
           NEW answer \in Answers(w), NEW p \in Purchases, Asks(p)
    PROVE  p \in answer
<1>1. /\ SoundRows(rows) /\ SoundBank(bank) /\ link.stamp \in Days \cup {None}
    BY DEF BankInv, TypeOK, StampsOf
<1>2. p \in Reported /\ bank[p].day >= JudgedFrom(Window(link.stamp)) BY DEF Asks
<1>3. bank[p].day \in Days /\ bank[p].day \in Nat
    BY <1>1, <1>2, BankAssumption DEF Reported, SoundBank
<1>4. Min(Days) <= bank[p].day /\ Min(Days) \in Nat BY <1>3, BankAssumption, LeastBelow
<1>5. CASE w = Window(None)
    <2>1. w.since = Min(Days) - 1 /\ w.whole = FALSE BY <1>5 DEF Window
    <2>2. bank[p].day > w.since BY <1>3, <1>4, <2>1
    <2> QED BY <1>2, <2>1, <2>2 DEF Answers
<1>6. CASE w = Window(link.stamp) /\ link.stamp # None
    <2>1. link.stamp \in Nat BY <1>1, <1>6, BankAssumption
    <2>2. PICK start : start = link.stamp - Overlap OBVIOUS
    <2>3. start \in Int BY <2>1, <2>2 DEF Overlap
    <2>4. CASE OpenHolds # {} /\ Min(OpenHolds) <= start
        <3>1. w.since = Min(OpenHolds) /\ w.whole = TRUE BY <1>6, <2>2, <2>4 DEF Window
        <3>2. OpenHolds \in SUBSET Nat
            <4> SUFFICES ASSUME NEW i \in Live(rows) PROVE rows[i].day \in Nat BY DEF OpenHolds
            <4>1. PICK row : row = rows[i] OBVIOUS
            <4>2. SoundRow(row) BY <1>1, <4>1 DEF SoundRows, Live
            <4>3. row.day \in Nat BY <4>2, BankAssumption DEF SoundRow
            <4> QED BY <4>1, <4>3
        <3>3. Min(OpenHolds) \in Nat BY <2>4, <3>2, LeastBelow
        <3>4. bank[p].day >= w.since BY <1>2, <1>6, <3>1 DEF JudgedFrom
        <3>5. bank[p].day > w.since \/ bank[p].day = w.since BY <1>3, <3>1, <3>3, <3>4
        <3> QED BY <1>2, <3>1, <3>5 DEF Answers
    <2>5. CASE ~(OpenHolds # {} /\ Min(OpenHolds) <= start)
        <3>1. w.since = start /\ w.whole = FALSE BY <1>6, <2>2, <2>5 DEF Window
        <3>2. bank[p].day >= start + 1 BY <1>2, <1>6, <3>1 DEF JudgedFrom
        <3>3. bank[p].day > w.since BY <1>3, <2>3, <3>1, <3>2
        <3> QED BY <1>2, <3>1, <3>3 DEF Answers
    <2> QED BY <2>4, <2>5
<1> QED BY <1>5, <1>6

BookStep == SoundIds(rows', bank') /\ Book!Next

LEMMA BookRuns ==
    ASSUME BankInv, BankInv', SoundIds(rows, bank), Sync \/ SyncRelinks \/ Refetch
    PROVE  BookStep
<1>1. PICK window, account : /\ Serve(window, account)
                             /\ window = Window(link.stamp) \/ window = Window(None)
    BY DEF Sync, SyncRelinks, Refetch
<1>2. PICK answer \in Answers(window) : ServedFrom(answer) BY <1>1, ServeBook
<1>3. \A p \in Purchases : Asks(p) => p \in answer BY <1>1, <1>2, AsksAnswered
<1> QED BY <1>2, <1>3, BookServe DEF BookStep, Book!Next

(* The bank, and what of the person's leaves the ids alone.                 *)
LEMMA AlikeSame == ASSUME rows' = rows PROVE Alike(rows, rows')
BY DEF Alike

LEMMA SameBankRenews == ASSUME SoundBank(bank), bank' = bank PROVE Renews(bank, bank')
BY DEF Renews

LEMMA SaysBook ==
    ASSUME BankInv, BankInv', SoundIds(rows, bank), NEW p \in Purchases, NEW record,
           Says(p, record), record.state # "unsaid",
           bank[p].state = "unsaid" \/ bank[p].version <= record.version
    PROVE  BookStep
<1>1. SoundBank(bank) /\ SoundBank(bank') BY DEF BankInv, TypeOK
<1>2. bank' = [bank EXCEPT ![p] = record] /\ rows' = rows BY DEF Says, Register
<1>3. DOMAIN bank = Purchases /\ bank'[p] = record /\ \A q \in Purchases \ {p} : bank'[q] = bank[q]
    BY <1>1, <1>2 DEF SoundBank
<1>4. bank[p].version \in Nat /\ record.version \in Nat BY <1>1, <1>3 DEF SoundBank
<1>5. IdsGiven(bank) \subseteq IdsGiven(bank')
    <2> SUFFICES ASSUME NEW id \in IdsGiven(bank) PROVE id \in IdsGiven(bank') OBVIOUS
    <2>1. /\ id \in Purchases \X Nat /\ bank[id[1]].state # "unsaid"
          /\ id[2] <= bank[id[1]].version
        BY DEF IdsGiven
    <2>2. CASE id[1] = p
        <3>1. id[2] <= record.version BY <1>4, <2>1, <2>2
        <3> QED BY <1>3, <2>1, <2>2, <3>1 DEF IdsGiven
    <2>3. CASE id[1] # p
        <3>1. bank'[id[1]] = bank[id[1]] BY <1>3, <2>1, <2>3
        <3> QED BY <2>1, <3>1 DEF IdsGiven
    <2> QED BY <2>2, <2>3
<1>6. bank'[p].version = bank[p].version \/ <<p, bank'[p].version>> \notin IdsGiven(bank)
    <2> SUFFICES ASSUME NEW id, id = <<p, record.version>>, id \in IdsGiven(bank)
                 PROVE  record.version = bank[p].version
        BY <1>3
    <2>1. bank[id[1]].state # "unsaid" /\ id[2] <= bank[id[1]].version BY DEF IdsGiven
    <2>2. id[1] = p /\ id[2] = record.version OBVIOUS
    <2> QED BY <1>4, <2>1, <2>2
<1>7. Renews(bank, bank') BY <1>1, <1>3, <1>5, <1>6 DEF Renews
<1>8. Alike(rows, rows') BY <1>2, AlikeSame
<1> QED BY <1>7, <1>8, BookBank DEF BookStep, Book!Next

LEMMA BookBankSteps ==
    ASSUME BankInv, BankInv', SoundIds(rows, bank), Announce \/ Post \/ Omit \/ Return
    PROVE  BookStep
<1>1. SoundBank(bank) /\ DOMAIN bank = Purchases BY DEF BankInv, TypeOK, SoundBank
<1>2. \A p \in Purchases : DOMAIN bank[p] = {"state", "version", "amount", "posted", "day"}
                           /\ bank[p].version \in Nat
    BY <1>1 DEF SoundBank, Unsaid
<1>3. CASE Announce
    <2>1. PICK p \in DOMAIN bank, posted \in BOOLEAN, day \in Recent :
             /\ bank[p].state = "unsaid"
             /\ Says(p, [state |-> "reported", version |-> 1, amount |-> purchases[p].amount,
                         posted |-> posted, day |-> day])
        BY <1>3 DEF Announce
    <2> QED BY <1>1, <2>1, SaysBook
<1>4. CASE Post
    <2>1. PICK p \in Reported, extra \in {0, Tip}, fresh \in {0, 1}, day \in Recent :
             Says(p, [bank[p] EXCEPT !.posted = TRUE, !.amount = @ + extra,
                                     !.version = @ + fresh, !.day = day])
        BY <1>4 DEF Post
    <2>2. PICK record : record = [bank[p] EXCEPT !.posted = TRUE, !.amount = @ + extra,
                                                 !.version = @ + fresh, !.day = day]
        OBVIOUS
    <2>3. p \in Purchases /\ bank[p].state = "reported" BY <1>1, <2>1 DEF Reported
    <2>4. record.version = bank[p].version + fresh /\ record.state = "reported"
        BY <1>2, <2>2, <2>3
    <2>5. bank[p].version <= record.version
        <3>1. PICK v \in Nat : v = bank[p].version BY <1>2, <2>3
        <3>2. v <= v + fresh BY <2>1
        <3> QED BY <2>4, <3>1, <3>2
    <2>6. record.state # "unsaid" BY <2>4
    <2> QED BY <2>1, <2>2, <2>3, <2>5, <2>6, SaysBook
<1>5. CASE Omit
    <2>1. PICK p \in Reported : Says(p, [bank[p] EXCEPT !.state = "omitted"])
        BY <1>5 DEF Omit
    <2>2. PICK record : record = [bank[p] EXCEPT !.state = "omitted"] OBVIOUS
    <2>3. p \in Purchases BY <1>1, <2>1 DEF Reported
    <2>4. record.version = bank[p].version /\ record.state = "omitted"
        BY <1>2, <2>2, <2>3
    <2>5. bank[p].version <= record.version /\ record.state # "unsaid" BY <1>2, <2>3, <2>4
    <2> QED BY <2>1, <2>2, <2>3, <2>5, SaysBook
<1>6. CASE Return
    <2>1. PICK p \in DOMAIN bank, posted \in BOOLEAN :
             Says(p, [bank[p] EXCEPT !.state = "reported", !.posted = posted])
        BY <1>6 DEF Return
    <2>2. PICK record : record = [bank[p] EXCEPT !.state = "reported", !.posted = posted]
        OBVIOUS
    <2>3. p \in Purchases BY <1>1, <2>1
    <2>4. record.version = bank[p].version /\ record.state = "reported"
        BY <1>2, <2>2, <2>3
    <2>5. bank[p].version <= record.version /\ record.state # "unsaid" BY <1>2, <2>3, <2>4
    <2> QED BY <2>1, <2>2, <2>3, <2>5, SaysBook
<1> QED BY <1>3, <1>4, <1>5, <1>6

LEMMA BookReissue ==
    ASSUME BankInv, BankInv', SoundIds(rows, bank), Reissue
    PROVE  BookStep
<1>1. SoundBank(bank) /\ SoundBank(bank') BY DEF BankInv, TypeOK
<1>2. rows' = rows /\ bank' = [p \in DOMAIN bank |-> [bank[p] EXCEPT !.version = @ + 1]]
    BY DEF Reissue, Register
<1>3. ASSUME NEW p \in Purchases
      PROVE  /\ bank[p].version \in Nat /\ bank'[p].version = bank[p].version + 1
             /\ bank'[p].state = bank[p].state
    <2>1. DOMAIN bank = Purchases /\ bank[p].version \in Nat /\ DOMAIN bank[p] = DOMAIN Unsaid
        BY <1>1 DEF SoundBank
    <2>2. PICK record : record = bank[p] OBVIOUS
    <2>3. DOMAIN record = {"state", "version", "amount", "posted", "day"}
        BY <2>1, <2>2 DEF Unsaid
    <2>4. bank'[p] = [record EXCEPT !.version = @ + 1] BY <1>2, <2>1, <2>2
    <2> QED BY <2>1, <2>2, <2>3, <2>4
<1>4. IdsGiven(bank) \subseteq IdsGiven(bank')
    <2> SUFFICES ASSUME NEW id \in IdsGiven(bank) PROVE id \in IdsGiven(bank') OBVIOUS
    <2>1. /\ id \in Purchases \X Nat /\ bank[id[1]].state # "unsaid"
          /\ id[2] <= bank[id[1]].version
        BY DEF IdsGiven
    <2>2. PICK p, v : p = id[1] /\ v = bank[p].version OBVIOUS
    <2>3. p \in Purchases /\ id[2] \in Nat BY <2>1, <2>2
    <2>4. v \in Nat /\ bank'[p].version = v + 1 /\ bank'[p].state = bank[p].state
        BY <1>3, <2>2, <2>3
    <2>5. id[2] <= v + 1 BY <2>1, <2>2, <2>3, <2>4
    <2> QED BY <2>1, <2>2, <2>4, <2>5 DEF IdsGiven
<1>5. ASSUME NEW p \in Purchases PROVE <<p, bank'[p].version>> \notin IdsGiven(bank)
    <2> SUFFICES ASSUME NEW id, id = <<p, bank'[p].version>>, id \in IdsGiven(bank) PROVE FALSE
        OBVIOUS
    <2>1. id[2] <= bank[id[1]].version /\ id[1] = p /\ id[2] = bank'[p].version BY DEF IdsGiven
    <2>2. PICK v : v = bank[p].version OBVIOUS
    <2>3. v \in Nat /\ bank'[p].version = v + 1 BY <1>3, <2>2
    <2>4. v + 1 <= v BY <2>1, <2>2, <2>3
    <2> QED BY <2>3, <2>4
<1>6. Renews(bank, bank') BY <1>1, <1>4, <1>5 DEF Renews
<1>7. Alike(rows, rows') BY <1>2, AlikeSame
<1> QED BY <1>6, <1>7, BookBank DEF BookStep, Book!Next

LEMMA BookPlain ==
    ASSUME BankInv, SoundIds(rows, bank), bank' = bank, Alike(rows, rows')
    PROVE  BookStep
<1>1. Renews(bank, bank') BY SameBankRenews DEF BankInv, TypeOK
<1> QED BY <1>1, BookBank DEF BookStep, Book!Next

LEMMA BookQuiet ==
    ASSUME BankInv, SoundIds(rows, bank), Tick \/ Relink \/ RejectMatch \/ Scan
    PROVE  BookStep
<1>1. CASE Tick BY <1>1, AlikeSame, BookPlain DEF Tick, Register
<1>2. CASE Relink BY <1>2, AlikeSame, BookPlain DEF Relink, BankKeeps
<1>3. CASE RejectMatch
    <2>1. rows' = rows /\ bank' = bank BY <1>3 DEF RejectMatch, Writes, Keep, BankKeeps
    <2> QED BY <2>1, AlikeSame, BookPlain
<1>4. CASE Scan
    <2>1. Writes(rows) BY <1>4 DEF Scan
    <2>2. rows' = rows /\ bank' = bank BY <2>1 DEF Writes, Keep, BankKeeps
    <2> QED BY <2>2, AlikeSame, BookPlain
<1> QED BY <1>1, <1>2, <1>3, <1>4

LEMMA BookEnter ==
    ASSUME BankInv, SoundIds(rows, bank), Enter
    PROVE  BookStep
<1>1. PICK row : Writes(Append(rows, row)) /\ row.sync = None
    <2>1. PICK p \in DOMAIN purchases :
             \E payee \in {purchases[p].payee, OwnName} :
                Writes(Append(rows, [Row(purchases[p].amount, today, "uncleared", payee)
                                      EXCEPT !.of = p]))
        BY DEF Enter
    <2>2. PICK payee \in {purchases[p].payee, OwnName} :
             Writes(Append(rows, [Row(purchases[p].amount, today, "uncleared", payee)
                                   EXCEPT !.of = p]))
        BY <2>1
    <2>3. PICK row : row = [Row(purchases[p].amount, today, "uncleared", payee) EXCEPT !.of = p]
        OBVIOUS
    <2>4. row.sync = None
        <3>1. PICK a, day : a = purchases[p].amount /\ day = today OBVIOUS
        <3>2. row = [Row(a, day, "uncleared", payee) EXCEPT !.of = p] BY <2>3, <3>1
        <3> QED BY <3>2 DEF Row
    <2> QED BY <2>2, <2>3, <2>4
<1>2. PICK R, n, Q : R = rows /\ n = Len(rows) + 1 /\ Q = rows' OBVIOUS
<1>3. bank' = bank /\ Q = Append(R, row) BY <1>1, <1>2 DEF Writes, Keep, BankKeeps
<1>4. R \in Seq(Range(R)) BY <1>2 DEF BankInv, TypeOK, SoundRows
<1>5. DOMAIN Q = DOMAIN R \cup {n} /\ Q[n] = row /\ \A i \in DOMAIN R : Q[i] = R[i]
    BY <1>2, <1>3, <1>4, OneLonger
<1>6. Alike(R, Q) BY <1>1, <1>5 DEF Alike
<1> QED BY <1>2, <1>3, <1>6, BookPlain

LEMMA BookMark ==
    ASSUME BankInv, SoundIds(rows, bank), TickOff \/ Reconcile \/ Restore
    PROVE  BookStep
<1>0. \A i \in DOMAIN rows : SoundRow(rows[i]) BY RowsOf
<1>1. CASE TickOff
    <2>1. PICK i \in Live(rows) : Writes([rows EXCEPT ![i].cleared = "cleared"])
        BY <1>1 DEF TickOff
    <2>2. PICK row, q, how : /\ row = rows[i] /\ how = "cleared"
                             /\ q = [row EXCEPT !.cleared = how]
        OBVIOUS
    <2>3. i \in DOMAIN rows /\ SoundRow(row) BY <1>0, <2>2 DEF Live
    <2>4. q.sync = row.sync /\ q.gone = row.gone /\ (q.live <=> row.live)
        <3>1. how \in {"cleared", "reconciled"} BY <2>2
        <3>2. q = [row EXCEPT !.cleared = how] BY <2>2
        <3> QED BY <2>3, <3>1, <3>2, TickedSound
    <2>5. rows' = [rows EXCEPT ![i] = q] /\ bank' = bank
        BY <2>1, <2>2 DEF Writes, Keep, BankKeeps
    <2>6. Alike(rows, rows') BY <2>2, <2>3, <2>4, <2>5 DEF Alike
    <2> QED BY <2>5, <2>6, BookPlain
<1>2. CASE Reconcile
    <2>1. /\ rows' = [i \in DOMAIN rows |-> IF rows[i].live /\ rows[i].cleared = "cleared"
                                            THEN [rows[i] EXCEPT !.cleared = "reconciled"]
                                            ELSE rows[i]]
          /\ bank' = bank
        BY <1>2 DEF Reconcile, Writes, Keep, BankKeeps
    <2>2. ASSUME NEW i \in DOMAIN rows
          PROVE  /\ rows'[i].sync = rows[i].sync /\ rows'[i].gone = rows[i].gone
                 /\ (rows'[i].live <=> rows[i].live)
        <3>1. PICK row, q, how : row = rows[i] /\ q = rows'[i] /\ how = "reconciled" OBVIOUS
        <3>2. SoundRow(row) BY <1>0, <3>1
        <3>3. CASE q = [row EXCEPT !.cleared = how]
            <4>1. how \in {"cleared", "reconciled"} BY <3>1
            <4>2. q.sync = row.sync /\ q.gone = row.gone /\ (q.live <=> row.live)
                BY <3>2, <3>3, <4>1, TickedSound
            <4> QED BY <3>1, <4>2
        <3>4. q = row \/ q = [row EXCEPT !.cleared = how] BY <2>1, <3>1
        <3> QED BY <3>1, <3>3, <3>4
    <2>3. DOMAIN rows' = DOMAIN rows BY <2>1
    <2>4. Alike(rows, rows') BY <2>2, <2>3 DEF Alike
    <2> QED BY <2>1, <2>4, BookPlain
<1>3. CASE Restore
    <2>1. PICK i \in DOMAIN rows :
             /\ OpenRemoval(i)
             /\ Writes([rows EXCEPT ![i].live = TRUE, ![i].cleared = "uncleared",
                             ![i].mine = TRUE, ![i].gone = None])
        BY <1>3 DEF Restore
    <2>2. PICK row, q : /\ row = rows[i]
                        /\ q = [row EXCEPT !.live = TRUE, !.cleared = "uncleared",
                                           !.mine = TRUE, !.gone = None]
        OBVIOUS
    <2>3. SoundRow(row) /\ row.gone = "dropped" BY <1>0, <2>1, <2>2 DEF OpenRemoval
    <2>4. q.sync = None BY <2>2, <2>3, RestoredSound
    <2>5. row.sync = None BY <2>3 DEF SoundRow
    <2>6. rows' = [rows EXCEPT ![i] = q]
        <3>1. rows' = [rows EXCEPT ![i].live = TRUE, ![i].cleared = "uncleared",
                                   ![i].mine = TRUE, ![i].gone = None]
            BY <2>1 DEF Writes
        <3>2. DOMAIN row = RowFields BY <2>3, FieldsOfRow
        <3> QED BY <2>2, <3>1, <3>2 DEF RowFields
    <2>7. bank' = bank BY <2>1 DEF Writes, Keep, BankKeeps
    <2>8. Alike(rows, rows') BY <2>2, <2>4, <2>5, <2>6 DEF Alike
    <2> QED BY <2>7, <2>8, BookPlain
<1> QED BY <1>1, <1>2, <1>3

(* A bank id names the purchase it was given for.                           *)
LEMMA IdNames ==
    ASSUME SoundIds(rows, bank), SoundBank(bank), NEW i \in DOMAIN rows, rows[i].sync # None
    PROVE  /\ rows[i].sync[1] \in Purchases
           /\ \A q \in Purchases : rows[i].sync = IdOf(q) => q = rows[i].sync[1]
<1>1. PICK id : id = rows[i].sync OBVIOUS
<1>2. id \in Purchases \X Nat BY <1>1 DEF SoundIds, IdsGiven
<1>3. \A q \in Purchases : id = IdOf(q) => q = id[1]
    <2> SUFFICES ASSUME NEW q \in Purchases, NEW v, id = <<q, v>> PROVE q = id[1] BY DEF IdOf
    <2> QED OBVIOUS
<1> QED BY <1>1, <1>2, <1>3

(* A person removes a row: its purchase goes with it, unless another row is *)
(* left; the id it had is one a person removed.                             *)
LEMMA BookDelete ==
    ASSUME BankInv, BankInv', SoundIds(rows, bank), Delete
    PROVE  BookStep
<1>1. PICK i \in Live(rows) : Writes([rows EXCEPT ![i] = Gone(@, "person")])
    BY DEF Delete
<1>2. rows' = [rows EXCEPT ![i] = Gone(@, "person")] /\ bank' = bank
    BY <1>1 DEF Writes, Keep, BankKeeps
<1>3. SoundRows(rows) /\ SoundBank(bank) /\ DOMAIN bank = Purchases
    BY DEF BankInv, TypeOK, SoundBank
<1>4. /\ i \in DOMAIN rows /\ rows[i].live /\ rows[i].gone = None /\ DOMAIN rows[i] = RowFields
    <2>1. i \in DOMAIN rows /\ rows[i].live BY DEF Live
    <2>2. SoundRow(rows[i]) BY <1>3, <2>1 DEF SoundRows
    <2> QED BY <2>1, <2>2, FieldsOfRow DEF SoundRow
<1>5. PICK how : how = "person" OBVIOUS
<1>6. /\ DOMAIN rows' = DOMAIN rows /\ \A j \in DOMAIN rows \ {i} : rows'[j] = rows[j]
      /\ rows'[i].sync = rows[i].sync /\ ~rows'[i].live /\ rows'[i].gone = how
    <2>1. PICK row, q : row = rows[i] /\ q = Gone(row, how) OBVIOUS
    <2>2. q.sync = row.sync /\ ~q.live /\ q.gone = how
        BY <1>4, <2>1 DEF Gone, RowFields
    <2> QED BY <1>2, <1>4, <1>5, <2>1, <2>2
<1>7. CASE rows[i].sync = None
    <2>1. Alike(rows, rows') BY <1>6, <1>7 DEF Alike
    <2> QED BY <1>2, <2>1, BookPlain
<1>8. CASE rows[i].sync # None
    <2>1. PICK id, p : id = rows[i].sync /\ p = id[1] OBVIOUS
    <2>2. p \in Purchases /\ \A q \in Purchases : id = IdOf(q) => q = p
        BY <1>3, <1>4, <1>8, <2>1, IdNames
    <2>3. SoundIds(rows', bank')
        <3>1. \A j \in DOMAIN rows' : rows'[j].sync # None =>
                 /\ rows'[j].sync \in IdsGiven(bank)
                 /\ rows'[j].gone \in {None, "merged", "person"}
            BY <1>4, <1>5, <1>6 DEF SoundIds
        <3>2. \A j \in Live(rows') : j \in Live(rows) /\ j # i /\ rows'[j] = rows[j]
            BY <1>6 DEF Live
        <3>3. ASSUME NEW j \in Live(rows'), NEW k \in DOMAIN rows', rows'[j].sync # None,
                     rows'[j].sync = rows'[k].sync
              PROVE  j = k \/ rows'[k].gone = "merged"
            <4>1. j \in Live(rows) /\ j # i /\ rows[j].sync # None /\ rows[j].sync = rows[k].sync
                BY <1>6, <3>2, <3>3
            <4>2. k # i BY <1>3, <4>1 DEF SoundRows
            <4> QED BY <1>6, <3>3, <4>1, <4>2 DEF SoundIds
        <3>4. bank' = bank BY <1>2
        <3>5. \A j \in Live(rows'), k \in DOMAIN rows' :
                 rows'[j].sync # None /\ rows'[j].sync = rows'[k].sync
                 => j = k \/ rows'[k].gone = "merged"
            BY <3>3
        <3> QED BY ONLY <3>1, <3>4, <3>5 DEF SoundIds
    <2>4. \A q \in Purchases : IdOf(q)' = IdOf(q) BY <1>2 DEF IdOf
    <2>5. \A X : Holders(rows', X) = Holders(rows, X) BY <1>6 DEF Holders
    <2>6. \A q \in Purchases : Bearers(q)' = Bearers(q) \ {i} BY <1>6 DEF Bearers, Live
    <2>7. i \in Bearers(p) /\ \A q \in Purchases \ {p} : i \notin Bearers(q)
        BY <1>4, <1>8, <2>1 DEF Bearers, Live
    <2>8. \A q \in Purchases : \A j \in Bearers(q) : j \in DOMAIN rows BY DEF Bearers, Live
    <2>9. Reported' = Reported BY <1>2 DEF Reported
    <2>10. LeftBy("merged")' = LeftBy("merged")
        <3>1. PICK other : other = "merged" OBVIOUS
        <3>2. other # how /\ other # None BY <1>5, <3>1, BankAssumption DEF Fates
        <3>3. \A q \in Purchases :
                 (\E j \in Holders(rows', IdOf(q)') : rows'[j].gone = other)
                    <=> (\E j \in Holders(rows, IdOf(q)) : rows[j].gone = other)
            BY <1>4, <1>6, <2>4, <2>5, <3>2 DEF Holders
        <3> QED BY <3>1, <3>3 DEF LeftBy
    <2>11. \/ LeftBy("person")' = LeftBy("person")
           \/ id = IdOf(p) /\ LeftBy("person")' = LeftBy("person") \cup {p}
        <3>1. how # None BY <1>5, BankAssumption DEF Fates
        <3>2. ASSUME NEW q \in Purchases
              PROVE  (\E j \in Holders(rows', IdOf(q)') : rows'[j].gone = how)
                        <=> id = IdOf(q) \/ \E j \in Holders(rows, IdOf(q)) : rows[j].gone = how
            BY <1>4, <1>6, <2>1, <2>4, <2>5, <3>1 DEF Holders
        <3>3. LeftBy("person")' = LeftBy("person") \cup {q \in Purchases : id = IdOf(q)}
            BY <1>5, <3>2 DEF LeftBy
        <3> QED BY <2>2, <3>3
    <2>12. \A q \in Purchases \ {p} : q \in Renamed' <=> q \in Renamed
        <3> SUFFICES ASSUME NEW q \in Purchases \ {p} PROVE q \in Renamed' <=> q \in Renamed
            OBVIOUS
        <3>1. Bearers(q)' = Bearers(q) /\ i \notin Bearers(q) BY <2>6, <2>7
        <3>2. \A j \in Bearers(q) : rows'[j] = rows[j] BY <1>6, <2>8, <3>1
        <3> QED BY <2>4, <3>1, <3>2 DEF Renamed
    <2>13. p \in Renamed' => p \in Renamed
        <3>1. \A j \in Bearers(p)' : j \in Bearers(p) /\ rows'[j] = rows[j] BY <1>6, <2>2, <2>6, <2>8
        <3> QED BY <2>4, <3>1 DEF Renamed
    <2>14. Renamed \subseteq Purchases /\ Renamed' \subseteq Purchases BY DEF Renamed
    <2>15. ASSUME NEW q \in Purchases
           PROVE  Shelf'[q] = IF Bearers(q) \ {i} # {} THEN "shown"
                              ELSE IF Holders(rows, IdOf(q)) # {} THEN "dismissed" ELSE "absent"
        BY <2>4, <2>5, <2>6 DEF Shelf
    <2>16. \A q \in Purchases \ {p} : Shelf'[q] = Shelf[q] BY <2>7, <2>15 DEF Shelf
    <2>17. PICK fate : fate = Shelf'[p] OBVIOUS
    <2>18. fate = IF Bearers(p) \ {i} # {} THEN "shown"
                  ELSE IF Holders(rows, IdOf(p)) # {} THEN "dismissed" ELSE "absent"
        BY <2>2, <2>15, <2>17
    <2>19. Shelf[p] = "shown" BY <2>2, <2>7 DEF Shelf
    <2>20. Shelf' = [Shelf EXCEPT ![p] = fate]
        <3>1. DOMAIN Shelf' = Purchases /\ DOMAIN Shelf = Purchases
              /\ Shelf' = [q \in Purchases |-> Shelf'[q]] /\ Shelf = [q \in Purchases |-> Shelf[q]]
            BY DEF Shelf
        <3> QED BY <2>16, <2>17, <3>1
    <2>21. fate # "dismissed" => p \in Renamed
        <3>1. CASE Bearers(p) \ {i} # {}
            <4>1. PICK k \in Bearers(p) : k # i BY <3>1
            <4>2. i \in Live(rows) /\ k \in Live(rows) /\ rows[k].sync # None
                BY <2>7, <4>1 DEF Bearers
            <4>3. rows[k].sync # rows[i].sync BY <1>3, <4>1, <4>2 DEF SoundRows
            <4> QED BY <2>2, <2>7, <4>1, <4>3 DEF Renamed
        <3>2. CASE Holders(rows, IdOf(p)) = {}
            <4>1. rows[i].sync # IdOf(p) BY <1>4, <3>2 DEF Holders
            <4> QED BY <2>2, <2>7, <4>1 DEF Renamed
        <3> QED BY <2>18, <3>1, <3>2
    <2>22. fate # "shown" => p \notin Renamed'
        <3>1. fate # "shown" => Bearers(p)' = {} BY <2>2, <2>6, <2>18
        <3> QED BY <3>1 DEF Renamed
    <2>23. Renamed' = Renamed \ {p} \/ (fate = "shown" /\ Renamed' = Renamed)
        BY <2>12, <2>13, <2>14, <2>22
    <2>24. id = IdOf(p) => fate # "absent"
        <3>1. id = IdOf(p) => i \in Holders(rows, IdOf(p)) BY <1>4, <2>1 DEF Holders
        <3> QED BY <2>18, <3>1
    <2>25. fate \in {"absent", "dismissed", "shown"} BY <2>18
    <2>26. Book!TypeOK' BY <1>2, <1>3, BookTypesNext
    <2>27. Book!Dismiss
        BY <2>2, <2>9, <2>10, <2>11, <2>19, <2>20, <2>21, <2>23, <2>24, <2>25, <2>26
        DEF Book!Dismiss
    <2> QED BY <2>3, <2>27 DEF BookStep, Book!Next
<1> QED BY <1>7, <1>8

(* A merge hands the bank id of the lost row to the survivor.               *)
LEMMA BookMerge ==
    ASSUME BankInv, BankInv', SoundIds(rows, bank), bank' = bank,
           NEW i, NEW j, MergeIds(rows, rows', i, j)
    PROVE  BookStep
<1>1. PICK kept, lost \in Live(rows) :
         /\ kept # lost /\ DOMAIN rows' = DOMAIN rows
         /\ rows'[kept].live /\ ~rows'[lost].live /\ rows'[lost].gone = "merged"
         /\ rows'[lost].sync = rows[lost].sync
         /\ rows'[kept].sync = IF rows[lost].sync # None THEN rows[lost].sync ELSE rows[kept].sync
         /\ rows[kept].sync = None \/ rows[lost].sync = None
         /\ \A k \in DOMAIN rows \ {kept, lost} : Like(rows'[k], rows[k])
    BY DEF MergeIds
<1>2. SoundRows(rows) /\ SoundRows(rows') /\ SoundBank(bank) /\ DOMAIN bank = Purchases
    BY DEF BankInv, TypeOK, SoundBank
<1>3. /\ kept \in DOMAIN rows /\ lost \in DOMAIN rows /\ rows[kept].live /\ rows[lost].live
      /\ rows[kept].gone = None /\ rows[lost].gone = None /\ rows'[kept].gone = None
    <2>1. kept \in DOMAIN rows /\ lost \in DOMAIN rows /\ rows[kept].live /\ rows[lost].live
        BY DEF Live
    <2>2. SoundRow(rows[kept]) /\ SoundRow(rows[lost]) /\ SoundRow(rows'[kept])
        BY <1>1, <1>2, <2>1 DEF SoundRows
    <2> QED BY <1>1, <2>1, <2>2 DEF SoundRow
<1>4. \A k \in DOMAIN rows \ {kept, lost} :
         /\ rows'[k].sync = rows[k].sync /\ rows'[k].gone = rows[k].gone
         /\ (rows'[k].live <=> rows[k].live)
    BY <1>1 DEF Like
<1>5. CASE rows[lost].sync = None
    <2>1. /\ rows'[lost].sync = None /\ rows'[kept].sync = rows[kept].sync
          /\ rows'[kept].gone = rows[kept].gone /\ (rows'[kept].live <=> rows[kept].live)
        BY <1>1, <1>3, <1>5
    <2>2. Alike(rows, rows')
        <3>1. ASSUME NEW k \in DOMAIN rows, rows'[k].sync # None
              PROVE  /\ rows'[k].sync = rows[k].sync /\ rows'[k].gone = rows[k].gone
                     /\ (rows'[k].live <=> rows[k].live)
            BY <1>4, <2>1, <3>1
        <3>2. ASSUME NEW k \in DOMAIN rows, rows[k].sync # None
              PROVE  rows'[k].sync = rows[k].sync
            BY <1>4, <1>5, <2>1, <3>2
        <3> QED BY <1>1, <3>1, <3>2 DEF Alike
    <2> QED BY <2>2, BookPlain
<1>6. CASE rows[lost].sync # None
    <2>1. PICK id, p : id = rows[lost].sync /\ p = id[1] OBVIOUS
    <2>2. p \in Purchases /\ \A q \in Purchases : id = IdOf(q) => q = p
        BY <1>2, <1>3, <1>6, <2>1, IdNames
    <2>3. /\ id # None /\ rows[kept].sync = None /\ rows'[kept].sync = id
          /\ rows'[lost].sync = id
        BY <1>1, <1>6, <2>1
    <2>4. SoundIds(rows', bank')
        <3>1. ASSUME NEW k \in DOMAIN rows', rows'[k].sync # None
              PROVE  /\ rows'[k].sync \in IdsGiven(bank)
                     /\ rows'[k].gone \in {None, "merged", "person"}
            <4>1. id \in IdsGiven(bank) BY <1>3, <1>6, <2>1 DEF SoundIds
            <4>2. CASE k = kept BY <1>3, <2>3, <4>1, <4>2
            <4>3. CASE k = lost BY <1>1, <2>3, <4>1, <4>3
            <4>4. CASE k \in DOMAIN rows \ {kept, lost}
                BY <1>4, <3>1, <4>4 DEF SoundIds
            <4> QED BY <1>1, <4>2, <4>3, <4>4
        <3>2. ASSUME NEW k \in Live(rows'), NEW n \in DOMAIN rows', rows'[k].sync # None,
                     rows'[k].sync = rows'[n].sync
              PROVE  k = n \/ rows'[n].gone = "merged"
            <4>1. PICK m \in Live(rows) : rows[m].sync = rows'[k].sync /\ (m = k \/ m = lost)
                <5>1. k \in DOMAIN rows /\ rows'[k].live /\ k # lost BY <1>1 DEF Live
                <5>2. CASE k = kept BY <2>1, <2>3, <5>2
                <5>3. CASE k # kept
                    <6>1. rows[k].live /\ rows[k].sync = rows'[k].sync BY <1>4, <5>1, <5>3
                    <6> QED BY <5>1, <6>1 DEF Live
                <5> QED BY <5>2, <5>3
            <4>2. CASE n = kept
                <5>1. n \in Live(rows') BY <1>1, <4>2 DEF Live
                <5> QED BY <1>2, <3>2, <5>1 DEF SoundRows
            <4>3. CASE n = lost BY <1>1, <4>3
            <4>4. CASE n \notin {kept, lost}
                <5>1. n \in DOMAIN rows /\ rows'[n].sync = rows[n].sync
                      /\ rows'[n].gone = rows[n].gone
                    BY <1>1, <1>4, <4>4
                <5>2. rows[m].sync # None /\ rows[m].sync = rows[n].sync BY <3>2, <4>1, <5>1
                <5>3. m = n \/ rows[n].gone = "merged" BY <4>1, <5>1, <5>2 DEF SoundIds
                <5> QED BY <4>1, <4>4, <5>1, <5>3
            <4> QED BY <4>2, <4>3, <4>4
        <3> QED BY <3>1, <3>2 DEF SoundIds
    <2>5. \A q \in Purchases : IdOf(q)' = IdOf(q) BY DEF IdOf
    <2>6. Reported' = Reported BY DEF Reported
    <2>7. \A q \in Purchases : IdOf(q) # None
        <3> TAKE q \in Purchases
        <3>1. <<q, bank[q].version>> \in Purchases \X Nat BY <1>2 DEF SoundBank
        <3> QED BY <3>1, BankAssumption DEF IdOf
    <2>8. \A q \in Purchases : Bearers(q)' = IF q = p THEN (Bearers(q) \ {lost}) \cup {kept}
                                             ELSE Bearers(q)
        <3> SUFFICES ASSUME NEW q \in Purchases
                     PROVE  \A k : k \in Bearers(q)' <=>
                               k \in IF q = p THEN (Bearers(q) \ {lost}) \cup {kept}
                                     ELSE Bearers(q)
            OBVIOUS
        <3> TAKE k
        <3>1. k \in Bearers(q)' <=> k \in DOMAIN rows /\ rows'[k].live /\ rows'[k].sync # None
                                    /\ rows'[k].sync[1] = q
            BY <1>1 DEF Bearers, Live
        <3>2. k \in Bearers(q) <=> k \in DOMAIN rows /\ rows[k].live /\ rows[k].sync # None
                                   /\ rows[k].sync[1] = q
            BY DEF Bearers, Live
        <3>3. CASE k = kept BY <1>1, <1>3, <2>1, <2>3, <3>1, <3>2, <3>3
        <3>4. CASE k = lost BY <1>1, <1>3, <2>1, <2>3, <3>1, <3>2, <3>4
        <3>5. CASE k \in DOMAIN rows \ {kept, lost} BY <1>4, <3>1, <3>2, <3>5
        <3> QED BY <1>3, <3>1, <3>2, <3>3, <3>4, <3>5
    <2>9. ASSUME NEW X, X # None
          PROVE  Holders(rows', X) = IF X = id THEN Holders(rows, X) \cup {kept}
                                     ELSE Holders(rows, X)
        <3>1. \A k \in DOMAIN rows \ {kept} : rows'[k].sync = rows[k].sync
            BY <1>1, <1>4
        <3> QED BY <1>1, <1>3, <2>3, <2>9, <3>1 DEF Holders
    <2>10. lost \in Bearers(p) /\ lost \in Holders(rows, id) BY <1>3, <1>6, <2>1 DEF Bearers, Holders
    <2>11. LeftBy("person")' = LeftBy("person")
        <3>1. PICK how : how = "person" OBVIOUS
        <3>2. how # "merged" /\ how # None BY <3>1, BankAssumption DEF Fates
        <3>3. \A k \in DOMAIN rows : rows'[k].gone = how <=> rows[k].gone = how
            BY <1>1, <1>3, <1>4, <3>2
        <3>4. rows'[kept].gone # how BY <1>3, <3>2
        <3>5. ASSUME NEW q \in Purchases
              PROVE  (\E k \in Holders(rows', IdOf(q)') : rows'[k].gone = how)
                        <=> \E k \in Holders(rows, IdOf(q)) : rows[k].gone = how
            <4>1. Holders(rows', IdOf(q)') \ {kept} = Holders(rows, IdOf(q)) \ {kept}
                BY <2>5, <2>7, <2>9
            <4>2. \A k \in Holders(rows, IdOf(q)) : k \in DOMAIN rows BY DEF Holders
            <4>3. kept \in DOMAIN rows BY <1>3
            <4> QED BY <3>3, <3>4, <4>1, <4>2, <4>3
        <3> QED BY <3>1, <3>5 DEF LeftBy
    <2>12. LeftBy("merged")' = LeftBy("merged") \cup {q \in Purchases : id = IdOf(q)}
        <3>1. PICK how : how = "merged" OBVIOUS
        <3>2. how # None BY <3>1, BankAssumption DEF Fates
        <3>3. \A k \in DOMAIN rows \ {lost} : rows'[k].gone = how <=> rows[k].gone = how
            BY <1>1, <1>3, <1>4, <3>2
        <3>4. rows'[kept].gone # how /\ rows'[lost].gone = how /\ rows[lost].gone # how
            BY <1>1, <1>3, <3>1, <3>2
        <3>5. ASSUME NEW q \in Purchases
              PROVE  (\E k \in Holders(rows', IdOf(q)') : rows'[k].gone = how)
                        <=> id = IdOf(q) \/ \E k \in Holders(rows, IdOf(q)) : rows[k].gone = how
            <4>1. Holders(rows', IdOf(q)') \ {kept} = Holders(rows, IdOf(q)) \ {kept}
                BY <2>5, <2>7, <2>9
            <4>2. \A k \in Holders(rows, IdOf(q)) : k \in DOMAIN rows BY DEF Holders
            <4>3. lost \in Holders(rows, IdOf(q)) <=> id = IdOf(q) BY <1>3, <2>1 DEF Holders
            <4> QED BY <1>1, <1>3, <3>3, <3>4, <4>1, <4>2, <4>3
        <3> QED BY <3>1, <3>5 DEF LeftBy
    <2>13. \A q \in Purchases : q \in Renamed' <=> q \in Renamed
        <3> SUFFICES ASSUME NEW q \in Purchases PROVE q \in Renamed' <=> q \in Renamed
            OBVIOUS
        <3>1. \A k \in Bearers(q) : k \in DOMAIN rows /\ k # kept BY <2>3 DEF Bearers, Live
        <3>2. \A k \in Bearers(q) \ {lost} : rows'[k].sync = rows[k].sync BY <1>4, <3>1
        <3>3. CASE q = p
            <4>1. Bearers(q)' = (Bearers(q) \ {lost}) \cup {kept} BY <2>8, <3>3
            <4>2. rows'[kept].sync = rows[lost].sync BY <2>1, <2>3
            <4>3. (\E k \in Bearers(q)' : rows'[k].sync # IdOf(q)')
                     <=> \E k \in Bearers(q) : rows[k].sync # IdOf(q)
                BY <2>5, <2>10, <3>2, <3>3, <4>1, <4>2
            <4> QED BY <4>3 DEF Renamed
        <3>4. CASE q # p
            <4>1. Bearers(q)' = Bearers(q) BY <2>8, <3>4
            <4>2. lost \notin Bearers(q) BY <2>1, <3>4 DEF Bearers
            <4> QED BY <2>5, <3>2, <4>1, <4>2 DEF Renamed
        <3> QED BY <3>3, <3>4
    <2>14. Renamed' = Renamed
        <3>1. Renamed \subseteq Purchases /\ Renamed' \subseteq Purchases BY DEF Renamed
        <3> QED BY <2>13, <3>1
    <2>15. \A q \in Purchases : Bearers(q)' = {} <=> Bearers(q) = {} BY <2>8, <2>10
    <2>16. \A q \in Purchases : Holders(rows', IdOf(q)') = {} <=> Holders(rows, IdOf(q)) = {}
        <3> TAKE q \in Purchases
        <3>1. IdOf(q)' = IdOf(q) /\ IdOf(q) # None BY <2>5, <2>7
        <3> QED BY <2>9, <2>10, <3>1
    <2>17. Shelf' = Shelf BY <2>15, <2>16 DEF Shelf
    <2>18. Shelf[p] = "shown" BY <2>2, <2>10 DEF Shelf
    <2>19. Book!TypeOK' BY <1>2, BookTypesNext
    <2>20. CASE id = IdOf(p)
        <3>1. LeftBy("merged")' = LeftBy("merged") \cup {p} BY <2>2, <2>12, <2>20
        <3>2. Book!Merge BY <2>2, <2>6, <2>11, <2>14, <2>17, <2>18, <2>19, <3>1 DEF Book!Merge
        <3> QED BY <2>4, <3>2 DEF BookStep, Book!Next
    <2>21. CASE id # IdOf(p)
        <3>1. LeftBy("merged")' = LeftBy("merged") BY <2>2, <2>12, <2>21
        <3>2. PICK fresh \in SUBSET Purchases : fresh = {} OBVIOUS
        <3>3. Shelf' = [q \in Purchases |->
                          IF q \in fresh /\ Shelf[q] = "dismissed" THEN "absent" ELSE Shelf[q]]
            <4>1. Shelf = [q \in Purchases |-> Shelf[q]] BY DEF Shelf
            <4> QED BY <2>17, <3>2, <4>1
        <3>4. LeftBy("merged")' \subseteq LeftBy("merged")
              /\ LeftBy("person")' \subseteq LeftBy("person")
            BY <2>11, <3>1
        <3>5. Book!Bank BY <2>19, <3>3, <3>4 DEF Book!Bank
        <3> QED BY <2>4, <3>5 DEF BookStep, Book!Next
    <2> QED BY <2>20, <2>21
<1> QED BY <1>5, <1>6

LEMMA BookAccept ==
    ASSUME BankInv, BankInv', SoundIds(rows, bank), AcceptMatch
    PROVE  BookStep
<1>1. PICK m \in matches :
         LET merged == Merged(rows, matches \ {m}, m.synced, m.manual)
         IN  /\ Paired(m) /\ CanMerge(rows, m.synced, m.manual) /\ Writes(merged.rows)
    BY DEF AcceptMatch
<1>2. PICK i, j, M : i = m.synced /\ j = m.manual /\ M = matches \ {m} OBVIOUS
<1>3. rows' = Merged(rows, M, i, j).rows /\ bank' = bank /\ CanMerge(rows, i, j)
    BY <1>1, <1>2 DEF Writes, Keep, BankKeeps
<1>4. i \in Live(rows) /\ j \in Live(rows)
    BY <1>1, <1>2, RowsOf DEF Paired, Live, SoundMatches
<1>5. PICK Q : Q = Merged(rows, M, i, j).rows OBVIOUS
<1>6. MergeIds(rows, Q, i, j) BY <1>3, <1>4, <1>5, RowsOf, MergedIds
<1>7. MergeIds(rows, rows', i, j) BY <1>3, <1>5, <1>6
<1> QED BY <1>3, <1>7, BookMerge

(* The ids stay sound, and every step is one of the book's.                 *)
BookInv == BankInv /\ SoundIds(rows, bank)

LEMMA BookInit == Init => BookInv /\ Book!Init
<1> SUFFICES ASSUME Init PROVE BookInv /\ Book!Init OBVIOUS
<1>1. BankInv BY BankInvInit
<1>2. PICK s \in Scenarios : bank = s.bank /\ rows = s.rows BY DEF Init
<1>3. SoundIds(rows, bank) BY <1>2, ScenariosAssumption
<1>4. Book!TypeOK BY <1>1, BookTypes DEF BankInv, TypeOK, SoundBank
<1> QED BY <1>1, <1>3, <1>4 DEF BookInv, Book!Init

LEMMA BookSteps == ASSUME BankInv, BankInv', SoundIds(rows, bank), Next PROVE BookStep
<1>1. CASE Announce \/ Post \/ Omit \/ Return BY <1>1, BookBankSteps
<1>2. CASE Reissue BY <1>2, BookReissue
<1>3. CASE Tick \/ Relink \/ RejectMatch \/ Scan BY <1>3, BookQuiet
<1>4. CASE Sync \/ SyncRelinks \/ Refetch BY <1>4, BookRuns
<1>5. CASE Enter BY <1>5, BookEnter
<1>6. CASE TickOff \/ Reconcile \/ Restore BY <1>6, BookMark
<1>7. CASE Delete BY <1>7, BookDelete
<1>8. CASE AcceptMatch BY <1>8, BookAccept
<1> QED BY <1>1, <1>2, <1>3, <1>4, <1>5, <1>6, <1>7, <1>8 DEF Next

LEMMA BookInvStep == BookInv /\ [Next]_vars => BookInv' /\ [Book!Next]_(Book!vars)
<1> SUFFICES ASSUME BookInv, [Next]_vars PROVE BookInv' /\ [Book!Next]_(Book!vars) OBVIOUS
<1>1. BankInv /\ BankInv' /\ SoundIds(rows, bank) BY BankInvStep DEF BookInv
<1>2. CASE Next BY <1>1, <1>2, BookSteps DEF BookStep, BookInv
<1>3. CASE UNCHANGED vars
    <2>1. SoundIds(rows', bank') BY <1>1, <1>3 DEF vars
    <2>2. UNCHANGED Book!vars
        BY <1>3 DEF vars, Book!vars, Reported, Asks, Renamed, LeftBy, Shelf, Bearers, Holders,
                    Live, IdOf, JudgedFrom, Window, OpenHolds
    <2> QED BY <1>1, <2>1, <2>2 DEF BookInv
<1> QED BY <1>2, <1>3

(* Every bank id a row carries is one the bank has given out; the copies of *)
(* a live row's id are what merges left, and no run has removed the row of  *)
(* an id (uq_transactions_account_sync_id, merges and removals).            *)
THEOREM BankIdsSound == Spec => []SoundIds(rows, bank)
<1>1. BookInv => SoundIds(rows, bank) BY DEF BookInv
<1> QED BY <1>1, BookInit, BookInvStep, PTL DEF Spec

(* The sync implements BankBook: whatever the bank sends, reorders, renames *)
(* or leaves out, a run that reaches the account shows every purchase it is *)
(* sure to be told of, and brings none back that a person removed           *)
(* (_post_feed_row, live_window, was_deleted_by_user).                      *)
THEOREM SyncKeepsBook == Spec => BookKept
<1>1. Init => BookInv /\ Book!Init BY BookInit
<1>2. BookInv /\ [Next]_vars => BookInv' /\ [Book!Next]_(Book!vars) BY BookInvStep
<1> QED BY <1>1, <1>2, PTL DEF Spec, BookKept, Book!Spec

-----------------------------------------------------------------------------
(* The questions: what a run puts to the person about the rows it imports.  *)
(* R0 is the register before the run, fed the ids the feed carries, records *)
(* the feed's records.                                                      *)

Put(M, R0, k) ==
    \E m \in M : m.status = "pending" /\ m.synced \notin DOMAIN R0 /\ k \in {m.synced, m.manual}
Same(q, r) == (q.live <=> r.live) /\ q.sync = r.sync /\ q.amount = r.amount /\ q.day = r.day
Reads(row, records) ==
    \A feed \in records : feed.sync = row.sync => row.amount = feed.amount /\ row.day = feed.day
\* No row the run imported stands silently beside a row without a link, and
\* one of the run's rows is out of later records' reach, or has been asked
\* about.
Asking(R, M, C, R0, fed, records) ==
    /\ DOMAIN R0 \subseteq DOMAIN R
    /\ \A k \in Live(R) \cap C : R[k].sync = None => Put(M, R0, k)
    /\ \A n \in Live(R) \ DOMAIN R0 : n \in C /\ R[n].sync \in fed /\ Reads(R[n], records)
    /\ \A n \in Live(R) \ DOMAIN R0, k \in Live(R) :
          R[k].sync = None /\ Rivals(R[k], R[n]) => Put(M, R0, n) \/ Put(M, R0, k)
    /\ \A k \in DOMAIN R0 : R0[k].sync = None => R[k].sync \in fed \cup {None}

LEMMA AskingStep ==
    ASSUME NEW R, NEW M, NEW C, NEW R0, NEW fed, None \notin fed, NEW records,
           Asking(R, M, C, R0, fed, records), NEW Q, NEW N, NEW E,
           DOMAIN R \subseteq DOMAIN Q, C \subseteq E,
           \A k : Put(M, R0, k) => Put(N, R0, k),
           \A k \in Live(Q) : Q[k].sync = None =>
              Put(N, R0, k) \/ (k \in Live(R) /\ Same(Q[k], R[k]) /\ (k \in E => k \in C)),
           \A n \in (Live(Q) \cap DOMAIN R) \ DOMAIN R0 : n \in Live(R) /\ Same(Q[n], R[n]),
           \A n \in Live(Q) \ DOMAIN R :
              /\ n \in E /\ Q[n].sync \in fed /\ Reads(Q[n], records)
              /\ \A k \in Live(Q) :
                    Q[k].sync = None /\ Rivals(Q[k], Q[n]) => Put(N, R0, n) \/ Put(N, R0, k),
           \A k \in DOMAIN R : Q[k].sync \in fed \cup {R[k].sync, None}
    PROVE  Asking(Q, N, E, R0, fed, records)
<1>1. DOMAIN R0 \subseteq DOMAIN Q BY DEF Asking
<1>2. ASSUME NEW k \in Live(Q) \cap E, Q[k].sync = None PROVE Put(N, R0, k)
    BY <1>2 DEF Asking, Same
<1>3. ASSUME NEW n \in Live(Q) \ DOMAIN R0
      PROVE  n \in E /\ Q[n].sync \in fed /\ Reads(Q[n], records)
    <2>1. CASE n \in DOMAIN R
        <3>1. n \in Live(R) \ DOMAIN R0 /\ Same(Q[n], R[n]) BY <2>1
        <3>2. n \in C /\ R[n].sync \in fed /\ Reads(R[n], records) BY <3>1 DEF Asking
        <3> QED BY <3>1, <3>2 DEF Reads, Same
    <2>2. CASE n \notin DOMAIN R BY <2>2
    <2> QED BY <2>1, <2>2
<1>4. ASSUME NEW n \in Live(Q) \ DOMAIN R0, NEW k \in Live(Q),
             Q[k].sync = None, Rivals(Q[k], Q[n])
      PROVE  Put(N, R0, n) \/ Put(N, R0, k)
    <2>1. CASE n \notin DOMAIN R BY <1>4, <2>1
    <2>2. CASE n \in DOMAIN R /\ ~Put(N, R0, k)
        <3>1. n \in Live(R) \ DOMAIN R0 /\ Same(Q[n], R[n]) BY <2>2
        <3>2. k \in Live(R) /\ Same(Q[k], R[k]) BY <1>4, <2>2
        <3>3. R[k].sync = None /\ Rivals(R[k], R[n]) BY <1>4, <3>1, <3>2 DEF Rivals, Same
        <3>4. Put(M, R0, n) \/ Put(M, R0, k) BY <3>1, <3>2, <3>3 DEF Asking
        <3> QED BY <3>4
    <2> QED BY <2>1, <2>2
<1>5. ASSUME NEW k \in DOMAIN R0, R0[k].sync = None PROVE Q[k].sync \in fed \cup {None}
    <2>1. k \in DOMAIN R /\ R[k].sync \in fed \cup {None} BY <1>5 DEF Asking
    <2> QED BY <2>1
<1> QED BY <1>1, <1>2, <1>3, <1>4, <1>5 DEF Asking

(* What a posting, an import and a merge leave of amounts and days.         *)
LEMMA PostingMoney ==
    ASSUME NEW row, DOMAIN row = RowFields, NEW feed
    PROVE  Posting(row, feed).amount =
              IF feed.posted /\ row.cleared # "reconciled" THEN feed.amount ELSE row.amount
BY DEF Posting, AfterPosting, RowFields

LEMMA TakingRest ==
    ASSUME NEW R, SoundRows(R), NEW i, NEW feed
    PROVE  LET Q == Taking(R, i, feed)
           IN  DOMAIN Q = DOMAIN R /\ \A j \in DOMAIN R \ {i} : Same(Q[j], R[j])
<1>1. PICK Q : Q = Taking(R, i, feed) OBVIOUS
<1>2. DOMAIN Q = DOMAIN R BY <1>1 DEF Taking
<1>3. ASSUME NEW j \in DOMAIN R \ {i} PROVE Same(Q[j], R[j])
    <2>1. PICK row, x : row = R[j] /\ x = R[i].of OBVIOUS
    <2>2. DOMAIN row = RowFields BY <2>1, FieldsOfRow DEF SoundRows
    <2>3. Q[j] = row \/ Q[j] = [row EXCEPT !.of = x] BY <1>1, <2>1 DEF Taking
    <2>4. Same([row EXCEPT !.of = x], row) BY <2>2 DEF Same, RowFields
    <2> QED BY <2>1, <2>3, <2>4 DEF Same
<1> QED BY <1>1, <1>2, <1>3

LEMMA AbsorbedRest ==
    ASSUME NEW R, SoundRows(R), NEW kept \in Live(R), NEW lost \in Live(R), kept # lost
    PROVE  \A j \in DOMAIN R \ {kept, lost} : Same(Absorbed(R, kept, lost)[j], R[j])
<1>1. kept \in DOMAIN R /\ lost \in DOMAIN R BY DEF Live
<1>2. PICK G : G = [i \in DOMAIN R |-> IF i = lost THEN Gone(R[i], "merged") ELSE R[i]]
    OBVIOUS
<1>3. DOMAIN G = DOMAIN R /\ \A j \in DOMAIN R \ {lost} : G[j] = R[j] BY <1>2
<1>4. PICK Q, feed : Q = Absorbed(R, kept, lost) /\ feed = StandIn(R[lost]) OBVIOUS
<1>5. Q = G \/ Q = Taking(G, kept, feed) BY <1>2, <1>4 DEF Absorbed
<1>6. SoundRows(G)
    <2>1. \A i \in DOMAIN R : SoundRow(R[i]) BY DEF SoundRows
    <2>2. PICK row, how : row = R[lost] /\ how = "merged" OBVIOUS
    <2>3. SoundRow(row) /\ how \in Fates /\ how # "dropped" BY <1>1, <2>1, <2>2 DEF Fates
    <2>4. SoundRow(Gone(row, how)) /\ ~Gone(row, how).live BY <2>3, GoneSound
    <2>5. G[lost] = Gone(row, how) BY <1>1, <1>2, <2>2
    <2>6. \A i \in DOMAIN R : SoundRow(G[i]) BY <1>3, <2>1, <2>4, <2>5
    <2>7. \A i \in DOMAIN R : G[i].live /\ G[i].sync # None => R[i].live /\ G[i].sync = R[i].sync
        BY <1>3, <2>4, <2>5
    <2>8. G = [i \in DOMAIN R |-> G[i]] BY <1>2
    <2> QED BY <2>6, <2>7, <2>8, PointwiseSound
<1>7. ASSUME NEW j \in DOMAIN R \ {kept, lost} PROVE Same(Q[j], R[j])
    <2>1. G[j] = R[j] BY <1>3
    <2>2. CASE Q = G BY <2>1, <2>2 DEF Same
    <2>3. CASE Q = Taking(G, kept, feed)
        <3>1. Same(Q[j], G[j]) BY <1>3, <1>6, <2>3, TakingRest
        <3> QED BY <2>1, <3>1
    <2> QED BY <1>5, <2>2, <2>3
<1> QED BY <1>4, <1>7

(* A run as Asking reads it.                                                *)
Open(run, R0, fed, records) ==
    /\ Asking(run.rows, run.matches, run.consumed, R0, fed, records)
    /\ \A k \in DOMAIN run.deferred : run.deferred[k] \in records

LEMMA TakenAsks ==
    ASSUME NEW run, NEW P, NEW D, SoundRun(run, P, D), NEW feed, SoundRecord(feed),
           NEW R0, NEW fed, None \notin fed, feed.sync \in fed, NEW records, feed \in records,
           Open(run, R0, fed, records), NEW i \in Live(run.rows),
           run.rows[i].sync = feed.sync \/ i \notin run.consumed
    PROVE  Open(Taken(run, i, feed), R0, fed, records)
<1>1. PICK next : next = Taken(run, i, feed) OBVIOUS
<1>2. PICK R, M, C, Q, E : /\ R = run.rows /\ M = run.matches /\ C = run.consumed
                           /\ Q = Taking(R, i, feed) /\ E = C \cup {i}
    OBVIOUS
<1>3. /\ next.rows = Q /\ next.consumed = E /\ next.matches = M /\ next.deferred = run.deferred
    BY <1>1, <1>2 DEF Taken, SoundRun, RunFields
<1>4. SoundRows(R) /\ Asking(R, M, C, R0, fed, records) BY <1>2 DEF SoundRun, Open
<1>5. i \in DOMAIN R /\ R[i].live /\ SoundRow(R[i]) /\ i \in Live(R)
    BY <1>2, <1>4 DEF Live, SoundRows
<1>6. DOMAIN Q = DOMAIN R /\ \A j \in DOMAIN R \ {i} : Same(Q[j], R[j])
    BY <1>2, <1>4, TakingRest
<1>7. PICK row, p, q : row = R[i] /\ p = Posting(row, feed) /\ q = Q[i] OBVIOUS
<1>8. /\ q.sync = feed.sync /\ (q.live <=> row.live)
      /\ q.amount = (IF feed.posted /\ row.cleared # "reconciled" THEN feed.amount ELSE row.amount)
      /\ q.day = (IF feed.posted /\ row.cleared = "pending" THEN feed.day ELSE row.day)
    <2>1. DOMAIN row = RowFields BY <1>5, <1>7, FieldsOfRow
    <2>2. DOMAIN p = RowFields /\ p.sync = feed.sync BY <1>7, <2>1, PostingFields DEF SoundRecord
    <2>3. q = [p EXCEPT !.of = feed.of] BY <1>2, <1>5, <1>7 DEF Taking
    <2>4. p.day = (IF feed.posted /\ row.cleared = "pending" THEN feed.day ELSE row.day)
        BY <1>7, <2>1, PostingFields
    <2>5. p.amount = (IF feed.posted /\ row.cleared # "reconciled" THEN feed.amount ELSE row.amount)
        BY <1>7, <2>1, PostingMoney
    <2>6. p.live = row.live BY <1>7, <2>1, PostingFlags, Zenon
    <2>7. q.sync = p.sync /\ q.live = p.live /\ q.amount = p.amount /\ q.day = p.day
        BY <2>2, <2>3 DEF RowFields
    <2> QED BY <2>2, <2>4, <2>5, <2>6, <2>7
<1>9. i \notin DOMAIN R0 => Same(Q[i], R[i])
    <2> SUFFICES ASSUME i \notin DOMAIN R0 PROVE Same(q, row) BY <1>7
    <2>1. i \in C /\ Reads(row, records) BY <1>5, <1>4, <1>7 DEF Asking
    <2>2. row.sync = feed.sync BY <1>2, <1>7, <2>1
    <2>3. row.amount = feed.amount /\ row.day = feed.day BY <2>1, <2>2 DEF Reads
    <2> QED BY <1>8, <2>2, <2>3 DEF Same
<1>10. \A k \in Live(Q) : Q[k].sync = None =>
          k \in Live(R) /\ Same(Q[k], R[k]) /\ (k \in E => k \in C)
    <2> SUFFICES ASSUME NEW k \in Live(Q), Q[k].sync = None
                 PROVE  k \in Live(R) /\ Same(Q[k], R[k]) /\ (k \in E => k \in C)
        OBVIOUS
    <2>1. k # i BY <1>7, <1>8
    <2>2. k \in DOMAIN R /\ Same(Q[k], R[k]) BY <1>6, <2>1 DEF Live
    <2> QED BY <1>2, <2>1, <2>2 DEF Live, Same
<1>11. \A n \in (Live(Q) \cap DOMAIN R) \ DOMAIN R0 : n \in Live(R) /\ Same(Q[n], R[n])
    <2> TAKE n \in (Live(Q) \cap DOMAIN R) \ DOMAIN R0
    <2>1. Same(Q[n], R[n]) BY <1>6, <1>9
    <2> QED BY <2>1 DEF Live, Same
<1>12. \A k \in DOMAIN R : Q[k].sync \in fed \cup {R[k].sync, None}
    BY <1>6, <1>7, <1>8 DEF Same
<1>13. Live(Q) \subseteq DOMAIN R /\ DOMAIN R \subseteq DOMAIN Q /\ C \subseteq E
    BY <1>2, <1>6 DEF Live
<1>14. Asking(Q, M, E, R0, fed, records)
    BY <1>4, <1>10, <1>11, <1>12, <1>13, AskingStep
<1> QED BY <1>1, <1>2, <1>3, <1>14 DEF Open

(* A record is imported: a review names the new row, or nobody unasked is   *)
(* its rival.                                                               *)
Imports(R, M, C, Q, N, E, S, R0, feed, n) ==
    /\ n \notin DOMAIN R /\ DOMAIN Q = DOMAIN R \cup {n} /\ Q[n] = Imported(feed)
    /\ M \subseteq N /\ C \cup {n} \subseteq E /\ E \subseteq C \cup {n} \cup S
    /\ S \subseteq DOMAIN R0 \/ \A k \in S : Q[k] = R[k]
    /\ \A k \in S : Put(N, R0, k)
    /\ \A k \in DOMAIN R : \/ Q[k] = R[k]
                           \/ k \in S /\ (Q[k].live <=> R[k].live) /\ Q[k].sync = None
    /\ Put(N, R0, n) \/ \A k \in Live(R) \ C : R[k].sync = None => ~Rivals(R[k], Q[n])

LEMMA ImportAsks ==
    ASSUME NEW R, SoundRows(R), NEW M, NEW C, NEW R0, NEW fed, None \notin fed, NEW records,
           Asking(R, M, C, R0, fed, records), NEW feed \in records, feed.sync \in fed,
           SoundRecord(feed), \A other \in records : other.sync = feed.sync => other = feed,
           NEW Q, NEW N, NEW E, NEW S, NEW n, Imports(R, M, C, Q, N, E, S, R0, feed, n)
    PROVE  Asking(Q, N, E, R0, fed, records)
<1> USE DEF Imports
<1>1. PICK row : row = Imported(feed) OBVIOUS
<1>2. row.sync = feed.sync /\ row.amount = feed.amount /\ row.day = feed.day
    BY <1>1 DEF Imported, Row
<1>3. feed.sync # None BY DEF SoundRecord
<1>4. \A k : Put(M, R0, k) => Put(N, R0, k) BY DEF Put
<1>5. ASSUME NEW k \in Live(Q), Q[k].sync = None, ~Put(N, R0, k)
      PROVE  k \in Live(R) /\ Q[k] = R[k] /\ (k \in E => k \in C)
    <2>1. k # n BY <1>1, <1>2, <1>3, <1>5
    <2>2. k \in DOMAIN R /\ k \notin S BY <1>5, <2>1 DEF Live
    <2>3. Q[k] = R[k] BY <2>2
    <2> QED BY <2>1, <2>2, <2>3 DEF Live
<1>6. \A k \in Live(Q) : Q[k].sync = None =>
         Put(N, R0, k) \/ (k \in Live(R) /\ Same(Q[k], R[k]) /\ (k \in E => k \in C))
    BY <1>5 DEF Same
<1>7. \A k \in (Live(Q) \cap DOMAIN R) \ DOMAIN R0 : k \in Live(R) /\ Same(Q[k], R[k])
    <2> TAKE k \in (Live(Q) \cap DOMAIN R) \ DOMAIN R0
    <2>1. Q[k] = R[k] OBVIOUS
    <2> QED BY <2>1 DEF Live, Same
<1>8. ASSUME NEW k \in Live(Q), Q[k].sync = None, Rivals(Q[k], Q[n])
      PROVE  Put(N, R0, n) \/ Put(N, R0, k)
    <2> SUFFICES ASSUME ~Put(N, R0, n), ~Put(N, R0, k) PROVE FALSE OBVIOUS
    <2>1. k \in Live(R) /\ Q[k] = R[k] BY <1>5, <1>8
    <2>2. k \in C BY <1>8, <2>1
    <2>3. Put(M, R0, k) BY <1>8, <2>1, <2>2 DEF Asking
    <2> QED BY <1>4, <2>3
<1>9. Q[n].sync \in fed /\ Reads(Q[n], records) BY <1>1, <1>2 DEF Reads
<1>10. \A k \in Live(Q) \ DOMAIN R :
         /\ k \in E /\ Q[k].sync \in fed /\ Reads(Q[k], records)
         /\ \A j \in Live(Q) :
               Q[j].sync = None /\ Rivals(Q[j], Q[k]) => Put(N, R0, k) \/ Put(N, R0, j)
    <2> TAKE k \in Live(Q) \ DOMAIN R
    <2>1. k = n BY DEF Live
    <2> QED BY <1>8, <1>9, <2>1
<1>11. \A k \in DOMAIN R : Q[k].sync \in fed \cup {R[k].sync, None} OBVIOUS
<1>12. DOMAIN R \subseteq DOMAIN Q /\ C \subseteq E OBVIOUS
<1> QED BY <1>4, <1>6, <1>7, <1>10, <1>11, <1>12, AskingStep

LEMMA IdentifiedAsks ==
    ASSUME NEW run, NEW P, NEW D, SoundRun(run, P, D), NEW feed, SoundRecord(feed),
           NEW R0, NEW fed, None \notin fed, feed.sync \in fed, NEW records, feed \in records,
           Distinct(records), Open(run, R0, fed, records), NEW i \in Live(run.rows),
           run.rows[i].sync = feed.sync
    PROVE  Open(Identified(run, i, feed), R0, fed, records)
<1>1. CASE ~NeedsReview(run.rows[i], feed, FALSE)
    BY <1>1, TakenAsks DEF Identified
<1>2. CASE NeedsReview(run.rows[i], feed, FALSE)
    <2>1. PICK R : R = Released(run.rows, {i}) OBVIOUS
    <2>2. PICK row : row = Imported(feed) OBVIOUS
    <2>3. PICK next : next = Identified(run, i, feed) OBVIOUS
    <2>4. i \in DOMAIN run.rows /\ SoundRows(run.rows) BY DEF Live, SoundRun
    <2>5. /\ SoundRows(R) /\ DOMAIN R = DOMAIN run.rows
          /\ \A j \in DOMAIN R \ {i} : R[j] = run.rows[j]
          /\ R[i].sync = None /\ (R[i].live <=> run.rows[i].live)
        BY <2>1, <2>4, ReleasedSound
    <2>6. PICK n, Q : n = Len(R) + 1 /\ Q = Append(R, row) OBVIOUS
    <2>7. /\ n \notin DOMAIN R /\ DOMAIN Q = DOMAIN R \cup {n} /\ Q[n] = row /\ Len(Q) = n
          /\ \A j \in DOMAIN R : Q[j] = R[j]
        <3>1. R \in Seq(Range(R)) BY <2>5 DEF SoundRows
        <3> QED BY <2>6, <3>1, OneLonger
    <2>8. PICK m, N, E : /\ m = Match(n, i, "pending") /\ N = run.matches \cup {m}
                         /\ E = (run.consumed \cup {n}) \cup {i}
        OBVIOUS
    <2>9. PICK queued : queued = WithImport([run EXCEPT !.rows = R], feed) OBVIOUS
    <2>10. DOMAIN run = RunFields BY DEF SoundRun
    <2>11. /\ DOMAIN queued = RunFields /\ queued.rows = Q /\ queued.matches = run.matches
           /\ queued.consumed = run.consumed \cup {n} /\ queued.deferred = run.deferred
        BY <2>2, <2>6, <2>9, <2>10 DEF WithImport, RunFields
    <2>12. next = [queued EXCEPT !.consumed = @ \cup {i},
                                 !.matches = @ \cup {Match(Len(queued.rows), i, "pending")}]
        BY <1>2, <2>1, <2>3, <2>9 DEF Identified
    <2>13. Match(Len(queued.rows), i, "pending") = m BY <2>7, <2>8, <2>11
    <2>14. next.rows = Q /\ next.consumed = E /\ next.matches = N /\ next.deferred = run.deferred
        BY <2>8, <2>11, <2>12, <2>13 DEF RunFields
    <2>15. PICK A, M, C, X : /\ A = run.rows /\ M = run.matches /\ C = run.consumed /\ X = {i}
        OBVIOUS
    <2>16. Asking(A, M, C, R0, fed, records) BY <2>15 DEF Open
    <2>17. i \in DOMAIN R0
        <3> SUFFICES ASSUME i \notin DOMAIN R0 PROVE FALSE OBVIOUS
        <3>1. Reads(A[i], records) BY <2>15, <2>16 DEF Asking
        <3>2. A[i].amount = feed.amount BY <2>15, <3>1 DEF Reads
        <3> QED BY <1>2, <2>15, <3>2 DEF NeedsReview
    <2>18. n \notin DOMAIN R0 BY <2>5, <2>7, <2>15, <2>16 DEF Asking
    <2>19. Put(N, R0, n) /\ Put(N, R0, i)
        <3>1. PICK how : how = "pending" OBVIOUS
        <3>2. m.synced = n /\ m.manual = i /\ m.status = how BY <2>8, <3>1 DEF Match
        <3>3. m \in N BY <2>8
        <3> QED BY <2>18, <3>1, <3>2, <3>3 DEF Put
    <2>20. \A k \in DOMAIN A : \/ Q[k] = A[k]
                               \/ k \in X /\ (Q[k].live <=> A[k].live) /\ Q[k].sync = None
        BY <2>5, <2>7, <2>15
    <2>21. n \notin DOMAIN A /\ DOMAIN Q = DOMAIN A \cup {n} /\ Q[n] = Imported(feed)
        BY <2>2, <2>5, <2>7, <2>15
    <2>22. /\ M \subseteq N /\ C \cup {n} \subseteq E /\ E \subseteq C \cup {n} \cup X
           /\ X \subseteq DOMAIN R0 /\ \A k \in X : Put(N, R0, k)
        BY <2>8, <2>15, <2>17, <2>19
    <2>23. \A other \in records : other.sync = feed.sync => other = feed BY DEF Distinct
    <2>24. SoundRows(A) BY <2>4, <2>15
    <2>25. Imports(A, M, C, Q, N, E, X, R0, feed, n)
        BY ONLY <2>19, <2>20, <2>21, <2>22 DEF Imports
    <2>26. Asking(Q, N, E, R0, fed, records)
        BY <2>16, <2>23, <2>24, <2>25, ImportAsks
    <2> QED BY <2>3, <2>14, <2>26 DEF Open
<1> QED BY <1>1, <1>2

(* A new row that is matched is merged away, and the person's row has the   *)
(* link; or it stays, with a review or without.                             *)
LEMMA TryMatchChoice ==
    ASSUME NEW run, DOMAIN run = RunFields, SoundRows(run.rows), NEW n \in Live(run.rows),
           NEW next, next = TryMatch(run, n)
    PROVE  /\ next.consumed = run.consumed /\ next.deferred = run.deferred
           /\ \/ next.rows = run.rows /\ run.matches \subseteq next.matches
              \/ \E best : /\ Twin(run.rows, n, best) /\ CanMerge(run.rows, n, best)
                           /\ next.rows = Merged(run.rows, run.matches, n, best).rows
                           /\ Merged(run.rows, run.matches, n, best).matches \subseteq next.matches
<1> DEFINE R == run.rows
<1>2. \A i \in DOMAIN R : SoundRow(R[i]) BY DEF SoundRows
<1>3. n \in DOMAIN R BY DEF Live
<1>4. PICK able : able = {i \in Live(R) \ {n} : /\ UserEntered(R[i]) /\ R[i].amount = R[n].amount
                                                /\ Gap(R[i].day, R[n].day) <= MatchDays}
    OBVIOUS
<1>5. PICK T : T = {i \in able : \A j \in able : Confidence(R[n], R[i]) >= Confidence(R[n], R[j])}
    OBVIOUS
<1>6. PICK best : best = Min(T) OBVIOUS
<1>7. PICK merged : merged = Merged(R, run.matches, n, best) OBVIOUS
<1>8. TryMatch(run, n) =
        IF able = {} \/ Confidence(R[n], R[best]) < OfferScore THEN run
        ELSE IF Confidence(R[n], R[best]) >= AutoAcceptScore /\ CanMerge(R, n, best)
             THEN [run EXCEPT !.rows = merged.rows,
                              !.matches = merged.matches \cup {Match(n, best, "accepted")}]
        ELSE [run EXCEPT !.matches = @ \cup {Match(n, best, "pending")}]
    BY <1>4, <1>5, <1>6, <1>7 DEF TryMatch
<1>9. able # {} => best \in able
    <2> HAVE able # {}
    <2>1. able \in SUBSET DOMAIN R /\ IsFiniteSet(able) BY <1>4, FiniteRows, FS_Subset
    <2>2. PICK f : f = [i \in able |-> Confidence(R[n], R[i])] OBVIOUS
    <2>3. f \in [able -> Int]
        <3>1. \A i \in able : Confidence(R[n], R[i]) \in Int
            BY <1>2, <1>3, <2>1, ConfidenceInt
        <3> QED BY <2>2, <3>1
    <2>4. T = {i \in able : \A j \in able : f[i] >= f[j]} BY <1>5, <2>2
    <2>5. T # {} BY <2>1, <2>3, <2>4, Foremost
    <2>6. T \in SUBSET Nat BY <1>5, <2>1, FiniteRows
    <2> QED BY <1>5, <1>6, <2>5, <2>6, LeastOf
<1>10. able # {} => Twin(R, n, best) BY <1>4, <1>9 DEF Twin
<1>11. next.consumed = run.consumed /\ next.deferred = run.deferred BY <1>8 DEF RunFields
<1>12. \/ next.rows = run.rows /\ run.matches \subseteq next.matches
       \/ able # {} /\ CanMerge(R, n, best) /\ next.rows = merged.rows
          /\ merged.matches \subseteq next.matches
    BY <1>8 DEF RunFields
<1> QED BY <1>7, <1>10, <1>11, <1>12

LEMMA AskingMore ==
    ASSUME NEW R, NEW M, NEW C, NEW R0, NEW fed, NEW records,
           Asking(R, M, C, R0, fed, records), NEW N, M \subseteq N
    PROVE  Asking(R, N, C, R0, fed, records)
<1>1. \A k : Put(M, R0, k) => Put(N, R0, k) BY DEF Put
<1> QED BY <1>1 DEF Asking

(* A new row of the bank's is merged into the row a person entered.         *)
LEMMA MergeAsks ==
    ASSUME NEW R, SoundRows(R), NEW M, NEW C, NEW R0, NEW fed, None \notin fed, NEW records,
           Asking(R, M, C, R0, fed, records), NEW n \in Live(R) \ DOMAIN R0,
           NEW best \in Live(R), best # n, R[best].sync = None,
           \A m \in M : n \notin {m.synced, m.manual},
           NEW Q, Q = Absorbed(R, best, n), NEW N, Cancelled(M, {n}) \subseteq N
    PROVE  Asking(Q, N, C, R0, fed, records)
<1>1. n \in Live(R) /\ R[n].sync \in fed BY DEF Asking
<1>2. /\ DOMAIN Q = DOMAIN R /\ ~Q[n].live /\ Q[best].sync = R[n].sync /\ Q[n].sync = R[n].sync
      /\ \A j \in DOMAIN R \ {best, n} : Same(Q[j], R[j])
    BY <1>1, AbsorbedSound, AbsorbedIds, AbsorbedRest
<1>3. \A k : Put(M, R0, k) => Put(N, R0, k)
    <2>1. M \subseteq N BY DEF Cancelled
    <2> QED BY <2>1 DEF Put
<1>4. \A k \in Live(Q) : Q[k].sync = None =>
         Put(N, R0, k) \/ (k \in Live(R) /\ Same(Q[k], R[k]) /\ (k \in C => k \in C))
    <2> TAKE k \in Live(Q)
    <2> HAVE Q[k].sync = None
    <2>1. k \in DOMAIN R \ {best, n} BY <1>1, <1>2 DEF Live
    <2>2. Same(Q[k], R[k]) BY <1>2, <2>1
    <2> QED BY <2>1, <2>2 DEF Live, Same
<1>5. best \in DOMAIN R0 BY DEF Asking
<1>6. \A k \in (Live(Q) \cap DOMAIN R) \ DOMAIN R0 : k \in Live(R) /\ Same(Q[k], R[k])
    <2> TAKE k \in (Live(Q) \cap DOMAIN R) \ DOMAIN R0
    <2>1. k \in DOMAIN R \ {best, n} BY <1>2, <1>5 DEF Live
    <2>2. Same(Q[k], R[k]) BY <1>2, <2>1
    <2> QED BY <2>1, <2>2 DEF Live, Same
<1>7. \A k \in DOMAIN R : Q[k].sync \in fed \cup {R[k].sync, None}
    <2> TAKE k \in DOMAIN R
    <2>1. CASE k \in {best, n} BY <1>1, <1>2, <2>1
    <2>2. CASE k \notin {best, n} BY <1>2, <2>2 DEF Same
    <2> QED BY <2>1, <2>2
<1>8. Live(Q) \subseteq DOMAIN R /\ DOMAIN R \subseteq DOMAIN Q BY <1>2 DEF Live
<1> QED BY <1>3, <1>4, <1>6, <1>7, <1>8, AskingStep

\* Of a row the bank sent and a row a person entered, the person's survives.
LEMMA PersonSurvives ==
    ASSUME NEW R, NEW n, NEW best, R[n].cleared # "reconciled", R[n].source,
           UserEntered(R[best])
    PROVE  Survivor(R, n, best) = best
<1>1. BankSourced(R[n]) /\ ~BankSourced(R[best]) BY DEF BankSourced, UserEntered
<1> QED BY <1>1 DEF Survivor

LEMMA TryMatchAsks ==
    ASSUME NEW run, DOMAIN run = RunFields, SoundRows(run.rows),
           NEW R0, NEW fed, None \notin fed, NEW records, Open(run, R0, fed, records),
           NEW n \in Live(run.rows) \ DOMAIN R0,
           run.rows[n].cleared # "reconciled", run.rows[n].source,
           \A m \in run.matches : n \notin {m.synced, m.manual}
    PROVE  Open(TryMatch(run, n), R0, fed, records)
<1>1. PICK next : next = TryMatch(run, n) OBVIOUS
<1>2. PICK R, M, C : R = run.rows /\ M = run.matches /\ C = run.consumed OBVIOUS
<1>3. SoundRows(R) /\ Asking(R, M, C, R0, fed, records) /\ n \in Live(R) BY <1>2 DEF Open
<1>4. /\ next.consumed = C /\ next.deferred = run.deferred
      /\ \/ next.rows = R /\ M \subseteq next.matches
         \/ \E best : /\ Twin(R, n, best) /\ CanMerge(R, n, best)
                      /\ next.rows = Merged(R, M, n, best).rows
                      /\ Merged(R, M, n, best).matches \subseteq next.matches
    BY <1>1, <1>2, TryMatchChoice
<1>5. CASE next.rows = R /\ M \subseteq next.matches
    BY <1>1, <1>3, <1>4, <1>5, AskingMore DEF Open
<1>6. CASE ~(next.rows = R /\ M \subseteq next.matches)
    <2>1. PICK best : /\ Twin(R, n, best) /\ CanMerge(R, n, best)
                      /\ next.rows = Merged(R, M, n, best).rows
                      /\ Merged(R, M, n, best).matches \subseteq next.matches
        BY <1>4, <1>6
    <2>2. best \in Live(R) /\ best # n /\ R[best].sync = None /\ UserEntered(R[best])
        BY <2>1 DEF Twin, UserEntered
    <2>3. Survivor(R, n, best) = best BY <1>2, <2>2, PersonSurvives
    <2>4. next.rows = Absorbed(R, best, n) /\ Cancelled(M, {n}) \subseteq next.matches
        BY <2>1, <2>2, <2>3 DEF Merged
    <2>5. PICK Q, N : Q = next.rows /\ N = next.matches OBVIOUS
    <2>6. Q = Absorbed(R, best, n) /\ Cancelled(M, {n}) \subseteq N BY <2>4, <2>5
    <2>7. \A m \in M : n \notin {m.synced, m.manual} BY <1>2
    <2>8. Asking(Q, N, C, R0, fed, records) BY <1>3, <2>2, <2>6, <2>7, MergeAsks
    <2> QED BY <1>1, <1>4, <2>5, <2>8 DEF Open
<1> QED BY <1>5, <1>6

LEMMA NoRivalLeft ==
    ASSUME NEW R, NEW C, NEW feed, NEW fed, NEW since,
           Candidates(R, feed, C, fed, since) = {}, NEW row, row = Imported(feed),
           NEW k \in Live(R) \ C, R[k].sync = None
    PROVE  ~Rivals(R[k], row)
<1>1. row.day = feed.day /\ row.amount = feed.amount BY DEF Imported, Row
<1>2. ~(R[k].amount = feed.amount /\ Unlinked(R[k]) /\ Gap(R[k].day, feed.day) <= DedupDays)
    BY DEF Candidates
<1> QED BY <1>1, <1>2 DEF Rivals, Unlinked

LEMMA ActedAsks ==
    ASSUME NEW run, NEW P, NEW D, SoundRun(run, P, D), NEW feed, SoundRecord(feed),
           NEW R0, NEW fed, None \notin fed, feed.sync \in fed, NEW records, feed \in records,
           Distinct(records), Open(run, R0, fed, records), Holders(run.rows, feed.sync) = {},
           NEW since, NEW S, S = Candidates(run.rows, feed, run.consumed, fed, since),
           NEW decision, decision = DecideMatch(run.rows, feed, S),
           decision.action \in {"auto", "review"} => decision.row \in S
    PROVE  Open(Acted(run, feed, decision), R0, fed, records)
<1>1. CASE decision.action = "auto"
    <2>1. Acted(run, feed, decision) = Taken(run, decision.row, feed) BY <1>1 DEF Acted
    <2>2. decision.row \in Live(run.rows) /\ decision.row \notin run.consumed
        BY <1>1 DEF Candidates
    <2> QED BY <2>1, <2>2, TakenAsks
<1>2. PICK created, n, row : /\ created = WithImport(run, feed) /\ n = Len(run.rows) + 1
                             /\ row = decision.row
    OBVIOUS
<1>3. PICK R, M, C, Q : R = run.rows /\ M = run.matches /\ C = run.consumed /\ Q = created.rows
    OBVIOUS
<1>4. \A j \in Live(run.rows) : run.rows[j].sync # feed.sync BY DEF Holders, Live
<1>5. /\ SoundRun(created, P, D) /\ n \notin DOMAIN R /\ DOMAIN Q = DOMAIN R \cup {n}
      /\ Q[n] = Imported(feed) /\ Q[n].live /\ \A i \in DOMAIN R : Q[i] = R[i]
      /\ created.matches = M /\ Len(created.rows) = n
    BY <1>2, <1>3, <1>4, ImportRun
<1>6. created.consumed = C \cup {n} /\ created.deferred = run.deferred
    BY <1>2, <1>3 DEF WithImport, SoundRun, RunFields
<1>7. SoundRows(R) /\ Asking(R, M, C, R0, fed, records) BY <1>3 DEF SoundRun, Open
<1>8. n \notin DOMAIN R0 BY <1>5, <1>7 DEF Asking
<1>9. \A other \in records : other.sync = feed.sync => other = feed BY DEF Distinct
<1>10. CASE decision.action = "review"
    <2>1. PICK next, m, N, E, X :
              /\ next = Acted(run, feed, decision) /\ m = Match(n, row, "pending")
              /\ N = M \cup {m} /\ E = (C \cup {n}) \cup {row} /\ X = {row}
        OBVIOUS
    <2>2. next = [created EXCEPT !.consumed = @ \cup {row}, !.matches = @ \cup {m}]
        BY <1>2, <1>5, <1>10, <2>1 DEF Acted
    <2>3. DOMAIN created = RunFields BY <1>5 DEF SoundRun
    <2>4. next.rows = Q /\ next.consumed = E /\ next.matches = N /\ next.deferred = run.deferred
        BY <1>3, <1>5, <1>6, <2>1, <2>2, <2>3 DEF RunFields
    <2>5. row \in Live(R) BY <1>2, <1>3, <1>10 DEF Candidates
    <2>6. Put(N, R0, n) /\ Put(N, R0, row)
        <3>1. PICK how : how = "pending" OBVIOUS
        <3>2. m.synced = n /\ m.manual = row /\ m.status = how BY <2>1, <3>1 DEF Match
        <3>3. m \in N BY <2>1
        <3> QED BY <1>8, <3>1, <3>2, <3>3 DEF Put
    <2>7. M \subseteq N /\ C \cup {n} \subseteq E /\ E \subseteq C \cup {n} \cup X BY <2>1
    <2>8. \A k \in X : Q[k] = R[k] /\ Put(N, R0, k) BY <1>5, <2>1, <2>5, <2>6 DEF Live
    <2>9. Imports(R, M, C, Q, N, E, X, R0, feed, n)
        BY ONLY <1>5, <2>6, <2>7, <2>8 DEF Imports
    <2>10. Asking(Q, N, E, R0, fed, records) BY <1>7, <1>9, <2>9, ImportAsks
    <2> QED BY <2>1, <2>4, <2>10 DEF Open
<1>11. CASE decision.action \notin {"auto", "review"}
    <2>1. Acted(run, feed, decision) = TryMatch(created, n) BY <1>2, <1>5, <1>11 DEF Acted
    <2>2. Candidates(R, feed, C, fed, since) = {} BY <1>3, <1>11, DecisionKind
    <2>3. \A k \in Live(R) \ C : R[k].sync = None => ~Rivals(R[k], Q[n])
        BY <1>5, <2>2, NoRivalLeft
    <2>4. PICK E, X : E = C \cup {n} /\ X = {} OBVIOUS
    <2>5. M \subseteq M /\ C \cup {n} \subseteq E /\ E \subseteq C \cup {n} \cup X BY <2>4
    <2>6. X \subseteq DOMAIN R0 /\ \A k \in X : Put(M, R0, k) BY <2>4
    <2>7. Imports(R, M, C, Q, M, E, X, R0, feed, n)
        BY ONLY <1>5, <2>3, <2>5, <2>6 DEF Imports
    <2>8. Asking(Q, M, E, R0, fed, records) BY <1>7, <1>9, <2>7, ImportAsks
    <2>9. Open(created, R0, fed, records) BY <1>3, <1>5, <1>6, <2>4, <2>8 DEF Open
    <2>10. /\ n \in Live(created.rows) \ DOMAIN R0
           /\ created.rows[n].cleared # "reconciled" /\ created.rows[n].source
        <3>1. PICK new : new = Imported(feed) OBVIOUS
        <3>2. new.source /\ new.cleared \in {"cleared", "pending"} BY <3>1 DEF Imported, Row
        <3> QED BY <1>3, <1>5, <1>8, <3>1, <3>2 DEF Live
    <2>11. \A m \in created.matches : n \notin {m.synced, m.manual}
        <3>1. SoundMatches(R, M) BY <1>3 DEF SoundRun
        <3> QED BY <1>5, <3>1 DEF SoundMatches
    <2>12. DOMAIN created = RunFields /\ SoundRows(created.rows) BY <1>5 DEF SoundRun
    <2>13. Open(TryMatch(created, n), R0, fed, records)
        BY <2>9, <2>10, <2>11, <2>12, TryMatchAsks
    <2> QED BY <2>1, <2>13
<1> QED BY <1>1, <1>10, <1>11

LEMMA PostFeedRowAsks ==
    ASSUME NEW run, NEW P, NEW D, SoundRun(run, P, D), NEW feed, SoundRecord(feed),
           NEW R0, NEW fed, None \notin fed, feed.sync \in fed, NEW records, feed \in records,
           Distinct(records), Open(run, R0, fed, records), NEW since, NEW strict
    PROVE  Open(PostFeedRow(run, feed, fed, since, strict), R0, fed, records)
<1> DEFINE R == run.rows
<1>1. SoundRows(R) /\ DOMAIN run = RunFields BY DEF SoundRun
<1>2. PICK alive : alive = Holders(R, feed.sync) \cap Live(R) OBVIOUS
<1>3. PICK S : S = Candidates(R, feed, run.consumed, fed, since) OBVIOUS
<1>4. PICK decision : decision = DecideMatch(R, feed, S) OBVIOUS
<1>5. S \subseteq Live(R) BY <1>3 DEF Candidates
<1>6. decision.action \in {"auto", "review"} => decision.row \in S
    <2>1. feed.day \in Nat BY BankAssumption DEF SoundRecord, SoundFeed
    <2>2. S \in SUBSET DOMAIN R BY <1>5 DEF Live
    <2> HIDE DEF R
    <2> QED BY <1>1, <1>4, <2>1, <2>2, DecisionIn
<1>7. CASE alive # {}
    <2>1. PICK i \in alive : TRUE BY <1>7
    <2>2. i \in Live(R) /\ R[i].sync = feed.sync BY <1>2, <2>1 DEF Holders
    <2>3. \A j \in alive : j = i
        <3> TAKE j \in alive
        <3>1. j \in Live(R) /\ R[j].sync = feed.sync BY <1>2 DEF Holders
        <3> QED BY <1>1, <2>2, <3>1 DEF SoundRows, SoundRecord
    <2>4. alive = {i} /\ i \in Nat BY <1>1, <1>2, <2>1, <2>3, FiniteRows
    <2>5. Max(alive) = i BY <2>4 DEF Max
    <2>6. PostFeedRow(run, feed, fed, since, strict) = Identified(run, i, feed)
        BY <1>2, <1>7, <2>5 DEF PostFeedRow
    <2>7. Open(Identified(run, i, feed), R0, fed, records) BY <2>2, IdentifiedAsks
    <2> QED BY <2>6, <2>7
<1>8. CASE alive = {} /\ Holders(R, feed.sync) # {}
    BY <1>2, <1>8 DEF PostFeedRow
<1>9. CASE alive = {} /\ Holders(R, feed.sync) = {} /\ strict /\ ~SettlesInStrictPass(decision)
    <2>1. PICK next : next = [run EXCEPT !.deferred = Append(@, feed)] OBVIOUS
    <2>2. PostFeedRow(run, feed, fed, since, strict) = next
        BY <1>2, <1>3, <1>4, <1>9, <2>1 DEF PostFeedRow
    <2>3. /\ next.rows = run.rows /\ next.matches = run.matches /\ next.consumed = run.consumed
          /\ next.deferred = Append(run.deferred, feed)
        BY <1>1, <2>1 DEF RunFields
    <2>4. run.deferred \in Seq(Range(run.deferred)) BY DEF SoundRun
    <2>5. PICK n : n = Len(run.deferred) + 1 OBVIOUS
    <2>6. /\ DOMAIN next.deferred = DOMAIN run.deferred \cup {n} /\ next.deferred[n] = feed
          /\ \A k \in DOMAIN run.deferred : next.deferred[k] = run.deferred[k]
        BY <2>3, <2>4, <2>5, OneLonger
    <2>7. \A k \in DOMAIN next.deferred : next.deferred[k] \in records BY <2>6 DEF Open
    <2> QED BY <2>2, <2>3, <2>7 DEF Open
<1>10. CASE alive = {} /\ Holders(R, feed.sync) = {} /\ ~(strict /\ ~SettlesInStrictPass(decision))
    <2>1. PostFeedRow(run, feed, fed, since, strict) = Acted(run, feed, decision)
        BY <1>2, <1>3, <1>4, <1>10 DEF PostFeedRow
    <2>2. Open(Acted(run, feed, decision), R0, fed, records)
        BY <1>3, <1>4, <1>6, <1>10, ActedAsks
    <2> QED BY <2>1, <2>2
<1> QED BY <1>7, <1>8, <1>9, <1>10

LEMMA PassAsks ==
    ASSUME NEW start, NEW P, NEW D, SoundRun(start, P, D),
           NEW feeds, feeds \in Seq(Range(feeds)), \A n \in DOMAIN feeds : SoundRecord(feeds[n]),
           NEW R0, NEW fed, None \notin fed, \A n \in DOMAIN feeds : feeds[n].sync \in fed,
           NEW records, \A n \in DOMAIN feeds : feeds[n] \in records, Distinct(records),
           Open(start, R0, fed, records), NEW since, NEW strict,
           NEW last, last = Pass(start, feeds, fed, since, strict)
    PROVE  Open(last, R0, fed, records)
<1>1. Len(feeds) \in Nat /\ DOMAIN feeds = 1..Len(feeds) OBVIOUS
<1>2. PICK f : /\ PassTable(f, Len(feeds), start, feeds, fed, since, strict)
               /\ Pass(start, feeds, fed, since, strict) = f[Len(feeds)]
    BY <1>1, PassUnfolds
<1> DEFINE So(n) == SoundRun(f[n], P, D) /\ Open(f[n], R0, fed, records)
<1> DEFINE S == {n \in Nat : n <= Len(feeds) => So(n)}
<1>3. 0 \in S
    <2>1. 0 \in 0..Len(feeds) BY <1>1
    <2>2. f[0] = start BY <1>2, <2>1 DEF PassTable
    <2>3. So(0) BY <2>2
    <2> QED BY <2>3
<1>4. ASSUME NEW n \in Nat, n \in S PROVE n + 1 \in S
    <2> SUFFICES ASSUME n + 1 <= Len(feeds) PROVE So(n + 1) OBVIOUS
    <2>1. /\ n + 1 \in 0..Len(feeds) /\ n + 1 # 0 /\ (n + 1) - 1 = n
          /\ n + 1 \in DOMAIN feeds /\ n <= Len(feeds)
        BY <1>1
    <2>2. PICK run, next, feed : run = f[n] /\ next = f[n + 1] /\ feed = feeds[n + 1] OBVIOUS
    <2>3. next = PostFeedRow(run, feed, fed, since, strict)
        BY <1>2, <2>1, <2>2 DEF PassTable
    <2>4. So(n) BY <1>4, <2>1
    <2>5. SoundRecord(feed) /\ feed.sync \in fed /\ feed \in records BY <2>1, <2>2
    <2>6. SoundRun(run, P, D) /\ Open(run, R0, fed, records) BY <2>2, <2>4
    <2>7. SoundRun(next, P, D) BY <2>3, <2>5, <2>6, PostFeedRowRun
    <2>8. Open(next, R0, fed, records) BY <2>3, <2>5, <2>6, PostFeedRowAsks
    <2> QED BY <2>2, <2>7, <2>8
<1> HIDE DEF S
<1>5. Nat \subseteq S BY <1>3, <1>4, Induct
<1>6. Len(feeds) \in S BY <1>1, <1>5
<1>7. So(Len(feeds)) BY <1>1, <1>6 DEF S
<1>8. last = f[Len(feeds)] BY <1>2
<1> QED BY <1>7, <1>8

LEMMA PostedAsks ==
    ASSUME NEW D, SoundRows(rows), SoundMatches(rows, matches), AllTold(rows, matches, D),
           NEW feeds, feeds \in Seq(Range(feeds)), \A n \in DOMAIN feeds : SoundRecord(feeds[n]),
           NEW fed, None \notin fed, NEW records, \A feed \in records : feed.sync \in fed,
           \A n \in DOMAIN feeds : feeds[n] \in records, Distinct(records),
           NEW since, NEW last, last = Posted(feeds, fed, since)
    PROVE  Open(last, rows, fed, records)
<1>1. PICK start : start = [rows |-> rows, matches |-> matches, consumed |-> {}, fresh |-> {},
                            deferred |-> <<>>]
    OBVIOUS
<1>2. /\ start.rows = rows /\ start.matches = matches /\ start.consumed = {}
      /\ start.deferred = << >>
    BY <1>1
<1>3. SoundRun(start, rows, D)
    <2>1. DOMAIN start = RunFields BY <1>1 DEF RunFields
    <2>2. start.fresh = {} BY <1>1
    <2>3. start.deferred \in Seq(Range(start.deferred)) /\ DOMAIN start.deferred = {} BY <1>2
    <2>4. Steady(rows, start.rows) BY <1>2 DEF Steady
    <2> QED BY <1>2, <2>1, <2>2, <2>3, <2>4 DEF SoundRun
<1>4. Open(start, rows, fed, records)
    <2>1. PICK R, M, C : R = rows /\ M = matches /\ C = {} OBVIOUS
    <2>2. Live(R) \ DOMAIN R = {} /\ Live(R) \cap C = {} BY <2>1 DEF Live
    <2>3. Asking(R, M, C, R, fed, records) BY <2>2 DEF Asking
    <2>4. DOMAIN start.deferred = {} BY <1>2
    <2> QED BY <1>2, <2>1, <2>3, <2>4 DEF Open
<1>5. PICK strict : strict = TRUE OBVIOUS
<1>6. PICK mid : mid = Pass(start, feeds, fed, since, strict) OBVIOUS
<1>7. SoundRun(mid, rows, D) BY <1>3, <1>6, PassRun
<1>8. Open(mid, rows, fed, records) BY <1>3, <1>4, <1>6, PassAsks
<1>9. PICK waits : waits = mid.deferred OBVIOUS
<1>10. /\ waits \in Seq(Range(waits)) /\ \A n \in DOMAIN waits : SoundRecord(waits[n])
    BY <1>7, <1>9 DEF SoundRun
<1>11. \A n \in DOMAIN waits : waits[n] \in records BY <1>8, <1>9 DEF Open
<1>12. last = Pass(mid, waits, fed, since, FALSE) BY <1>1, <1>5, <1>6, <1>9 DEF Posted
<1>13. \A n \in DOMAIN waits : waits[n].sync \in fed BY <1>11
<1> QED BY <1>7, <1>8, <1>10, <1>11, <1>12, <1>13, PassAsks

(* What a run leaves: a match about the one row or the other, which is      *)
(* open, or whose other row the run has removed.                            *)
Questions(R0, Q, N) ==
    \A n \in Live(Q) \ DOMAIN R0, i \in Live(Q) \cap DOMAIN R0 :
       R0[i].sync = None /\ Q[i].sync = None /\ Rivals(Q[i], Q[n]) =>
          \E m \in N :
             /\ m.synced \notin DOMAIN R0 /\ {m.synced, m.manual} \cap {n, i} # {}
             /\ m.status = "pending" \/ (m.manual \in DOMAIN Q /\ Q[m.manual].gone = "dropped")

LEMMA JudgedAsks ==
    ASSUME NEW run, NEW P, NEW D, SoundRun(run, P, D), NEW R0, NEW fed, None \notin fed,
           NEW records, Open(run, R0, fed, records),
           NEW feeds, NEW from, NEW next, next = Judged(run, feeds, fed, from)
    PROVE  Questions(R0, next.rows, next.matches)
<1>1. PICK R, M, Q, N : /\ R = run.rows /\ M = run.matches
                        /\ Q = next.rows /\ N = next.matches
    OBVIOUS
<1>2. DOMAIN run = RunFields /\ SoundRows(run.rows) BY DEF SoundRun
<1>3. DOMAIN Q = DOMAIN R BY <1>1, <1>2, JudgedRows
<1>4. \A k \in DOMAIN R : \/ Q[k] = R[k]
                          \/ /\ R[k].live /\ R[k].sync \notin fed \cup {None}
                             /\ Q[k].sync = None
    BY <1>1, <1>2, JudgedRows
<1>5. ReviewsClosed(run, next, fed) BY <1>2, JudgedRows
<1>6. PICK S \in SUBSET Live(R) :
         /\ Cancelled(M, S) \subseteq N
         /\ \A k \in S : R[k].sync \notin fed /\ Q[k].gone = "dropped"
    BY <1>1, <1>5 DEF ReviewsClosed
<1>7. \E C : Asking(R, M, C, R0, fed, records) BY <1>1 DEF Open
<1>8. \A n \in Live(R) \ DOMAIN R0 : R[n].sync \in fed BY <1>7 DEF Asking
<1>9. \A n \in Live(R) \ DOMAIN R0, k \in Live(R) :
         R[k].sync = None /\ Rivals(R[k], R[n]) => Put(M, R0, n) \/ Put(M, R0, k)
    BY <1>7 DEF Asking
<1>10. \A k \in DOMAIN R0 : R0[k].sync = None => k \in DOMAIN R /\ R[k].sync \in fed \cup {None}
    BY <1>7 DEF Asking
<1>11. SoundMatches(R, M) BY <1>1 DEF SoundRun
<1>12. SUFFICES ASSUME NEW n \in Live(Q) \ DOMAIN R0, NEW i \in Live(Q) \cap DOMAIN R0,
                       R0[i].sync = None, Q[i].sync = None, Rivals(Q[i], Q[n])
       PROVE  \E m \in N :
                 /\ m.synced \notin DOMAIN R0 /\ {m.synced, m.manual} \cap {n, i} # {}
                 /\ \/ m.status = "pending"
                    \/ m.manual \in DOMAIN Q /\ Q[m.manual].gone = "dropped"
    BY <1>1 DEF Questions
<1>13. n \in Live(R) \ DOMAIN R0 /\ Q[n] = R[n]
    <2>1. n \in DOMAIN R /\ Q[n].live BY <1>3 DEF Live
    <2>2. R[n].live BY <1>4, <2>1
    <2>3. n \in Live(R) BY <2>1, <2>2 DEF Live
    <2> QED BY <1>4, <1>8, <2>1, <2>3
<1>14. i \in Live(R) /\ Q[i] = R[i]
    <2>1. i \in DOMAIN R /\ R[i].sync \in fed \cup {None} /\ Q[i].live
        BY <1>10, <1>12 DEF Live
    <2>2. Q[i] = R[i] BY <1>4, <2>1
    <2> QED BY <2>1, <2>2 DEF Live
<1>15. Put(M, R0, n) \/ Put(M, R0, i) BY <1>9, <1>12, <1>13, <1>14
<1>16. PICK m \in M : /\ m.status = "pending" /\ m.synced \notin DOMAIN R0
                      /\ n \in {m.synced, m.manual} \/ i \in {m.synced, m.manual}
    BY <1>15 DEF Put
<1>17. /\ DOMAIN m = {"synced", "manual", "status"}
       /\ m.synced \in DOMAIN R /\ m.manual \in DOMAIN R
    BY <1>11 DEF SoundMatches
<1>18. {m.synced, m.manual} \cap {n, i} # {} BY <1>16
<1>19. CASE {m.synced, m.manual} \cap S = {}
    <2>1. m \in N BY <1>6, <1>19 DEF Cancelled
    <2> QED BY <1>16, <1>18, <2>1
<1>20. CASE {m.synced, m.manual} \cap S # {}
    <2>1. PICK c : c = [m EXCEPT !.status = "rejected"] OBVIOUS
    <2>2. c \in N BY <1>6, <1>16, <1>20, <2>1 DEF Cancelled
    <2>3. c.synced = m.synced /\ c.manual = m.manual BY <1>17, <2>1
    <2>4. m.synced \notin S
        <3> SUFFICES ASSUME m.synced \in S PROVE FALSE OBVIOUS
        <3>1. m.synced \in Live(R) \ DOMAIN R0 BY <1>6, <1>16
        <3> QED BY <1>6, <1>8, <3>1
    <2>5. m.manual \in S BY <1>20, <2>4
    <2>6. c.manual \in DOMAIN Q /\ Q[c.manual].gone = "dropped" BY <1>3, <1>6, <1>17, <2>3, <2>5
    <2>7. c.synced \notin DOMAIN R0 /\ {c.synced, c.manual} \cap {n, i} # {}
        BY <1>16, <1>18, <2>3
    <2> QED BY <2>2, <2>6, <2>7
<1> QED BY <1>19, <1>20

LEMMA RunAsks ==
    ASSUME NEW D, SoundRows(rows), SoundMatches(rows, matches), AllTold(rows, matches, D),
           NEW feeds, feeds \in Seq(Range(feeds)), \A n \in DOMAIN feeds : SoundRecord(feeds[n]),
           NEW fed, fed = {feeds[n].sync : n \in DOMAIN feeds}, Distinct(Range(feeds)),
           NEW since, NEW from,
           NEW next, next = Judged(Posted(feeds, fed, since), feeds, fed, from)
    PROVE  Questions(rows, next.rows, next.matches)
<1>1. None \notin fed BY DEF SoundRecord
<1>2. PICK records : records = Range(feeds) OBVIOUS
<1>3. \A n \in DOMAIN feeds : feeds[n] \in records BY <1>2 DEF Range
<1>4. \A feed \in records : feed.sync \in fed BY <1>2 DEF Range
<1>5. PICK run, R0 : run = Posted(feeds, fed, since) /\ R0 = rows OBVIOUS
<1>6. SoundRun(run, rows, D) BY <1>5, PostedRun
<1>7. Open(run, rows, fed, records) BY <1>1, <1>2, <1>3, <1>4, <1>5, PostedAsks
<1>8. next = Judged(run, feeds, fed, from) BY <1>5
<1>9. SoundRun(run, R0, D) /\ Open(run, R0, fed, records) BY <1>5, <1>6, <1>7
<1>10. Questions(R0, next.rows, next.matches) BY <1>1, <1>8, <1>9, JudgedAsks
<1> QED BY <1>5, <1>10

(* Only a run adds rows of the bank's.                                      *)
Asked ==
    \A n \in Live(rows') \ DOMAIN rows, i \in Live(rows') \cap DOMAIN rows :
       (rows'[n].source /\ Unlinked(rows[i]) /\ Unlinked(rows'[i]) /\ Rivals(rows'[i], rows'[n]))
         => \E m \in matches' \ matches : {m.synced, m.manual} \cap {n, i} # {} /\ Raised(m)'

LEMMA ServeAsks ==
    ASSUME BankInv, NEW window, NEW account, Serve(window, account)
    PROVE  Asked
<1>1. PICK answer \in Answers(window) : ServedBy(answer) BY ServeRun
<1>2. PICK feeds, fed, since, from : FedWith(answer, feeds, fed) /\ Ran(feeds, fed, since, from)
    BY <1>1 DEF ServedBy
<1>3. PICK D : D = DOMAIN absences OBVIOUS
<1>4. SoundRows(rows) /\ SoundMatches(rows, matches) /\ AllTold(rows, matches, D)
    BY <1>3 DEF BankInv, TypeOK
<1>5. PICK run : run = Judged(Posted(feeds, fed, since), feeds, fed, from) OBVIOUS
<1>6. rows' = run.rows /\ matches' = run.matches BY <1>2, <1>5 DEF Ran
<1>7. /\ feeds \in Seq(Range(feeds)) /\ \A n \in DOMAIN feeds : SoundRecord(feeds[n])
      /\ fed = {feeds[n].sync : n \in DOMAIN feeds} /\ Distinct(Range(feeds))
    BY <1>2 DEF FedWith
<1>8. Questions(rows, run.rows, run.matches) BY <1>4, <1>5, <1>7, RunAsks
<1>9. Questions(rows, rows', matches') BY <1>6, <1>8
<1>10. SUFFICES ASSUME NEW n \in Live(rows') \ DOMAIN rows,
                       NEW i \in Live(rows') \cap DOMAIN rows,
                       Unlinked(rows[i]), Unlinked(rows'[i]), Rivals(rows'[i], rows'[n])
       PROVE  \E m \in matches' \ matches : {m.synced, m.manual} \cap {n, i} # {} /\ Raised(m)'
    BY DEF Asked
<1>11. rows[i].sync = None /\ rows'[i].sync = None BY <1>10 DEF Unlinked
<1>12. PICK m \in matches' :
         /\ m.synced \notin DOMAIN rows /\ {m.synced, m.manual} \cap {n, i} # {}
         /\ \/ m.status = "pending"
            \/ m.manual \in DOMAIN rows' /\ rows'[m.manual].gone = "dropped"
    BY <1>9, <1>10, <1>11 DEF Questions
<1>13. m \notin matches BY <1>4, <1>12 DEF SoundMatches
<1>14. Raised(m)' BY <1>12 DEF Raised
<1> QED BY <1>12, <1>13, <1>14

LEMMA NoneAdded ==
    ASSUME \A n \in Live(rows') \ DOMAIN rows : ~rows'[n].source
    PROVE  Asked
BY DEF Asked

LEMMA RowsStay == ASSUME DOMAIN rows' \subseteq DOMAIN rows PROVE Asked
BY NoneAdded DEF Live

LEMMA EnterAsks == ASSUME BankInv, Enter PROVE Asked
<1>1. PICK row : Writes(Append(rows, row)) /\ ~row.source
    <2>1. PICK p \in DOMAIN purchases :
             \E payee \in {purchases[p].payee, OwnName} :
                Writes(Append(rows, [Row(purchases[p].amount, today, "uncleared", payee)
                                      EXCEPT !.of = p]))
        BY DEF Enter
    <2>2. PICK payee \in {purchases[p].payee, OwnName} :
             Writes(Append(rows, [Row(purchases[p].amount, today, "uncleared", payee)
                                   EXCEPT !.of = p]))
        BY <2>1
    <2>3. PICK row : row = [Row(purchases[p].amount, today, "uncleared", payee) EXCEPT !.of = p]
        OBVIOUS
    <2>4. ~row.source BY <2>3 DEF Row
    <2> QED BY <2>2, <2>3, <2>4
<1>2. PICK R, Q, n : R = rows /\ Q = Append(R, row) /\ n = Len(R) + 1 OBVIOUS
<1>3. R \in Seq(Range(R)) BY <1>2, RowsOf DEF SoundRows
<1>4. DOMAIN Q = DOMAIN R \cup {n} /\ Q[n] = row BY <1>2, <1>3, OneLonger
<1>5. rows' = Q BY <1>1, <1>2 DEF Writes
<1>6. \A k \in Live(rows') \ DOMAIN rows : ~rows'[k].source
    BY <1>1, <1>2, <1>4, <1>5 DEF Live
<1> QED BY <1>6, NoneAdded

LEMMA AcceptAsks == ASSUME BankInv, AcceptMatch PROVE Asked
<1>1. PICK m \in matches :
         LET merged == Merged(rows, matches \ {m}, m.synced, m.manual)
         IN  /\ Paired(m) /\ CanMerge(rows, m.synced, m.manual) /\ Writes(merged.rows)
    BY DEF AcceptMatch
<1>2. PICK i, j, M : i = m.synced /\ j = m.manual /\ M = matches \ {m} OBVIOUS
<1>3. rows' = Merged(rows, M, i, j).rows /\ CanMerge(rows, i, j) BY <1>1, <1>2 DEF Writes
<1>4. i \in Live(rows) /\ j \in Live(rows)
    BY <1>1, <1>2, RowsOf DEF Paired, Live, SoundMatches
<1>5. PICK Q : Q = Merged(rows, M, i, j).rows OBVIOUS
<1>6. MergeIds(rows, Q, i, j) BY <1>3, <1>4, <1>5, RowsOf, MergedIds
<1>7. DOMAIN rows' = DOMAIN rows BY <1>3, <1>5, <1>6 DEF MergeIds
<1> QED BY <1>7, RowsStay

LEMMA AskedStep == BankInv /\ [Next]_vars => [Asked]_vars
<1> SUFFICES ASSUME BankInv, Next PROVE Asked OBVIOUS
<1>1. CASE Announce \/ Post \/ Omit \/ Return
    BY <1>1, RowsStay DEF Announce, Post, Omit, Return, Says, Register
<1>2. CASE Reissue \/ Tick BY <1>2, RowsStay DEF Reissue, Tick, Register
<1>3. CASE Relink BY <1>3, RowsStay DEF Relink
<1>4. CASE Sync \/ SyncRelinks \/ Refetch BY <1>4, ServeAsks DEF Sync, SyncRelinks, Refetch
<1>5. CASE Enter BY <1>5, EnterAsks
<1>6. CASE TickOff \/ Delete \/ Reconcile \/ Restore
    BY <1>6, RowsStay DEF TickOff, Delete, Reconcile, Restore, Writes
<1>7. CASE AcceptMatch BY <1>7, AcceptAsks
<1>8. CASE RejectMatch
    <2>1. Writes(rows) BY <1>8 DEF RejectMatch
    <2> QED BY <2>1, RowsStay DEF Writes
<1>9. CASE Scan
    <2>1. Writes(rows) BY <1>9 DEF Scan
    <2> QED BY <2>1, RowsStay DEF Writes
<1> QED BY <1>1, <1>2, <1>3, <1>4, <1>5, <1>6, <1>7, <1>8, <1>9 DEF Next

(* No run adds a bank row beside a row without a bank link, of its amount   *)
(* and within the dedup days, without asking the person about one of the    *)
(* two (_post_feed_row, find_existing_match_candidates, try_match).         *)
THEOREM ImportsAreAsked == Spec => ImportsAsk
<1>1. BankInv /\ [Next]_vars => [Asked]_vars BY AskedStep
<1>2. Spec => [][Asked]_vars BY <1>1, BankKept, PTL DEF Spec
<1> QED BY <1>2 DEF ImportsAsk, Asked
=============================================================================
