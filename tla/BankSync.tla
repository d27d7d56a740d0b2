------------------------------ MODULE BankSync ------------------------------
(***************************************************************************)
(* One linked account and its bank (services/simplefin_service.py,         *)
(* services/transaction_matching_service.py, domain/matching.py,           *)
(* domain/bank_absence.py, domain/sync_window.py, domain/bank_identity.py):*)
(* the feed and its ids, the window a run asks for, the two passes of the  *)
(* dedup ladder, the review queue, the judging of rows the bank no longer  *)
(* reports, and the relinking of an account the bank has renamed.          *)
(*                                                                         *)
(* A run holds the connection's lock and commits once, so it is one step.  *)
(* The order of the feed is the bank's choice. All rows are plain: splits  *)
(* and transfers are Ledger's subject. A bank id is the purchase's number  *)
(* and a version, so that a reissued id is another id of the same purchase;*)
(* no definition that models code looks inside one.                        *)
(***************************************************************************)
EXTENDS Integers, Sequences, SequencesExt, FiniteSets, FiniteSetsExt, TLC,
        BankPosting

CONSTANTS Purchases,
          Days,          \* the days a run of the model passes through
          Tip,           \* what a final amount may exceed the hold by
          OwnName,       \* a payee as only a person would write it
          Scenarios      \* [purchases, bank, rows, matches, today, stamp, steps]

Overlap == 5
TightDays == 1
AdoptDays == 2
MatchDays == 3
AutoDays == 5
DedupDays == 10

Fates == {"merged", "dropped", "person"}

ASSUME BankAssumption ==
    /\ Days \subseteq Nat /\ Days # {} /\ Tip \in Int /\ IsFiniteSet(Purchases)
    /\ None \notin Fates /\ None \notin Purchases \X Nat

VARIABLES purchases,  \* purchase -> [amount, payee], the bank's own facts
          bank,       \* purchase -> the bank's record of it
          offered,    \* the account as the feed offers it: [id, name]
          link,       \* the account as it is linked: [id, name, stamp]
          today,
          rows,       \* the account's transactions, in order of creation
          matches,    \* the transaction_matches table
          absences,   \* row -> the newest absence a run has recorded of it
          steps       \* the operations a run of the model may still make

vars == <<purchases, bank, offered, link, today, rows, matches, absences, steps>>

Unsaid == [state |-> "unsaid", version |-> 0, amount |-> 0, posted |-> FALSE, day |-> 0]
Row(amount, day, cleared, payee) ==
    [live |-> TRUE, amount |-> amount, day |-> day, cleared |-> cleared, payee |-> payee,
     sync |-> None, bank |-> None, source |-> FALSE, posted |-> None, descriptor |-> None,
     split |-> FALSE, partner |-> None, mine |-> TRUE, of |-> None, gone |-> None]
Match(synced, manual, status) == [synced |-> synced, manual |-> manual, status |-> status]

Init ==
    \E s \in Scenarios :
        /\ purchases = s.purchases /\ bank = s.bank
        /\ rows = s.rows /\ matches = s.matches /\ steps = s.steps
        /\ offered = [id |-> 1, name |-> 1]
        /\ link = [id |-> 1, name |-> 1, stamp |-> s.stamp]
        /\ today = s.today
        /\ absences = <<>>

Gone(row, how) == [row EXCEPT !.live = FALSE, !.gone = how]
Gap(d, e) == IF d > e THEN d - e ELSE e - d
Live(R) == {i \in DOMAIN R : R[i].live}
Reported == {p \in DOMAIN bank : bank[p].state = "reported"}
IdOf(p) == <<p, bank[p].version>>
FeedRecord(p) ==
    [sync |-> IdOf(p), amount |-> bank[p].amount, posted |-> bank[p].posted,
     day |-> bank[p].day, payee |-> purchases[p].payee, of |-> p]

-----------------------------------------------------------------------------
(* The row states of repositories/txn_filters.py. *)

BankDate(row) == IF row.posted # None THEN row.posted ELSE row.day
Unlinked(row) == row.sync = None
ProvisionallyLinked(row) ==
    row.sync # None /\ row.posted = None /\ row.cleared \in {"pending", "uncleared"}
OrphanedLink(row, fed, since, day) ==
    /\ row.sync # None /\ row.sync \notin fed
    /\ BankDate(row) >= since /\ Gap(BankDate(row), day) <= AdoptDays
UserEntered(row) == row.sync = None /\ ~row.source
\* Mutant of SyncCreatedPending: any row the bank has not posted.
UnpostedRow(row) == ProvisionallyLinked(row) /\ row.source
SyncCreatedPending(row) == row.sync # None /\ row.source /\ row.cleared = "pending"
UserRowLinkedToHold(row) == ProvisionallyLinked(row) /\ row.cleared = "uncleared"
ClearedAhead(row) ==
    row.sync # None /\ row.posted = None /\ row.cleared \in {"cleared", "reconciled"}
PostedBankLink(row) == row.sync # None /\ ~ProvisionallyLinked(row)

\* apply_bank_posting with the provenance the ladder reads again.
Posting(row, feed) ==
    [AfterPosting(row, feed)
      EXCEPT !.source = TRUE, !.descriptor = feed.payee,
             !.posted = IF feed.posted THEN feed.day ELSE @,
             !.day = IF feed.posted /\ row.cleared = "pending" THEN feed.day ELSE @]

\* `of` is which purchase a row stands for. A record of purchase p that takes
\* a row typed for another leaves that other to whoever stood for p.
Taking(R, i, feed) ==
    [j \in DOMAIN R |->
        IF j = i THEN [Posting(R[i], feed) EXCEPT !.of = feed.of]
        ELSE IF R[j].live /\ R[j].of = feed.of THEN [R[j] EXCEPT !.of = R[i].of]
        ELSE R[j]]

-----------------------------------------------------------------------------
(* Scoring (domain/matching.py). Similarity is a percentage; a score is     *)
(* multiplied by 5 * (AutoDays + 1) or 10 * (AutoDays + 1) to stay whole.   *)

Similarity(names, payee, unknown) ==
    IF names = {} THEN unknown ELSE IF payee \in names THEN 100 ELSE 30
Names(row) == {row.payee, row.descriptor} \ {None}
Nearness(gap) == IF gap > AutoDays THEN 0 ELSE AutoDays + 1 - gap
Score(row, feed) ==
    100 * Nearness(Gap(feed.day, BankDate(row)))
      + 4 * (AutoDays + 1) * Similarity(Names(row), feed.payee, 50)
AutoMatchScore == 400 * (AutoDays + 1)
StaleLinkScore == 250 * (AutoDays + 1)

\* calculate_confidence of an exact-amount pair
Confidence(synced, manual) ==
    400 * (AutoDays + 1) + 300 * Nearness(Gap(synced.day, manual.day))
      + 3 * (AutoDays + 1) * Similarity({manual.payee} \ {None}, synced.payee, 0)
AutoAcceptScore == 900 * (AutoDays + 1)
OfferScore == 500 * (AutoDays + 1)

\* Mutant of Candidates: only rows that had a bank link.
LinkedCandidates(R, feed, consumed, fed, since) ==
    {i \in Live(R) \ consumed :
        /\ R[i].amount = feed.amount
        /\ \/ /\ feed.posted /\ ProvisionallyLinked(R[i])
              /\ Gap(R[i].day, feed.day) <= DedupDays
           \/ OrphanedLink(R[i], fed, since, feed.day)}
\* find_existing_match_candidates
Candidates(R, feed, consumed, fed, since) ==
    {i \in Live(R) \ consumed :
        /\ R[i].amount = feed.amount
        /\ \/ /\ Unlinked(R[i]) \/ (feed.posted /\ ProvisionallyLinked(R[i]))
              /\ Gap(R[i].day, feed.day) <= DedupDays
           \/ OrphanedLink(R[i], fed, since, feed.day)}

\* The candidates come nearest first, the later date first among equals; the
\* best is the first of the highest score.
First(R, feed, S) ==
    LET gap(k) == Gap(BankDate(R[k]), feed.day)
        nearest == {i \in S : \A j \in S : gap(i) <= gap(j)}
    IN  Min({i \in nearest : \A j \in nearest : R[i].day >= R[j].day})
Best(R, feed, S) ==
    First(R, feed, {i \in S : \A j \in S : Score(R[i], feed) >= Score(R[j], feed)})

Decision(action, i, gap) == [action |-> action, row |-> i, gap |-> gap]

\* Among several rows of its day: the payee decides, if it can.
Disputed(R, feed, near) ==
    LET likeness(i) == Similarity(Names(R[i]), feed.payee, 50)
        closest == {i \in near : \A j \in near : likeness(i) >= likeness(j)}
        winner == First(R, feed, closest)
    IN  Decision(IF Cardinality(closest) = 1 THEN "auto" ELSE "review",
                 winner, Gap(feed.day, BankDate(R[winner])))

DecideMatch(R, feed, S) ==
    LET best == Best(R, feed, S)
        gap(i) == Gap(feed.day, BankDate(R[i]))
        near == {i \in S : gap(i) <= TightDays}
        only == CHOOSE i \in near : TRUE
        contradicted ==
            R[only].descriptor # None /\ Similarity(Names(R[only]), feed.payee, 50) < 50
    IN  IF S = {} THEN Decision("create", None, 0)
        ELSE IF Score(R[best], feed) >= AutoMatchScore
             THEN Decision(IF gap(best) <= AutoDays THEN "auto" ELSE "review", best, gap(best))
        ELSE IF ~feed.posted \/ near = {} THEN Decision("review", best, gap(best))
        ELSE IF Cardinality(near) > 1 THEN Disputed(R, feed, near)
        ELSE Decision(IF contradicted THEN "review" ELSE "auto", only, gap(only))
SettlesInStrictPass(decision) == decision.action = "auto" /\ decision.gap = 0

-----------------------------------------------------------------------------
(* Merging and the review queue. *)

BankSourced(row) == row.sync # None \/ row.source
Survivor(R, i, j) ==
    LET locked(k) == R[k].cleared = "reconciled"
    IN  IF locked(i) # locked(j) THEN IF locked(i) THEN i ELSE j
        ELSE IF BankSourced(R[i]) # BankSourced(R[j]) THEN IF BankSourced(R[i]) THEN j ELSE i
        ELSE Min({i, j})

StandIn(row) ==     \* FeedRecord.from_transaction
    [sync |-> AsFeed(row).sync, amount |-> AsFeed(row).amount, posted |-> AsFeed(row).posted,
     day |-> BankDate(row), payee |-> row.descriptor, of |-> row.of]

MayMerge(R, kept, lost) ==
    /\ kept # lost
    /\ ~(R[kept].cleared = "reconciled" /\ R[lost].cleared = "reconciled")
    /\ R[kept].sync = None \/ R[lost].sync = None \/ R[kept].sync = R[lost].sync
    /\ IF BankSourced(R[lost])
       THEN ~NeedsReview(R[kept], StandIn(R[lost]), TRUE)
       ELSE R[kept].amount = R[lost].amount

Cancelled(M, S) ==
    {IF m.status = "pending" /\ {m.synced, m.manual} \cap S # {}
     THEN [m EXCEPT !.status = "rejected"] ELSE m : m \in M}

\* The survivor takes the loser's bank record; the loser keeps its copy of
\* the id.
Absorbed(R, kept, lost) ==
    LET gone == [i \in DOMAIN R |-> IF i = lost THEN Gone(R[i], "merged") ELSE R[i]]
    IN  IF BankSourced(R[lost]) THEN Taking(gone, kept, StandIn(R[lost])) ELSE gone

\* Each of the two rows, merged, and what becomes of the matches.
Merged(R, M, i, j) ==
    LET kept == Survivor(R, i, j)
        lost == IF kept = i THEN j ELSE i
    IN  [rows |-> Absorbed(R, kept, lost), matches |-> Cancelled(M, {lost})]
CanMerge(R, i, j) ==
    LET kept == Survivor(R, i, j) IN MayMerge(R, kept, IF kept = i THEN j ELSE i)

\* try_match: the best of the person's rows near a new bank row.
TryMatch(run, n) ==
    LET R == run.rows
        able == {i \in Live(R) \ {n} : /\ UserEntered(R[i]) /\ R[i].amount = R[n].amount
                                       /\ Gap(R[i].day, R[n].day) <= MatchDays}
        score(i) == Confidence(R[n], R[i])
        best == Min({i \in able : \A j \in able : score(i) >= score(j)})
        merged == Merged(R, run.matches, n, best)
    IN  IF able = {} \/ score(best) < OfferScore THEN run
        ELSE IF score(best) >= AutoAcceptScore /\ CanMerge(R, n, best)
             THEN [run EXCEPT !.rows = merged.rows,
                              !.matches = merged.matches \cup {Match(n, best, "accepted")}]
        ELSE [run EXCEPT !.matches = @ \cup {Match(n, best, "pending")}]

-----------------------------------------------------------------------------
(* A run of the sync: [rows, matches, consumed, fresh, absences]. *)

Imported(feed) ==       \* _import_feed_row
    [Row(feed.amount, feed.day, IF feed.posted THEN "cleared" ELSE "pending", feed.payee)
      EXCEPT !.sync = feed.sync, !.bank = feed.amount, !.source = TRUE, !.of = feed.of,
             !.posted = IF feed.posted THEN feed.day ELSE None,
             !.descriptor = feed.payee, !.mine = FALSE]
WithImport(run, feed) ==
    LET n == Len(run.rows) + 1
    IN  [run EXCEPT !.rows = Append(@, Imported(feed)), !.consumed = @ \cup {n},
                    !.fresh = @ \cup {n}]
Taken(run, i, feed) ==
    [run EXCEPT !.rows = Taking(@, i, feed), !.consumed = @ \cup {i}]

\* Mutant of Released: the id stays while the pair is reviewed.
Unreleased(R, S) == R
\* release_bank_link
Released(R, S) ==
    [i \in DOMAIN R |-> IF i \in S THEN [R[i] EXCEPT !.sync = None] ELSE R[i]]

\* The row with the record's id.
Identified(run, i, feed) ==
    IF NeedsReview(run.rows[i], feed, FALSE)
    THEN LET queued == WithImport([run EXCEPT !.rows = Released(@, {i})], feed)
         IN  [queued EXCEPT !.consumed = @ \cup {i},
                            !.matches = @ \cup {Match(Len(queued.rows), i, "pending")}]
    ELSE Taken(run, i, feed)

\* The ladder's answer for a record whose id the register does not know.
Acted(run, feed, decision) ==
    LET created == WithImport(run, feed)
        n == Len(created.rows)
    IN  CASE decision.action = "auto" -> Taken(run, decision.row, feed)
          [] decision.action = "review" ->
                [created EXCEPT !.consumed = @ \cup {decision.row},
                                !.matches = @ \cup {Match(n, decision.row, "pending")}]
          [] OTHER -> TryMatch(created, n)

Holders(R, id) == {i \in DOMAIN R : R[i].sync = id}

\* _post_feed_row; a record the strict pass cannot settle waits.
PostFeedRow(run, feed, fed, since, strict) ==
    LET R == run.rows
        alive == Holders(R, feed.sync) \cap Live(R)
        decision == DecideMatch(R, feed, Candidates(R, feed, run.consumed, fed, since))
    IN  IF alive # {} THEN Identified(run, Max(alive), feed)
        ELSE IF Holders(R, feed.sync) # {} THEN run
        ELSE IF strict /\ ~SettlesInStrictPass(decision)
             THEN [run EXCEPT !.deferred = Append(@, feed)]
        ELSE Acted(run, feed, decision)

\* One pass over the records, in the order of the feed.
Pass(start, feeds, fed, since, strict) ==
    LET run[n \in 0..Len(feeds)] ==
          IF n = 0 THEN start ELSE PostFeedRow(run[n - 1], feeds[n], fed, since, strict)
    IN  run[Len(feeds)]
Posted(feeds, fed, since) ==
    LET start == [rows |-> rows, matches |-> matches, consumed |-> {}, fresh |-> {},
                  deferred |-> <<>>]
        strict == Pass(start, feeds, fed, since, TRUE)
    IN  Pass(strict, strict.deferred, fed, since, FALSE)

-----------------------------------------------------------------------------
(* _judge_absences: the linked rows whose id the feed did not carry. *)

Unreported(R, state(_), date(_), from, fed) ==
    {i \in Live(R) : /\ state(R[i]) /\ R[i].sync \notin fed /\ date(R[i]) >= from}
Absence(row, kind, action) == [sync |-> row.sync, kind |-> kind, action |-> action]

\* The fresh posting most like a row whose hold vanished, or None.
Reidentified(run, i) ==
    LET R == run.rows
        feed(n) == [day |-> R[n].posted, payee |-> R[n].descriptor]
        alike == {n \in run.fresh \ {i} :
                    /\ R[n].posted # None
                    /\ Gap(R[n].posted, BankDate(R[i])) <= TightDays
                    /\ Score(R[i], feed(n)) >= StaleLinkScore}
        best == {n \in alike : \A k \in alike : Score(R[i], feed(n)) >= Score(R[i], feed(k))}
    IN  IF alike = {} THEN None ELSE Min(best)
Reviewable(run, i) ==
    /\ Reidentified(run, i) # None
    /\ ~\E m \in run.matches : {m.synced, m.manual} = {i, Reidentified(run, i)}

DropHolds(run, S) ==
    LET R == Released(run.rows, S)
    IN  [run EXCEPT !.rows = [i \in DOMAIN R |-> IF i \in S THEN Gone(R[i], "dropped") ELSE R[i]],
                    !.matches = Cancelled(@, S)]
\* Mutant of Unlink: nobody is asked.
UnlinkQuietly(run, S) == [run EXCEPT !.rows = Released(@, S)]
Unlink(run, S) ==
    [run EXCEPT !.rows = Released(@, S),
                !.matches = @ \cup {Match(Reidentified(run, i), i, "pending") :
                                      i \in {k \in S : Reviewable(run, k)}}]

StillMissing(i) ==
    i \in DOMAIN absences /\ absences[i].kind = "posted" /\ absences[i].action = "kept"

Judged(run, feeds, fed, from) ==
    LET day(row) == row.day
        R == run.rows
        holds == Unreported(R, SyncCreatedPending, day, from, fed)
        dropped == DropHolds(run, holds)
        theirs == Unreported(R, UserRowLinkedToHold, day, from, fed)
        postings == {feeds[n].day : n \in {m \in DOMAIN feeds : feeds[m].posted}}
        gone == IF postings = {} THEN {}
                ELSE {i \in Unreported(R, PostedBankLink, BankDate, Max({from, Min(postings)}), fed) :
                        ~StillMissing(i)}
        back == {i \in DOMAIN absences : StillMissing(i) /\ absences[i].sync \in fed}
        told == theirs \ {i \in theirs : Reviewable(dropped, i)}
        judged == Unlink(dropped, theirs)
        newest(i) ==
            IF i \in back THEN [absences[i] EXCEPT !.action = "reported_again"]
            ELSE IF i \in gone THEN Absence(R[i], "posted", "kept")
            ELSE IF i \in told THEN Absence(R[i], "linked", "kept")
            ELSE IF i \in holds THEN Absence(R[i], "hold", "removed") ELSE absences[i]
    IN  IF fed = {} THEN [rows |-> R, matches |-> run.matches, absences |-> absences]
        ELSE [rows |-> judged.rows, matches |-> judged.matches,
              absences |-> [i \in gone \cup told \cup holds \cup DOMAIN absences |-> newest(i)]]

-----------------------------------------------------------------------------
(* The window (domain/sync_window.py). A run asks from a moment of the      *)
(* start day unless an older hold moves the start to a midnight.            *)

OpenHolds == {rows[i].day : i \in {j \in Live(rows) : SyncCreatedPending(rows[j])
                                                     \/ UserRowLinkedToHold(rows[j])}}
Window(stamp) ==
    LET start == stamp - Overlap
    IN  IF stamp = None THEN [since |-> Min(Days) - 1, whole |-> FALSE]
        ELSE IF OpenHolds # {} /\ Min(OpenHolds) <= start
             THEN [since |-> Min(OpenHolds), whole |-> TRUE]
        ELSE [since |-> start, whole |-> FALSE]
\* Mutant of JudgedFrom: the start day counts as asked for.
JudgedFromStart(window) == window.since
JudgedFrom(window) == IF window.whole THEN window.since ELSE window.since + 1

\* The bridge filters by the moment: of the start day itself it may carry
\* any part.
Answers(window) ==
    LET edge == {p \in Reported : bank[p].day = window.since}
        inside == {p \in Reported : bank[p].day > window.since}
    IN  IF window.whole THEN {inside \cup edge} ELSE {inside \cup some : some \in SUBSET edge}

Step == steps > 0 /\ steps' = steps - 1
BankKeeps == UNCHANGED <<purchases, bank, offered, today>>

\* _sync_locked on a feed that carries the account.
Serve(window, account) ==
    \E answer \in Answers(window) :
        \E order \in SetToSeqs(answer) :
            LET feeds == [n \in DOMAIN order |-> FeedRecord(order[n])]
                fed == {feeds[n].sync : n \in DOMAIN feeds}
                run == Judged(Posted(feeds, fed, window.since), feeds, fed, JudgedFrom(window))
            IN  /\ rows' = run.rows /\ matches' = run.matches /\ absences' = run.absences
                /\ link' = [id |-> account.id, name |-> account.name, stamp |-> today]
                /\ BankKeeps

Sync == Step /\ link.id = offered.id /\ Serve(Window(link.stamp), link)

\* The link no longer resolves: an account of the same name takes it over,
\* and the full window is asked for if the day's quota allows.
SyncRelinks ==
    /\ Step /\ link.id # offered.id /\ link.name = offered.name
    /\ \E headroom \in BOOLEAN :
          Serve(Window(IF headroom THEN None ELSE link.stamp), offered)

\* The person links the account to what the feed offers.
Relink ==
    /\ Step /\ link.id # offered.id
    /\ link' = [id |-> offered.id, name |-> offered.name, stamp |-> None]
    /\ BankKeeps /\ UNCHANGED <<rows, matches, absences>>
Refetch == Step /\ link.id = offered.id /\ Serve(Window(None), link)

-----------------------------------------------------------------------------
(* The bank. *)

Register == <<rows, matches, absences>>
Says(p, record) ==
    /\ Step
    /\ bank' = [bank EXCEPT ![p] = record]
    /\ UNCHANGED <<purchases, offered, link, today, Register>>
Recent == {d \in Days : d <= today /\ today - d < Overlap}

Announce ==
    \E p \in DOMAIN bank, posted \in BOOLEAN, day \in Recent :
        /\ bank[p].state = "unsaid"
        /\ Says(p, [state |-> "reported", version |-> 1, amount |-> purchases[p].amount,
                    posted |-> posted, day |-> day])
\* A hold posts, perhaps with a tip, perhaps under a new id.
Post ==
    \E p \in Reported, extra \in {0, Tip}, fresh \in {0, 1}, day \in Recent :
        /\ ~bank[p].posted
        /\ Says(p, [bank[p] EXCEPT !.posted = TRUE, !.amount = @ + extra,
                                   !.version = @ + fresh, !.day = day])
Omit == \E p \in Reported : Says(p, [bank[p] EXCEPT !.state = "omitted"])
\* An omission is a matter of days, and a hold may come back posted.
Return ==
    \E p \in DOMAIN bank :
        /\ bank[p].state = "omitted" /\ bank[p].day \in Recent
        /\ \E posted \in BOOLEAN :
              /\ bank[p].posted => posted
              /\ Says(p, [bank[p] EXCEPT !.state = "reported", !.posted = posted])
\* The bank relinks: every id is new, and the account's name may be.
Reissue ==
    /\ Step
    /\ offered.id = link.id
    /\ \E renamed \in {0, 1} :
          offered' = [id |-> offered.id + 1, name |-> offered.name + renamed]
    /\ bank' = [p \in DOMAIN bank |-> [bank[p] EXCEPT !.version = @ + 1]]
    /\ UNCHANGED <<purchases, link, today, Register>>
Tick ==
    /\ Step
    /\ \E d \in Days : d > today
    /\ today' = Min({d \in Days : d > today})
    /\ UNCHANGED <<purchases, bank, offered, link, Register>>

-----------------------------------------------------------------------------
(* The person. *)

Keep == BankKeeps /\ UNCHANGED link
Writes(R) == Step /\ rows' = R /\ Keep

\* Typed for a purchase the register does not show.
Enter ==
    \E p \in DOMAIN purchases :
        \E payee \in {purchases[p].payee, OwnName} :
            /\ \A i \in Live(rows) : rows[i].of # p
            /\ Writes(Append(rows, [Row(purchases[p].amount, today, "uncleared", payee)
                                     EXCEPT !.of = p]))
            /\ UNCHANGED <<matches, absences>>
TickOff ==
    \E i \in Live(rows) :
        /\ rows[i].cleared = "uncleared"
        /\ Writes([rows EXCEPT ![i].cleared = "cleared"])
        /\ UNCHANGED <<matches, absences>>
Delete ==
    \E i \in Live(rows) :
        /\ rows[i].cleared # "reconciled"
        /\ Writes([rows EXCEPT ![i] = Gone(@, "person")])
        /\ matches' = Cancelled(matches, {i}) /\ UNCHANGED absences

\* Mutant of InReview: only rows the bank has posted.
InReviewPosted ==
    {i \in Live(rows) :
        /\ rows[i].cleared \in {"cleared", "reconciled"} /\ rows[i].posted # None
        /\ \E m \in matches : m.manual = i /\ m.status = "pending" /\ rows[m.synced].live}
\* IN_REVIEW_CLEARED
InReview ==
    {i \in Live(rows) :
        /\ rows[i].cleared \in {"cleared", "reconciled"} /\ ~ClearedAhead(rows[i])
        /\ \E m \in matches : m.manual = i /\ m.status = "pending" /\ rows[m.synced].live}
Reconcile ==
    /\ InReview = {}
    /\ \E i \in Live(rows) : rows[i].cleared = "cleared"
    /\ Writes([i \in DOMAIN rows |->
                 IF rows[i].live /\ rows[i].cleared = "cleared"
                 THEN [rows[i] EXCEPT !.cleared = "reconciled"] ELSE rows[i]])
    /\ UNCHANGED <<matches, absences>>

Paired(m) == rows[m.synced].live /\ rows[m.manual].live
Offered(m) == m.status = "pending" /\ Paired(m)
Decided(M, m, status) == (M \ {m}) \cup {[m EXCEPT !.status = status]}
AcceptMatch ==
    \E m \in matches :
        LET merged == Merged(rows, matches \ {m}, m.synced, m.manual)
        IN  /\ m.status # "accepted" /\ Paired(m) /\ CanMerge(rows, m.synced, m.manual)
            /\ Writes(merged.rows)
            /\ matches' = merged.matches \cup {[m EXCEPT !.status = "accepted"]}
            /\ UNCHANGED absences
\* A rejection, or an acceptance of a pair one of whose rows is gone.
RejectMatch ==
    \E m \in matches :
        /\ m.status # "rejected"
        /\ matches' = Decided(matches, m, "rejected")
        /\ Writes(rows) /\ UNCHANGED absences

\* is_open for a removed hold, and the hygiene page's Restore. A hold given
\* back once is closed, even when the person deletes it afterwards.
OpenRemoval(i) ==
    /\ i \in DOMAIN absences /\ absences[i].action = "removed" /\ rows[i].gone = "dropped"
    /\ \A j \in Live(rows) : rows[j].sync # absences[i].sync
Restore ==
    \E i \in DOMAIN rows :
        /\ OpenRemoval(i)
        /\ Writes([rows EXCEPT ![i].live = TRUE, ![i].cleared = "uncleared",
                        ![i].mine = TRUE, ![i].gone = None])
        /\ UNCHANGED <<matches, absences>>

\* scan_for_duplicates: same amount, dates near, payees alike enough.
ScanScore(a, b) ==
    1300 * Nearness(Gap(a.day, b.day))
      + 7 * (AutoDays + 1) * Similarity({a.payee} \ {None}, b.payee, 0)
\* Of two rows of one day, the one with the smaller (random) id is `synced`.
Scan ==
    LET alike(a, b) == /\ a.amount = b.amount /\ Gap(a.day, b.day) <= AutoDays
                       /\ ScanScore(a, b) >= 1100 * (AutoDays + 1)
        pairs == {p \in Live(rows) \X Live(rows) :
                    /\ p[1] < p[2] /\ alike(rows[p[1]], rows[p[2]])
                    /\ ~\E m \in matches : {m.synced, m.manual} = {p[1], p[2]}}
        ties == {p \in pairs : rows[p[1]].day = rows[p[2]].day}
    IN  /\ pairs # {}
        /\ Writes(rows) /\ UNCHANGED absences
        /\ \E swapped \in SUBSET ties :
              LET later(p) == rows[p[1]].day >= rows[p[2]].day /\ p \notin swapped
              IN  matches' = matches \cup
                    {IF later(p) THEN Match(p[1], p[2], "pending")
                     ELSE Match(p[2], p[1], "pending") : p \in pairs}

Next ==
    \/ Announce \/ Post \/ Omit \/ Return \/ Reissue \/ Tick
    \/ Sync \/ SyncRelinks \/ Relink \/ Refetch
    \/ Enter \/ TickOff \/ Delete \/ Reconcile
    \/ AcceptMatch \/ RejectMatch \/ Restore \/ Scan

Spec == Init /\ [][Next]_vars

-----------------------------------------------------------------------------
(* What holds of every row: one the person wrote or took back is not        *)
(* pending, nor is one the bank has posted; one a run removed was the       *)
(* bank's, and has given its id up.                                         *)
SoundRow(row) ==
    /\ DOMAIN row = DOMAIN Row(0, 0, "uncleared", None)
    /\ row.live \in BOOLEAN /\ row.source \in BOOLEAN /\ row.mine \in BOOLEAN
    /\ row.cleared \in {"pending", "uncleared", "cleared", "reconciled"}
    /\ row.day \in Days /\ row.posted \in Days \cup {None}
    /\ row.live <=> row.gone = None
    /\ row.mine => row.cleared # "pending"
    /\ row.posted # None => row.cleared # "pending"
    /\ row.gone = "dropped" => ~row.mine /\ row.sync = None
SoundRows(R) ==
    /\ R \in Seq(Range(R))
    /\ \A i \in DOMAIN R : SoundRow(R[i])
    /\ \A i, j \in Live(R) : R[i].sync # None /\ R[i].sync = R[j].sync => i = j
SoundMatches(R, M) ==
    \A m \in M : /\ DOMAIN m = {"synced", "manual", "status"}
                 /\ m.synced \in DOMAIN R /\ m.manual \in DOMAIN R
\* A bank id a row carries is one the bank has given out. The copies of a live
\* row's id are what merges left; no run has removed the row of an id.
IdsGiven(B) == {id \in Purchases \X Nat : B[id[1]].state # "unsaid" /\ id[2] <= B[id[1]].version}
SoundIds(R, B) ==
    /\ \A i \in DOMAIN R : R[i].sync # None =>
          R[i].sync \in IdsGiven(B) /\ R[i].gone \in {None, "merged", "person"}
    /\ \A i \in Live(R), j \in DOMAIN R :
          R[i].sync # None /\ R[i].sync = R[j].sync => i = j \/ R[j].gone = "merged"
SoundBank(B) ==
    /\ DOMAIN B = Purchases
    /\ \A p \in Purchases : /\ DOMAIN B[p] = DOMAIN Unsaid
                            /\ B[p].version \in Nat /\ B[p].posted \in BOOLEAN
                            /\ B[p].state # "unsaid" => B[p].day \in Days
StampsOf(day) == {d \in Days : d <= day} \cup {None}

ASSUME ScenariosAssumption ==
    \A s \in Scenarios :
        /\ s.today \in Days /\ s.stamp \in StampsOf(s.today)
        /\ SoundBank(s.bank) /\ SoundRows(s.rows) /\ SoundMatches(s.rows, s.matches)
        /\ SoundIds(s.rows, s.bank)
        /\ \A i \in Live(s.rows) : s.rows[i].source => s.rows[i].sync # None

(* Rows, matches and absences name one another; a live bank id has one row, *)
(* as the index over (account_id, sync_id) of live rows requires.           *)
TypeOK ==
    /\ SoundRows(rows) /\ SoundMatches(rows, matches) /\ SoundBank(bank)
    /\ DOMAIN absences \subseteq DOMAIN rows
    /\ today \in Days /\ link.stamp \in StampsOf(today)

(* The promise of BankBook, kept by windows, ids, matching and relinking:   *)
(* a run that reaches the account leaves every reported purchase shown or   *)
(* dismissed, and nothing dismissed comes back unless the bank renames it.  *)
Asks(p) == p \in Reported /\ bank[p].day >= JudgedFrom(Window(link.stamp))
Bearers(p) == {i \in Live(rows) : rows[i].sync # None /\ rows[i].sync[1] = p}
Renamed == {p \in Purchases : \E i \in Bearers(p) : rows[i].sync # IdOf(p)}
LeftBy(how) == {p \in Purchases : \E i \in Holders(rows, IdOf(p)) : rows[i].gone = how}
Shelf == [p \in Purchases |->
            IF Bearers(p) # {} THEN "shown"
            ELSE IF Holders(rows, IdOf(p)) # {} THEN "dismissed" ELSE "absent"]
Book == INSTANCE BankBook WITH
    reported <- Reported, asked <- {p \in Purchases : Asks(p)}, renamed <- Renamed,
    doubled <- LeftBy("merged"), refused <- LeftBy("person"), book <- Shelf
BookKept == Book!Spec

(* A run never adds a bank row beside a row without a bank link, of its     *)
(* amount and within the dedup days, without asking about one of the two.   *)
(* The review is still open when the run commits, unless the run has found  *)
(* the review's other row to be a hold that vanished, and removed it.       *)
Raised(m) ==
    m.status = "pending" \/ (m.manual \in DOMAIN rows /\ rows[m.manual].gone = "dropped")
Rivals(a, b) == a.amount = b.amount /\ Gap(a.day, b.day) <= DedupDays
ImportsAsk ==
    [][\A n \in Live(rows') \ DOMAIN rows, i \in Live(rows') \cap DOMAIN rows :
          (rows'[n].source /\ Unlinked(rows[i]) /\ Unlinked(rows'[i]) /\ Rivals(rows'[i], rows'[n]))
            => \E m \in matches' \ matches : {m.synced, m.manual} \cap {n, i} # {} /\ Raised(m)']_vars

(* A row a person typed, or took back from a removal, is never removed by a *)
(* run (domain/bank_absence.py).                                            *)
NothingTypedIsDropped ==
    \A i \in DOMAIN rows : rows[i].gone = "dropped" => ~rows[i].mine

(* A row a run unlinks from a vanished hold is news: it is recorded as      *)
(* missing, or it is or was in a review with a row there to compare. One    *)
(* way is exempt: the run offers its own posting for the review after a     *)
(* merge has taken that posting away (created_this_run keeps it).           *)
Unmentioned(i) ==
    /\ i \notin DOMAIN absences
    /\ ~\E m \in matches : i \in {m.synced, m.manual} /\ (Offered(m) \/ m.status # "pending")
UnlinkedRows == {i \in Live(rows) : rows[i].source /\ rows[i].sync = None}
UnlinkedIsTold ==
    \A i \in UnlinkedRows : Unmentioned(i) =>
        \E m \in matches : m.manual = i /\ rows[m.synced].gone = "merged"

(* A reconciliation never locks both rows of a review that can still be     *)
(* accepted: the money would be in the locked balance twice, and two locked *)
(* rows do not merge (ReconciliationBlocked). A row linked to a hold and    *)
(* ticked off ahead of the bank is exempt: IN_REVIEW_CLEARED leaves it out  *)
(* though a scan may put it in a review as the person's row.                *)
BothLocked(m) == rows[m.synced].cleared = "reconciled" /\ rows[m.manual].cleared = "reconciled"
Acceptable(m) == Offered(m) /\ CanMerge(rows, m.synced, m.manual)
LockedOnce ==
    [][\A m \in matches :
          Acceptable(m) /\ ~ClearedAhead(rows[m.manual]) => ~BothLocked(m)']_vars

(* A reported purchase whose id only deleted rows carry was deleted by a    *)
(* person (TransactionRepository.was_deleted_by_user).                      *)
TombstoneIsDecision ==
    \A p \in Reported :
        LET holders == Holders(rows, IdOf(p))
        IN  holders # {} /\ holders \cap Live(rows) = {}
              => \E i \in holders : rows[i].gone = "person"
=============================================================================
