------------------------------- MODULE Ledger -------------------------------
(***************************************************************************)
(* The register: rows, split lines, transfer legs, merges and              *)
(* reconciliation (services/transaction_service.py,                        *)
(* services/reconciliation_service.py, domain/transfers.py,                *)
(* domain/merging.py, domain/account_move.py). Every operation is one      *)
(* request of one committed transaction, except finishing a                *)
(* reconciliation, which reads the cleared balance in one statement and    *)
(* locks the cleared rows in a later one.                                  *)
(*                                                                         *)
(* All rows share one date; a category is present or absent; of a payee    *)
(* it is kept whether there is one and which account it names.             *)
(***************************************************************************)
EXTENDS Integers, Sequences, FiniteSets, FiniteSetsExt, BankPosting

CONSTANTS Accounts, OnBudget,
          Shop,          \* a payee that names no account
          Amounts,       \* what a person or the bank may enter
          Parts,         \* what the first line of a split may be
          BankIds,       \* the bank's ids of its records
          Books          \* [rows, vouched, steps]: the ledgers a run starts from

ASSUME LedgerAssumption ==
    /\ OnBudget \subseteq Accounts
    /\ None \notin Accounts \cup BankIds \cup Int
    /\ Shop \notin Accounts /\ Shop # None
    /\ Amounts \cup Parts \subseteq Int /\ 0 \notin Amounts

VARIABLES rows,      \* the transactions table, in order of creation
          reading,   \* finish's cleared balance, read and not yet used, or None
          vouched,   \* account -> the statement balance its locked rows agree with
          strayed,   \* rows whose category a known unguarded write has placed
          steps      \* the operations a run may still make

vars == <<rows, reading, vouched, strayed, steps>>

Row(account, amount, cleared) ==
    [live |-> TRUE, account |-> account, amount |-> amount, cleared |-> cleared,
     category |-> FALSE, payee |-> Shop, partner |-> None, parent |-> None,
     split |-> FALSE, sync |-> None, bank |-> None]

Init ==
    \E book \in Books :
        /\ rows = book.rows /\ vouched = book.vouched /\ steps = book.steps
        /\ reading = None
        /\ strayed = {}

-----------------------------------------------------------------------------
(* The rows and the rules they answer to. `R` is a table of rows. *)

Live(R) == {i \in DOMAIN R : R[i].live}
Lines(R, parent) == {i \in DOMAIN R : R[i].live /\ R[i].parent = parent}
Tops(R, a) == {i \in DOMAIN R : R[i].live /\ R[i].parent = None /\ R[i].account = a}
Total(R, S) ==
    LET upTo[n \in 0..Len(R)] ==
            IF n = 0 THEN 0 ELSE upTo[n - 1] + IF n \in S THEN R[n].amount ELSE 0
    IN  upTo[Len(R)]

\* leg_may_carry_category: a plain row is a leg with no partner.
MayCarry(own, other) == own \in OnBudget /\ other \notin OnBudget
Named(payee) == IF payee \in Accounts THEN payee ELSE None
Fileable(account, payee) == MayCarry(account, Named(payee))

\* PAIRABLE_LEG, and the rows of an account that could be a missing side.
Pairable(R) ==
    {i \in DOMAIN R : /\ R[i].live /\ ~R[i].split
                       /\ R[i].parent = None /\ R[i].partner = None}
Candidates(R, account, amount) ==
    {i \in Pairable(R) : R[i].account = account /\ R[i].amount = amount}
PointingBack(R, S, account) == {i \in S : R[i].payee = account}

\* transfer_link_fields on both legs, dropping what the rule forbids.
Joined(R, i, j) ==
    LET leg(k, other) ==
            [R[k] EXCEPT !.partner = other, !.payee = R[other].account]
    IN  [R EXCEPT ![i] = leg(i, j), ![j] = leg(j, i)]
Uncategorized(R, S) == [k \in DOMAIN R |-> [R[k] EXCEPT !.category = @ /\ k \notin S]]
Forbidden(R, i, j) ==
    {k \in {i, j} : R[k].category
                    /\ ~MayCarry(R[k].account, R[IF k = i THEN j ELSE i].account)}
Unlive(R, S) == [k \in DOMAIN R |-> [R[k] EXCEPT !.live = @ /\ k \notin S]]

-----------------------------------------------------------------------------
(* One request's effect: the table it leaves, and the rows it may have      *)
(* left with a category no guard looked at.                                 *)

Write(R, stray) ==
    /\ steps' = steps - 1
    /\ rows' = R
    /\ strayed' = strayed \cup stray
    /\ UNCHANGED <<reading, vouched>>

Create(account, amount, cleared, category, payee) ==
    /\ category => Fileable(account, payee)
    /\ Write(Append(rows, [Row(account, amount, cleared)
                            EXCEPT !.category = category, !.payee = payee]), {})

\* _create_transfer: the source leg as asked, the far leg uncleared.
CreateTransfer(from, to, amount, cleared, category) ==
    LET source == Len(rows) + 1
        dest == Len(rows) + 2
        leg(account, signed, mark, other, partner) ==
            [Row(account, signed, mark)
              EXCEPT !.category = category /\ MayCarry(account, other),
                     !.payee = other, !.partner = partner]
    IN  /\ category => MayCarry(from, to) \/ MayCarry(to, from)
        /\ Write(rows \o <<leg(from, -amount, cleared, to, dest),
                           leg(to, amount, "uncleared", from, source)>>, {})

-----------------------------------------------------------------------------
(* Splits. A line is [id, amount, category]: an existing line to rewrite,   *)
(* or None for a new one.                                                   *)

Balanced(amount, lines) ==
    lines # <<>> /\ Total(lines, DOMAIN lines) = amount
CheckLegs(R, parent, lines) ==
    /\ Balanced(R[parent].amount, lines)
    /\ \A n \in DOMAIN lines :
          /\ lines[n].category => MayCarry(R[parent].account, None)
          /\ lines[n].id \in {None} \cup Lines(R, parent)

\* The lines with no id, in their order, as rows of the table.
NewLines(R, parent, lines) ==
    LET new == {n \in DOMAIN lines : lines[n].id = None}
        nth(k) == CHOOSE n \in new : Cardinality({m \in new : m <= n}) = k
    IN  [k \in 1..Cardinality(new) |->
            [Row(R[parent].account, lines[nth(k)].amount, R[parent].cleared)
              EXCEPT !.category = lines[nth(k)].category, !.parent = parent]]

\* Mutant of WithLines: the lines not named are left alive.
WithMoreLines(R, parent, lines) == R \o NewLines(R, parent, lines)

\* _apply_split_legs: rewrite the named lines, drop the rest, add the new.
WithLines(R, parent, lines) ==
    LET kept == {lines[n].id : n \in DOMAIN lines}
        named(i) == CHOOSE n \in DOMAIN lines : lines[n].id = i
        rewritten == [i \in DOMAIN R |->
                        IF i \in Lines(R, parent) /\ i \in kept
                        THEN [R[i] EXCEPT !.amount = lines[named(i)].amount,
                                          !.category = lines[named(i)].category]
                        ELSE R[i]]
    IN  Unlive(rewritten, Lines(R, parent) \ kept) \o NewLines(R, parent, lines)

AsSplit(R, i) == [R EXCEPT ![i].split = TRUE, ![i].category = FALSE]

\* _collapse: a split of one line is a row filed where the line says.
Collapsed(R, i, line) ==
    [Unlive(R, Lines(R, i)) EXCEPT ![i].split = FALSE, ![i].category = line.category]

CreateSplit(account, amount, cleared, lines) ==
    LET parent == Len(rows) + 1
        header == Append(rows, Row(account, amount, cleared))
    IN  /\ Len(lines) > 1
        /\ CheckLegs(header, parent, lines)
        /\ Write(WithLines(AsSplit(header, parent), parent, lines), {})

\* Mutant of SplitRow: a transfer leg may be split too.
SplitAnyRow(i, lines) ==
    /\ rows[i].live /\ rows[i].parent = None
    /\ CheckLegs(rows, i, lines) /\ Len(lines) > 1
    /\ Write(WithLines(AsSplit(rows, i), i, lines), {})

\* convert_to_split, then replace_splits: the same lines on a plain row or
\* on a split.
SplitRow(i, lines) ==
    /\ rows[i].live /\ rows[i].parent = None
    /\ ~rows[i].split => rows[i].partner = None
    /\ CheckLegs(rows, i, lines)
    /\ IF Len(lines) = 1
       THEN Write(Collapsed(rows, i, lines[1]),
                  IF rows[i].payee \in Accounts THEN {i} ELSE {})
       ELSE Write(WithLines(AsSplit(rows, i), i, lines),
                  {j \in Lines(rows, i) : rows[j].payee \in Accounts})

-----------------------------------------------------------------------------
(* update: the fields of `edit` on row i, what it does to the partner and   *)
(* to the lines.                                                            *)

With(row, edit) ==
    [field \in DOMAIN row |-> IF field \in DOMAIN edit THEN edit[field] ELSE row[field]]
Moves(i, edit) == "account" \in DOMAIN edit /\ edit.account # rows[i].account

\* Reconciled money does not move; lines take their parent's.
EditUnlocked(i, edit) ==
    LET old == rows[i]
        new == With(old, edit)
    IN  /\ old.cleared = "reconciled" =>
              /\ new.amount = old.amount /\ new.cleared = old.cleared
              /\ new.account = old.account
        /\ old.parent # None => DOMAIN edit \cap {"amount", "cleared", "account"} = {}
        /\ old.split => "amount" \notin DOMAIN edit /\ ~new.category

\* Where the edit's result leaves the category.
EditFiles(i, edit) ==
    LET new == With(rows[i], edit)
        partner == rows[i].partner
    IN  IF partner = None
        THEN (new.category /\ (Moves(i, edit) \/ DOMAIN edit \cap {"category", "payee"} # {}))
                => Fileable(new.account, new.payee)
        ELSE ("category" \in DOMAIN edit /\ new.category)
                => MayCarry(new.account, rows[partner].account)

\* The pair is guarded as a unit (domain/account_move.py for the move).
EditKeepsPair(i, edit) ==
    LET old == rows[i]
        new == With(old, edit)
    IN  /\ Moves(i, edit) => old.sync = None
        /\ old.partner # None =>
              /\ "payee" \notin DOMAIN edit
              /\ "amount" \in DOMAIN edit =>
                    /\ rows[old.partner].cleared # "reconciled"
                    /\ (new.amount >= 0) = (old.amount >= 0)
              /\ Moves(i, edit) => rows[old.partner].account # new.account

Edited(i, edit) ==
    LET old == rows[i]
        new == With(old, edit)
    IN  [j \in DOMAIN rows |->
            CASE j = i -> new
              [] j # i /\ j = old.partner ->
                    [rows[j] EXCEPT !.amount = IF "amount" \in DOMAIN edit THEN -new.amount ELSE @,
                                    !.payee = IF Moves(i, edit) THEN new.account ELSE @]
              [] old.split /\ j \in Lines(rows, i) ->
                    [rows[j] EXCEPT !.cleared = IF "cleared" \in DOMAIN edit
                                                   /\ old.cleared # "reconciled"
                                                THEN new.cleared ELSE @,
                                    !.account = new.account]
              [] OTHER -> rows[j]]

Update(i, edit) ==
    /\ rows[i].live
    /\ EditUnlocked(i, edit) /\ EditFiles(i, edit) /\ EditKeepsPair(i, edit)
    /\ Write(Edited(i, edit),
             IF Moves(i, edit) /\ (rows[i].split \/ rows[i].partner # None)
             THEN {i, rows[i].partner} \cup Lines(rows, i)
             ELSE {})

-----------------------------------------------------------------------------
(* update with a transfer account: _plan_transfer_edit and                  *)
(* _apply_transfer_edit. `category` is the category the row ends up with.   *)

Filed(i, category) == [rows EXCEPT ![i].category = category]
MayRelink(i) ==
    /\ rows[i].live /\ ~rows[i].split /\ rows[i].parent = None
MayEnd(i, category) ==      \* update's own check, before the plan
    (category /\ ~rows[i].category /\ rows[i].partner = None)
        => Fileable(rows[i].account, rows[i].payee)

Break(i, category) ==
    LET partner == rows[i].partner
    IN  /\ MayRelink(i) /\ partner # None
        /\ rows[partner].cleared # "reconciled"
        /\ Write([Filed(i, category) EXCEPT ![i].partner = None, ![partner].partner = None],
                 IF category = rows[i].category THEN {} ELSE {i})

Unmark(i, category) ==
    /\ MayRelink(i) /\ rows[i].partner = None /\ rows[i].payee \in Accounts
    /\ MayEnd(i, category)
    /\ Write([Filed(i, category) EXCEPT ![i].payee = None], {})

PlanTo(i, target, category) ==
    /\ MayRelink(i) /\ MayEnd(i, category)
    /\ target # rows[i].account
    /\ category => MayCarry(rows[i].account, target)

Retarget(i, target, category) ==
    LET partner == rows[i].partner
    IN  /\ PlanTo(i, target, category)
        /\ partner # None
        /\ rows[partner].account # target
        /\ rows[partner].cleared # "reconciled"
        /\ Write([Filed(i, category) EXCEPT ![i].payee = target,
                                            ![partner].account = target,
                                            ![partner].payee = rows[i].account],
                 {partner})

Link(i, target, category, partner) ==
    /\ PlanTo(i, target, category) /\ rows[i].partner = None
    /\ partner \in Candidates(rows, target, -rows[i].amount) \ {i}
    /\ Write(Joined(Filed(i, category), i, partner), {partner})

\* The only row pointing back is linked unasked; with several, or with plain
\* rows that could be the other side, the person must confirm a new leg.
CreateFarLeg(i, target, category, confirmed) ==
    LET plain == Candidates(rows, target, -rows[i].amount)
        back == PointingBack(rows, plain, rows[i].account)
        far == [Row(target, -rows[i].amount, "uncleared")
                 EXCEPT !.payee = rows[i].account, !.partner = i]
    IN  /\ PlanTo(i, target, category) /\ rows[i].partner = None
        /\ Cardinality(back) # 1
        /\ ~confirmed => plain = {}
        /\ Write(Append([Filed(i, category) EXCEPT ![i].payee = target,
                                                   ![i].partner = Len(rows) + 1], far), {})

-----------------------------------------------------------------------------
\* Mutant of Delete: the other leg stays.
DeleteAlone(i) ==
    /\ rows[i].live /\ rows[i].cleared # "reconciled" /\ rows[i].parent = None
    /\ Write(Unlive(rows, {i} \cup Lines(rows, i)), {})

Delete(i) ==
    LET partner == rows[i].partner
    IN  /\ rows[i].live
        /\ rows[i].cleared # "reconciled" /\ rows[i].parent = None
        /\ partner # None => rows[partner].cleared # "reconciled"
        /\ Write(Unlive(rows, {i, partner} \cup Lines(rows, i)), {})

\* On a line it is the line alone that unlocks.
Unreconcile(i) ==
    /\ rows[i].live /\ rows[i].cleared = "reconciled"
    /\ steps' = steps - 1
    /\ rows' = [j \in DOMAIN rows |->
                  IF j = i \/ (rows[i].split /\ j \in Lines(rows, i))
                  THEN [rows[j] EXCEPT !.cleared = "cleared"] ELSE rows[j]]
    /\ vouched' = [vouched EXCEPT ![rows[i].account] = None]
    /\ strayed' = strayed \cup (IF rows[i].parent = None THEN {} ELSE {i})
    /\ UNCHANGED reading

\* apply_bank_posting, from the sync: the lines follow the parent.
BankTakes(R, i, feed) ==
    LET new == AfterPosting(R[i], feed)
    IN  [j \in DOMAIN R |->
            CASE j = i -> new
              [] R[i].cleared # new.cleared /\ j \in Lines(R, i) ->
                    [R[j] EXCEPT !.cleared = new.cleared]
              [] OTHER -> R[j]]

Unclaimed(id, account) ==
    \A j \in Live(rows) : rows[j].account = account => rows[j].sync # id

ApplyBankPosting(i, feed) ==
    /\ rows[i].live /\ rows[i].parent = None
    /\ rows[i].sync = feed.sync \/ (rows[i].sync = None /\ Unclaimed(feed.sync, rows[i].account))
    /\ ~NeedsReview(rows[i], feed, FALSE)
    /\ Write(BankTakes(rows, i, feed), {})

\* pair_legs: each the other's only opposite on another account, and no
\* category to clear but the guess on the row this sync created.
Opposites(R, legs, i) ==
    {j \in legs : R[j].account # R[i].account /\ R[j].amount = -R[i].amount}
ConfidentPairs(R, guesses) ==
    LET legs == Pairable(R)
    IN  {pair \in legs \X legs :
            /\ R[pair[1]].amount < 0
            /\ Opposites(R, legs, pair[1]) = {pair[2]}
            /\ Opposites(R, legs, pair[2]) = {pair[1]}
            /\ Forbidden(R, pair[1], pair[2]) \subseteq guesses}
\* Mutant of LinkLegs: the categories stay.
LinkOnly(R, pair) == Joined(R, pair[1], pair[2])
LinkLegs(R, pair) ==
    Uncategorized(Joined(R, pair[1], pair[2]), Forbidden(R, pair[1], pair[2]))
\* Every pair linked; a row is in one of them at most.
LinkAll(R, pairs) ==
    [k \in DOMAIN R |->
        IF \E pair \in pairs : k \in {pair[1], pair[2]}
        THEN LinkLegs(R, CHOOSE pair \in pairs : k \in {pair[1], pair[2]})[k]
        ELSE R[k]]

\* A sync: one new bank row, filed by what its payee last used, then the
\* pairing over every row of the window.
SyncRow(account, amount, cleared, category, id) ==
    LET fresh == Len(rows) + 1
        created == Append(rows, [Row(account, amount, cleared)
                                  EXCEPT !.category = category, !.sync = id, !.bank = amount])
    IN  /\ Unclaimed(id, account)
        /\ category => MayCarry(account, None)
        /\ Write(LinkAll(created, ConfidentPairs(created, {fresh})), {})

\* The hygiene page's repairs.
MutualLegs(R) ==
    LET options(i) == PointingBack(R, Candidates(R, R[i].payee, -R[i].amount), R[i].account) \ {i}
        legs == {i \in Pairable(R) : R[i].payee \in Accounts}
    IN  {pair \in legs \X legs :
            /\ pair[1] < pair[2]
            /\ options(pair[1]) = {pair[2]} /\ options(pair[2]) = {pair[1]}
            /\ ~(R[pair[1]].category /\ R[pair[2]].category)}
RepairTransfers ==
    LET pairs == {p \in MutualLegs(rows) : Forbidden(rows, p[1], p[2]) = {}}
    IN  /\ pairs # {}
        /\ Write(LinkAll(rows, pairs), {})

RepairTracking ==
    LET wrong == {i \in Live(rows) : /\ ~rows[i].split /\ rows[i].category
                                     /\ rows[i].account \notin OnBudget}
    IN  /\ wrong # {}
        /\ Write(Uncategorized(rows, wrong), {})

-----------------------------------------------------------------------------
(* merge (domain/merging.py). *)

Reconciled(i) == rows[i].cleared = "reconciled"
BankSourced(i) == rows[i].sync # None

\* Mutant of Survivor: structure before the statement.
StructureSurvives(i, j, asked) ==
    LET kept == {k \in {i, j} : Structured(rows[k])}
    IN  IF Cardinality(kept) = 1 THEN CHOOSE k \in kept : TRUE ELSE Min({i, j})

\* choose_survivor: the first test that tells the two rows apart.
Survivor(i, j, asked) ==
    LET only(P(_)) == P(i) # P(j)
        one(P(_)) == IF P(i) THEN i ELSE j
        structured(k) == Structured(rows[k])
        typed(k) == ~BankSourced(k)
    IN  IF only(Reconciled) THEN one(Reconciled)
        ELSE IF only(structured) THEN one(structured)
        ELSE IF asked # None THEN asked
        ELSE IF only(typed) THEN one(typed)
        ELSE Min({i, j})

\* survivor_violation = None
MayMerge(kept, lost, asked) ==
    /\ kept # lost
    /\ rows[kept].live /\ rows[lost].live
    /\ rows[kept].account = rows[lost].account
    /\ ~(Reconciled(kept) /\ Reconciled(lost))
    /\ rows[kept].parent = None /\ rows[lost].parent = None
    /\ asked \in {None, kept}
    /\ ~(rows[lost].split /\ Structured(rows[kept]))
    /\ ~(BankSourced(kept) /\ BankSourced(lost) /\ rows[kept].sync # rows[lost].sync)

\* _merge_updates raises nothing.
AmountsAgree(kept, lost) ==
    IF BankSourced(lost)
    THEN /\ ~NeedsReview(rows[kept], AsFeed(rows[lost]), TRUE)
         /\ rows[lost].split =>
               AfterPosting(rows[kept], AsFeed(rows[lost])).amount = rows[lost].amount
    ELSE rows[kept].amount = rows[lost].amount

Survived(kept, lost) ==
    LET own == rows[kept]
        base == IF BankSourced(lost) THEN AfterPosting(own, AsFeed(rows[lost])) ELSE own
    IN  [base EXCEPT
            !.split = @ \/ rows[lost].split,
            !.category = /\ ~rows[lost].split
                         /\ @ \/ (own.partner = None /\ ~own.split /\ rows[lost].category),
            !.payee = IF own.partner = None /\ @ = None THEN rows[lost].payee ELSE @]

\* _write_merge: the loser goes, the survivor is rewritten, its own lines and
\* the ones it adopts take its cleared state.
Absorbed(R, kept, lost) ==
    LET new == Survived(kept, lost)
    IN  [j \in DOMAIN R |->
            CASE j = kept -> new
              [] j = lost -> [R[j] EXCEPT !.live = FALSE]
              [] \/ j \in Lines(R, lost)
                 \/ j \in Lines(R, kept) /\ R[kept].cleared # new.cleared ->
                    [R[j] EXCEPT !.parent = kept, !.cleared = new.cleared]
              [] OTHER -> R[j]]

\* _relink_merged_leg
Relinked(R, kept, partner) ==
    IF R[kept].partner = partner THEN R ELSE LinkLegs(R, <<kept, partner>>)

Merge(i, j, asked) ==
    LET kept == Survivor(i, j, asked)
        lost == IF kept = i THEN j ELSE i
        theirs == rows[lost].partner
        ours == rows[kept].partner
        filed == IF Survived(kept, lost).category # rows[kept].category
                    \/ Survived(kept, lost).payee # rows[kept].payee
                 THEN {kept} ELSE {}
        merged == Absorbed(rows, kept, lost)
    IN  /\ MayMerge(kept, lost, asked) /\ AmountsAgree(kept, lost)
        /\ \/ /\ theirs = None
              /\ Write(merged, filed)
           \/ /\ theirs # None /\ ours = None           \* the transfer is adopted
              /\ ~rows[kept].split
              /\ merged[kept].amount = -rows[theirs].amount
              /\ Write(Relinked(merged, kept, theirs), {})
           \/ /\ theirs # None /\ ours # None           \* the far legs merge too
              /\ rows[ours].account = rows[theirs].account
              /\ rows[ours].amount = rows[theirs].amount
              /\ LET farKept == Survivor(ours, theirs, None)
                     farLost == IF farKept = ours THEN theirs ELSE ours
                 IN  /\ MayMerge(farKept, farLost, None) /\ AmountsAgree(farKept, farLost)
                     /\ Write(Relinked(Absorbed(merged, farKept, farLost), kept, farKept), {})

-----------------------------------------------------------------------------
(* Reconciliation. *)

Cleared(R, a) == {i \in Tops(R, a) : R[i].cleared \in {"cleared", "reconciled"}}

\* get_status inside finish: the balance the adjustment will be measured by.
BeginFinish(account) ==
    /\ reading = None
    /\ reading' = [account |-> account, balance |-> Total(rows, Cleared(rows, account))]
    /\ UNCHANGED <<rows, vouched, strayed, steps>>

\* The adjustment, then the lock, by a query of its own.
Finish(statement) ==
    LET account == reading.account
        difference == statement - reading.balance
        adjusted == IF difference = 0 THEN rows
                    ELSE Append(rows, Row(account, difference, "cleared"))
        raced == Total(rows, Cleared(rows, account)) # reading.balance
    IN  /\ reading # None
        /\ rows' = [i \in DOMAIN adjusted |->
                      IF /\ adjusted[i].live /\ adjusted[i].account = account
                         /\ adjusted[i].cleared = "cleared"
                      THEN [adjusted[i] EXCEPT !.cleared = "reconciled"]
                      ELSE adjusted[i]]
        /\ vouched' = [vouched EXCEPT ![account] = IF raced THEN None ELSE statement]
        /\ reading' = None
        /\ steps' = steps - 1
        /\ UNCHANGED strayed

-----------------------------------------------------------------------------
(* The inputs: fields of an edit, lines of a split. *)

Marks == {"uncleared", "cleared"}
Payees == Accounts \cup {Shop}
Edits == [{"amount"} -> Amounts] \cup [{"cleared"} -> Marks]
         \cup [{"category"} -> BOOLEAN] \cup [{"account"} -> Accounts]
         \cup [{"payee"} -> Payees]
         \cup {[account |-> a, category |-> c] : a \in Accounts, c \in BOOLEAN}
Line(id, amount, category) == [id |-> id, amount |-> amount, category |-> category]
OneLine(amount) == {<<Line(None, amount, c)>> : c \in BOOLEAN}
TwoLines(amount, ids) ==
    {<<Line(id, part, c), Line(None, amount - part, FALSE)>> :
        id \in ids \cup {None}, part \in Parts, c \in BOOLEAN}

More == steps > 0
Enter ==
    More /\ \E a \in Accounts, x \in Amounts, c \in BOOLEAN :
        \/ \E p \in Payees : Create(a, x, "cleared", c, p)
        \/ \E to \in Accounts : x > 0 /\ CreateTransfer(a, to, x, "cleared", c)
        \/ \E lines \in TwoLines(x, {}) : CreateSplit(a, x, "cleared", lines)
Split ==
    More /\ \E i \in DOMAIN rows :
        \E lines \in OneLine(rows[i].amount) \cup TwoLines(rows[i].amount, Lines(rows, i)) :
            SplitRow(i, lines)
EditRow == More /\ \E i \in DOMAIN rows, edit \in Edits : Update(i, edit)
EditTransfer ==
    More /\ \E i \in DOMAIN rows, c \in BOOLEAN :
        \/ Break(i, c)
        \/ Unmark(i, c)
        \/ \E to \in Accounts :
              \/ Retarget(i, to, c)
              \/ \E j \in DOMAIN rows : Link(i, to, c, j)
              \/ \E confirmed \in BOOLEAN : CreateFarLeg(i, to, c, confirmed)
DeleteRow == More /\ \E i \in DOMAIN rows : Delete(i)
Unlock == More /\ \E i \in DOMAIN rows : Unreconcile(i)
BankRecord ==
    More /\ \E x \in Amounts, id \in BankIds :
        \/ \E i \in DOMAIN rows, posted \in BOOLEAN :
              ApplyBankPosting(i, [amount |-> x, posted |-> posted, sync |-> id])
        \/ \E a \in Accounts, m \in {"cleared", "pending"}, c \in BOOLEAN :
              SyncRow(a, x, m, c, id)
Repair == More /\ (RepairTransfers \/ RepairTracking)
MergeRows ==
    More /\ \E i, j \in DOMAIN rows :
        \E asked \in IF i < j THEN {None, i} ELSE {i} : Merge(i, j, asked)
Reconcile ==
    /\ More
    /\ \/ \E a \in Accounts : BeginFinish(a)
       \/ \E x \in Amounts : Finish(x)

Next ==
    \/ Enter \/ Split \/ EditRow \/ EditTransfer \/ DeleteRow \/ Unlock
    \/ BankRecord \/ Repair
    \/ MergeRows \/ Reconcile

Spec == Init /\ [][Next]_vars

-----------------------------------------------------------------------------
(* The shape of a row: a line is neither split nor a leg, a split is no leg, *)
(* and a row's links name rows of the table.                                 *)
RowType ==
    [live : BOOLEAN, account : Accounts, amount : Int,
     cleared : {"pending", "uncleared", "cleared", "reconciled"},
     category : BOOLEAN, payee : Accounts \cup {Shop, None},
     partner : Nat \cup {None}, parent : Nat \cup {None}, split : BOOLEAN,
     sync : BankIds \cup {None}, bank : Int \cup {None}]
Formed(R) ==
    /\ R \in Seq(RowType)
    /\ \A i \in DOMAIN R :
          /\ {R[i].partner, R[i].parent} \subseteq DOMAIN R \cup {None}
          /\ R[i].live /\ R[i].parent # None => ~Structured(R[i])
          /\ R[i].live => ~(R[i].split /\ R[i].partner # None)
TypeOK ==
    /\ Formed(rows)
    /\ strayed \subseteq DOMAIN rows \cup {None}
    /\ vouched \in [Accounts -> Int \cup {None}]
    /\ reading # None => reading \in [account : Accounts, balance : Int]

(* Split integrity (tests/integration/invariants.py): a live split carries   *)
(* no category and has live lines that add up to it, in its account and of   *)
(* its cleared state; and no line outlives its parent. Lines unlocked on     *)
(* their own are excepted (`strayed`).                                       *)
Whole(R, i, loose) ==
    /\ ~R[i].category /\ Lines(R, i) # {}
    /\ Total(R, Lines(R, i)) = R[i].amount
    /\ \A j \in Lines(R, i) :
          /\ R[j].account = R[i].account
          /\ R[j].cleared = R[i].cleared \/ j \in loose
SplitsWhole(R, loose) ==
    \A i \in Live(R) :
        /\ R[i].split => Whole(R, i, loose)
        /\ R[i].parent # None => R[R[i].parent].live /\ R[R[i].parent].split
SplitIntegrity == SplitsWhole(rows, strayed)

(* Transfer integrity (tests/integration/invariants.py): the two legs of a   *)
(* transfer are live, name each other and sum to zero, through every edit,   *)
(* deletion, repair, sync and merge.                                         *)
Paired(R, i, partner) ==
    /\ R[partner].live
    /\ R[partner].partner = i
    /\ R[i].amount + R[partner].amount = 0
    /\ R[i].payee = R[partner].account
LegsPaired(R) == \A i \in Live(R) : R[i].partner # None => Paired(R, i, R[i].partner)
TransferIntegrity == LegsPaired(rows)

(* Where a category may sit (domain/transfers.py): an on-budget row, and of  *)
(* a leg, linked or named by its payee, only one whose other account is off  *)
(* budget.                                                                   *)
Placed(R, i) ==
    R[i].category =>
        MayCarry(R[i].account, IF R[i].partner # None THEN R[R[i].partner].account
                               ELSE Named(R[i].payee))
CategoryPlacement == \A i \in Live(rows) : Placed(rows, i)

(* The same, but for the rows a write without the check has touched: no      *)
(* creation, edit of one row, sync, merge of transfers or repair places a    *)
(* category where the rule forbids it.                                       *)
FiledRight(R, loose) == \A i \in Live(R) \ loose : Placed(R, i)
GuardedPlacement == FiledRight(rows, strayed)

(* Finishing a reconciliation promises that the locked rows agree with the   *)
(* statement; until a row is unlocked nothing the register, the bank or a    *)
(* merge does may move that sum. A finish whose reading went stale before    *)
(* the lock vouches for nothing.                                             *)
Locked(R, a) == {i \in Tops(R, a) : R[i].cleared = "reconciled"}
Agrees(R, statements) ==
    \A a \in Accounts : statements[a] # None => Total(R, Locked(R, a)) = statements[a]
StatementHolds == Agrees(rows, vouched)

-----------------------------------------------------------------------------
(* A run starts from ledgers the operations could have left, the empty one   *)
(* among them: every rule holds of their rows, and no amount is zero but a   *)
(* line's.                                                                   *)
NoZeros(R) ==
    \A i \in DOMAIN R : R[i].bank # 0 /\ (R[i].parent = None => R[i].amount # 0)
Kept(R, statements) ==
    /\ Formed(R) /\ SplitsWhole(R, {}) /\ LegsPaired(R) /\ FiledRight(R, {})
    /\ Agrees(R, statements) /\ NoZeros(R)
ASSUME BooksAssumption ==
    \A book \in Books :
        /\ book.vouched \in [Accounts -> Int \cup {None}]
        /\ Kept(book.rows, book.vouched)
=============================================================================
