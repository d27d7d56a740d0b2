----------------------------- MODULE MCBankSync -----------------------------
EXTENDS BankSync

CONSTANTS Grocer, Cafe

MCPurchases == 1..3
MCDays == {0, 1, 4, 9}
Quiet == [p \in MCPurchases |-> Unsaid]
Said(amount, posted, day) ==
    [state |-> "reported", version |-> 1, amount |-> amount, posted |-> posted, day |-> day]
Bought(amount, payee) == [amount |-> amount, payee |-> payee]
\* Two cups of coffee at one cafe and groceries of the same price.
Alike == <<Bought(5, Cafe), Bought(5, Cafe), Bought(5, Grocer)>>
Scenario(said, R, M, day, n) ==
    [purchases |-> Alike, bank |-> said, rows |-> R, matches |-> M, today |-> day,
     stamp |-> IF R = <<>> THEN None ELSE day, steps |-> n]
Typed(p, day, payee) == [Row(5, day, "uncleared", payee) EXCEPT !.of = p]
Record(p, posted, day) ==
    [sync |-> <<p, 1>>, amount |-> 5, posted |-> posted, day |-> day,
     payee |-> Alike[p].payee, of |-> p]
FromBank(p, posted, day) == Imported(Record(p, posted, day))
Linked(p, posted, day) == Posting(Typed(p, day, OwnName), Record(p, posted, day))
Locked(row) == [row EXCEPT !.cleared = "reconciled"]
Lost(row) == Gone(row, "merged")

CONSTANT MCSteps
Fresh == Scenario(Quiet, <<>>, {}, 0, MCSteps)
\* A typed row merged with the hold the bank still reports.
Merging ==
    Scenario(<<Said(5, FALSE, 0), Unsaid, Unsaid>>,
             <<Linked(1, FALSE, 0), Lost(FromBank(1, FALSE, 0))>>,
             {Match(2, 1, "accepted")}, 0, MCSteps - 1)
\* Two locked postings, and a typed row the bank has not reported.
Postings ==
    Scenario(<<Said(5, TRUE, 0), Said(5, TRUE, 1), Unsaid>>,
             <<Locked(FromBank(1, TRUE, 0)), Locked(FromBank(2, TRUE, 1)), Typed(3, 1, OwnName)>>,
             {}, 1, MCSteps - 1)
\* Holds on both edges of the window, one imported and one linked.
Edges ==
    Scenario(<<Said(5, FALSE, 4), Said(5, FALSE, 9), Said(5, TRUE, 4)>>,
             <<FromBank(1, FALSE, 4), Linked(2, FALSE, 9), FromBank(3, TRUE, 4)>>,
             {}, 9, MCSteps - 1)
\* A posting whose pair with a typed row waits in the queue.
Waiting ==
    Scenario(<<Said(5, TRUE, 0), Unsaid, Unsaid>>,
             <<Typed(1, 0, OwnName), FromBank(1, TRUE, 0)>>,
             {Match(2, 1, "pending")}, 0, MCSteps - 1)
\* Three cups: the first was linked to a hold the bank has left out, the
\* second was typed for what the bank now posts, the third is news.
Cups ==
    [Scenario([Quiet EXCEPT ![1] = [Said(5, FALSE, 1) EXCEPT !.state = "omitted"],
                            ![2] = Said(6, TRUE, 1), ![3] = Said(6, TRUE, 9)],
              <<Linked(1, FALSE, 1), [Typed(2, 0, Cafe) EXCEPT !.amount = 6]>>,
              {}, 9, MCSteps - 2)
       EXCEPT !.purchases = <<Bought(5, Cafe), Bought(6, Cafe), Bought(6, Cafe)>>, !.stamp = 1]
\* Two cups of one price and day ticked off: a typed one, and one linked to a
\* hold.
Ticked(row) == [row EXCEPT !.cleared = "cleared"]
Ahead ==
    Scenario([Quiet EXCEPT ![1] = Said(5, FALSE, 0)],
             <<Ticked(Typed(2, 0, Cafe)), Ticked(Linked(1, FALSE, 0))>>, {}, 0, MCSteps - 2)
\* A cup ticked off under its hold's id, and its posting, with a tip and under
\* a new id, as a row of its own.
Tipped ==
    Scenario([Quiet EXCEPT ![1] = [Said(6, TRUE, 0) EXCEPT !.version = 2]],
             <<Ticked(Linked(1, FALSE, 0)),
               Imported([Record(1, TRUE, 0) EXCEPT !.sync = <<1, 2>>, !.amount = 6])>>,
             {}, 0, MCSteps - 2)
MCScenarios == {Fresh, Merging, Postings, Edges, Waiting, Cups, Ahead, Tipped}
=============================================================================
