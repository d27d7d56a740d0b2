------------------------------ MODULE MCLedger ------------------------------
EXTENDS Ledger

CONSTANTS checking, savings, brokerage, b1, b2

MCAmounts == {-5, 5}
MCParts == {-3}
Fresh == [a \in {checking, savings, brokerage} |-> None]
Bank(row, id) == [row EXCEPT !.sync = id, !.bank = row.amount]
Leg(row, other, partner) == [row EXCEPT !.payee = other, !.partner = partner]
LineOf(row, parent) == [row EXCEPT !.parent = parent]

\* Two transfers for one payment: the one somebody typed, and the two bank
\* rows a sync has paired.
TwoTransfers ==
    <<Leg(Row(checking, -5, "uncleared"), savings, 2),
      Leg(Row(savings, 5, "uncleared"), checking, 1),
      Leg(Bank(Row(checking, -5, "cleared"), b1), savings, 4),
      Leg(Bank(Row(savings, 5, "cleared"), b2), checking, 3)>>
\* A receipt itemised before its bank row was reconciled.
ItemisedReceipt ==
    <<[Row(checking, -5, "uncleared") EXCEPT !.split = TRUE],
      [LineOf(Row(checking, -3, "uncleared"), 1) EXCEPT !.category = TRUE],
      LineOf(Row(checking, -2, "uncleared"), 1),
      Bank(Row(checking, -5, "reconciled"), b1)>>
\* A bank hold somebody has split.
SplitHold ==
    <<[Bank(Row(checking, -5, "pending"), b1) EXCEPT !.split = TRUE],
      LineOf(Row(checking, -3, "pending"), 1),
      LineOf(Row(checking, -2, "pending"), 1)>>
\* Plain rows on two budget accounts and a tracking account, the two broken
\* legs of a transfer between the first two among them.
PlainRows ==
    <<[Row(checking, -5, "cleared") EXCEPT !.category = TRUE],
      [Row(checking, -5, "cleared") EXCEPT !.payee = savings],
      [Row(savings, 5, "uncleared") EXCEPT !.payee = checking],
      Row(brokerage, 5, "cleared")>>
\* Money leaving the budget, filed on the leg that may carry it.
SpendingTransfer ==
    <<[Leg(Row(checking, -5, "cleared"), brokerage, 2) EXCEPT !.category = TRUE],
      Leg(Row(brokerage, 5, "uncleared"), checking, 1)>>
\* A transfer whose budget side is locked, with a bank row waiting beside
\* each leg.
LockedTransfer ==
    <<Leg(Row(checking, -5, "reconciled"), brokerage, 2),
      Leg(Row(brokerage, 5, "uncleared"), checking, 1),
      [Bank(Row(checking, -5, "cleared"), b1) EXCEPT !.category = TRUE],
      Bank(Row(brokerage, 5, "pending"), b2)>>

MCBooks ==
    {[rows |-> TwoTransfers, vouched |-> Fresh, steps |-> 2],
     [rows |-> ItemisedReceipt, vouched |-> [Fresh EXCEPT ![checking] = -5], steps |-> 2],
     [rows |-> SplitHold, vouched |-> Fresh, steps |-> 2],
     [rows |-> PlainRows, vouched |-> Fresh, steps |-> 2],
     [rows |-> SpendingTransfer, vouched |-> Fresh, steps |-> 2],
     [rows |-> LockedTransfer, vouched |-> [Fresh EXCEPT ![checking] = -5], steps |-> 2]}
MCAccounts == {checking, savings, brokerage}
MCOnBudget == {checking, savings}
MCBankIds == {b1, b2}
=============================================================================
