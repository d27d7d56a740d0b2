---------------------------- MODULE BankPosting ----------------------------
(***************************************************************************)
(* What the bank's record may change on an existing row                    *)
(* (domain/bank_posting.py). The rule is pure: a row, a feed record, and   *)
(* whether the user has confirmed a changed amount. Dates, payee strings   *)
(* and descriptions are provenance no property reads; what is kept of the  *)
(* provenance is the bank's amount and the bank's id.                      *)
(***************************************************************************)
CONSTANT None       \* SQL NULL

Structured(row) == row.split \/ row.partner # None

\* The Review outcomes: a posted amount that is not the row's, on a row
\* nobody but the user may resize.
NeedsReview(row, feed, confirmed) ==
    /\ feed.posted
    /\ feed.amount # row.amount
    /\ row.cleared # "reconciled"
    /\ Structured(row) \/ (row.cleared # "pending" /\ ~confirmed)

\* The Apply outcome. A reconciled row takes the provenance alone.
AfterPosting(row, feed) ==
    LET takes == feed.posted /\ row.cleared # "reconciled"
    IN  [row EXCEPT !.bank = feed.amount,
                    !.sync = IF feed.sync # None THEN feed.sync ELSE @,
                    !.amount = IF takes THEN feed.amount ELSE @,
                    !.cleared = IF takes THEN "cleared" ELSE @]

\* A bank-sourced row standing in for the feed when it loses a merge
\* (FeedRecord.from_transaction).
AsFeed(row) ==
    [amount |-> IF row.bank # None THEN row.bank ELSE row.amount,
     posted |-> row.cleared # "pending",
     sync   |-> row.sync]
=============================================================================
