------------------------------ MODULE BankBook ------------------------------
(***************************************************************************)
(* What the bank sync promises about each purchase the bank reports: a run *)
(* that reaches the account leaves every purchase its window asks for in   *)
(* the register, unless a person took it out; it takes nothing out that it *)
(* asks for, and brings nothing back that a person removed.                *)
(* How the runs achieve it (bank ids, windows, matching, reviews,          *)
(* relinking) is left to BankSync.                                         *)
(*                                                                         *)
(* The promise has two exceptions. `doubled`: a merge leaves the bank id   *)
(* on the row it gives up, and a run that finds the id nowhere else takes  *)
(* that row for a person's deletion. `refused`: a purchase may stand under *)
(* the id it had before the bank changed it, and a person remove the row   *)
(* of its new id; a run that then gives the first row to another purchase  *)
(* leaves this one removed.                                                *)
(***************************************************************************)
CONSTANT Purchases

VARIABLES reported,  \* the purchases the bank reports now
          asked,     \* those of them the next run is sure to be told of
          renamed,   \* those shown under an id the bank has since changed
          doubled,   \* those whose id a merged-away row still carries
          refused,   \* those whose id a row a person removed still carries
          book       \* purchase -> "absent", "shown" or "dismissed"

vars == <<reported, asked, renamed, doubled, refused, book>>

TypeOK ==
    /\ reported \subseteq Purchases /\ asked \subseteq reported
    /\ renamed \subseteq Purchases /\ doubled \subseteq Purchases
    /\ refused \subseteq Purchases
    /\ book \in [Purchases -> {"absent", "shown", "dismissed"}]
Init == TypeOK

\* The bank's own doing: purchases appear, drop out and come back. An id it
\* changes is no longer the one a person dismissed.
Bank ==
    /\ TypeOK' /\ doubled' \subseteq doubled /\ refused' \subseteq refused
    /\ \E fresh \in SUBSET Purchases :
          book' = [p \in Purchases |->
                     IF p \in fresh /\ book[p] = "dismissed" THEN "absent" ELSE book[p]]

\* One run that reached the account.
Sync ==
    /\ UNCHANGED <<reported, refused>> /\ TypeOK' /\ renamed' \subseteq renamed
    /\ \A p \in Purchases :
          \/ book[p] # "dismissed" /\ book'[p] = "shown" /\ p \in reported
          \/ book[p] = book'[p] /\ (book[p] = "absent" => p \notin asked)
          \/ book[p] = "shown" /\ book'[p] = "dismissed" /\ p \in doubled \cup refused
          \/ book[p] = "shown" /\ p \notin asked

\* A person removes a row of a purchase, and with it the purchase unless the
\* row of an older id is left; nothing but a person does, while it is
\* reported. Merging the rows of one purchase doubles its id.
Dismiss ==
    /\ TypeOK' /\ UNCHANGED <<reported, doubled>>
    /\ \E p \in Purchases, fate \in {"absent", "dismissed", "shown"} :
        /\ book[p] = "shown" /\ book' = [book EXCEPT ![p] = fate]
        /\ fate # "dismissed" => p \in renamed
        /\ renamed' = renamed \ {p} \/ (fate = "shown" /\ renamed' = renamed)
        /\ refused' = refused \/ (fate # "absent" /\ refused' = refused \cup {p})
Merge ==
    /\ TypeOK' /\ UNCHANGED <<reported, renamed, refused, book>>
    /\ \E p \in Purchases : book[p] = "shown" /\ doubled' = doubled \cup {p}

Next == Bank \/ Sync \/ Dismiss \/ Merge
Spec == Init /\ [][Next]_vars
=============================================================================
