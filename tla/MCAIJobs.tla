------------------------------ MODULE MCAIJobs ------------------------------
(* Small instances of AIJobs for TLC: the photo each receipt carries.       *)
EXTENDS AIJobs

MCPhoto == [j \in Receipts |-> j]           \* every receipt its own photo
=============================================================================
