-------------------------- MODULE MCSnapshotCache --------------------------
(* Small instances of SnapshotCache for TLC.                               *)
EXTENDS SnapshotCache, TLC

Symmetry == Permutations(Txs)
=============================================================================
