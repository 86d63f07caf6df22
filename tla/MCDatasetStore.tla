--------------------------- MODULE MCDatasetStore ---------------------------
(* Small instances of DatasetStore for TLC. *)
EXTENDS DatasetStore, TLC

CONSTANTS c1, c2

TwoClients == {c1, c2}

Everything   == {"snapshot", "delete", "export", "peek"}
ClientSymmetry == Permutations(TwoClients)
=============================================================================
