----------------------------- MODULE MCTokenAuth -----------------------------
(* Small instances of TokenAuth for TLC. *)
EXTENDS TokenAuth, TLC

CONSTANTS r1, r2, r3

TwoRequesters == {r1, r2}
ThreeRequesters == {r1, r2, r3}

AllFaults == FaultKinds
NoFaults == {}

\* Requesters are interchangeable: nothing orders or names them.
RequesterSymmetry == Permutations(Requesters)
=============================================================================
