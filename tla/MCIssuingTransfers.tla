------------------------- MODULE MCIssuingTransfers -------------------------
(* Instances of IssuingTransfers for TLC.                                   *)
EXTENDS IssuingTransfersRefinement, TLC

CONSTANTS d1, d2, u1, u2, alice, bob, t1, t2

\* Values that the specification treats alike: sound for invariants and for
\* action properties, not used with liveness.
Symmetry == Permutations(Uuids) \cup Permutations(TransferIds)
=============================================================================
