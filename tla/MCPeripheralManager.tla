------------------------ MODULE MCPeripheralManager ------------------------
(* Small instances of PeripheralManager for TLC.                           *)
EXTENDS PeripheralManager, TLC

CONSTANTS u1, u2

Symmetry == Permutations(Uuids)

=============================================================================
