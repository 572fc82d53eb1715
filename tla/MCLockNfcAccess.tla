-------------------------- MODULE MCLockNfcAccess --------------------------
(* Small instances of LockNfcAccess for TLC.                               *)
EXTENDS LockNfcAccess, TLC

CONSTANTS i1, i2, i3, c1, c2, r1

=============================================================================
