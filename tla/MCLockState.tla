----------------------------- MODULE MCLockState -----------------------------
(* Small instances of LockState for TLC.                                   *)
EXTENDS LockState, TLC

=============================================================================
