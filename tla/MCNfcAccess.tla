---------------------------- MODULE MCNfcAccess ----------------------------
(* Small instances of NfcAccess for TLC.                                   *)
EXTENDS NfcAccess, TLC

CONSTANTS i1, i2, c1, c2, c3, c4, r1

\* The devices' keys are interchangeable, and so are the issuers' keys.
DeviceSymmetry == Permutations(CredentialKeys) \cup Permutations(IssuerKeys)

=============================================================================
