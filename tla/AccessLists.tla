---------------------------- MODULE AccessLists ----------------------------
(***************************************************************************)
(* What the NFC access lists promise to a controller of the home: every    *)
(* request takes effect at once, the credentials of an issuer go with its  *)
(* key, and each change moves the configuration state by exactly one, so   *)
(* that a controller that knows the state knows whether its copy of the    *)
(* lists is current.  Only the purge starts the state over.                *)
(*                                                                         *)
(* There are no counters, no flash and no steps in between: NfcAccess      *)
(* implements this when the power does not fail.                           *)
(***************************************************************************)
EXTENDS Integers

CONSTANTS
    IssuerKeys, CredentialKeys, ReaderKeys, NoKey, States, ConfigurationModulus

VARIABLES
    issuers,        \* the issuer keys, and whether each is a home user's
    credentials,    \* the device credentials, each with its issuer and state
    reader,         \* the reader key or NoKey
    configuration   \* the configuration state

vars == <<issuers, credentials, reader, configuration>>

Issuer == [key : IssuerKeys, homeUserKey : BOOLEAN]
Credential == [key : CredentialKeys, issuer : IssuerKeys, state : States]

Init ==
    /\ issuers = {}
    /\ credentials = {}
    /\ reader = NoKey
    /\ configuration = 0

Changed == configuration' = (configuration + 1) % ConfigurationModulus

AddIssuer(new) ==
    /\ \A old \in issuers : old.key # new.key
    /\ issuers' = issuers \cup {new}
    /\ Changed
    /\ UNCHANGED <<credentials, reader>>

\* The issuer's credentials stop being valid in the same instant.
RemoveIssuer(old) ==
    /\ issuers' = issuers \ {old}
    /\ credentials' = {c \in credentials : c.issuer # old.key}
    /\ Changed
    /\ UNCHANGED reader

\* A new credential, in the place of at most one other active credential.
AddCredential(new) ==
    /\ \E i \in issuers : i.key = new.issuer
    /\ \A old \in credentials : old.key # new.key
    /\ \/ credentials' = credentials \cup {new}
       \/ \E victim \in credentials :
             /\ new.state = "Active" /\ victim.state = "Active"
             /\ credentials' = (credentials \ {victim}) \cup {new}
    /\ Changed
    /\ UNCHANGED <<issuers, reader>>

\* The state changes, the issuer stays the one the credential was added under.
SetState(old, state) ==
    /\ old.state # state
    /\ credentials' = (credentials \ {old}) \cup {[old EXCEPT !.state = state]}
    /\ Changed
    /\ UNCHANGED <<issuers, reader>>

RemoveCredential(old) ==
    /\ credentials' = credentials \ {old}
    /\ Changed
    /\ UNCHANGED <<issuers, reader>>

\* A new reader key only where there is none; the removal of the zero key from
\* an empty slot changes nothing and is counted all the same.
SetReader(key) ==
    /\ reader = NoKey \/ key = NoKey
    /\ reader' = key
    /\ Changed
    /\ UNCHANGED <<issuers, credentials>>

Purge ==
    /\ issuers' = {}
    /\ credentials' = {}
    /\ reader' = NoKey
    /\ configuration' = 0

Next ==
    \/ \E new \in Issuer : AddIssuer(new)
    \/ \E old \in issuers : RemoveIssuer(old)
    \/ \E new \in Credential : AddCredential(new)
    \/ \E old \in credentials, state \in States : SetState(old, state)
    \/ \E old \in credentials : RemoveCredential(old)
    \/ \E key \in ReaderKeys \cup {NoKey} : SetReader(key)
    \/ Purge

Spec == Init /\ [][Next]_vars

=============================================================================
