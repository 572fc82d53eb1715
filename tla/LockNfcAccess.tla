--------------------------- MODULE LockNfcAccess ---------------------------
(***************************************************************************)
(* The NFC access lists inside the lock: the application keeps the issuer  *)
(* keys in step with the paired controllers of the home, purges the lists  *)
(* when the last one leaves, and passes on the controllers' requests.      *)
(*                                                                         *)
(* The pairings themselves are kept by the HomeKit ADK, outside this       *)
(* repository; they are modelled from the callbacks the ADK makes into     *)
(* samples/lock/src/app.c: a pairing is stored or dropped first, the       *)
(* callbacks follow, and a power loss in between loses them.  Every        *)
(* controller is taken to be an admin, so the last controller is the last  *)
(* admin.                                                                  *)
(*                                                                         *)
(* view is a copy of the lists that a controller keeps together with the   *)
(* configuration state it read them at, and the number of changes since:   *)
(* after 2^16 of them the state is back where it was.  cutShort says that  *)
(* some power loss came in the middle of a request or before a callback:   *)
(* what the flash holds then is NfcAccess's subject, and no copy of the    *)
(* lists is followed any further.                                          *)
(***************************************************************************)
EXTENDS NfcAccess, Sequences

CONSTANTS
    Controllers,    \* the long-term public keys of the controllers
    NoView          \* no copy of the lists has been made

ASSUME ControllersAssumption == Controllers \subseteq IssuerKeys

VARIABLES
    pairings,       \* the paired controllers, by key (kept by the ADK)
    toExport,       \* pairings AppCreate has still to pass to the callback
    due,            \* callbacks the ADK has still to make: <<change, key>>
    view,           \* what a controller knows of the lists
    cutShort        \* the power has failed before a request or callback was done

lockVars == <<vars, pairings, toExport, due, view, cutShort>>

\* What the List operations of the three kinds of keys show.
Contents ==
    [issuers |-> KnownIssuers,
     credentials |-> {Visible(e) : e \in credentialList.entries},
     reader |-> readerKey]

\* The firmware before this one may have paired without the lists.
LockInit ==
    /\ Init
    /\ pairings \in SUBSET Controllers
    /\ toExport = {}
    /\ due = <<>>
    /\ view = NoView
    /\ cutShort = FALSE

\* AppInitialize creates the lists, then AppCreate exports the pairings.
Start ==
    /\ Create
    /\ toExport' = pairings
    /\ UNCHANGED <<pairings, due, view>>

\* Mutant: the export stops at the first key that is there already.
ExportUntilKnown ==
    \E key \in toExport :
        /\ IssuerKeyAdd(key, "HAP_PAIRING_READ")
        /\ toExport' = IF IssuerEntries(key) = {} THEN toExport \ {key} ELSE {}
        /\ UNCHANGED <<pairings, due, view>>

\* CachePairingEnumerateCallback: the answer is only logged.
ExportPairing ==
    \E key \in toExport :
        /\ IssuerKeyAdd(key, "HAP_PAIRING_READ")
        /\ toExport' = toExport \ {key}
        /\ UNCHANGED <<pairings, due, view>>

\* The accessory is up and serves requests.
Serving == pc = "idle" /\ toExport = {} /\ due = <<>>

\* The ADK stores a new pairing.
StorePairing(key) ==
    /\ Serving
    /\ key \notin pairings
    /\ pairings' = pairings \cup {key}
    /\ due' = << <<"Paired", key>> >>
    /\ UNCHANGED <<vars, toExport, view>>

\* The ADK drops a pairing.
DropPairing(key) ==
    /\ Serving
    /\ key \in pairings
    /\ pairings' = pairings \ {key}
    /\ due' = << <<"Unpaired", key>> >> \o
                 (IF pairings = {key} THEN << <<"LastUnpaired", key>> >> ELSE <<>>)
    /\ UNCHANGED <<vars, toExport, view>>

\* The next callback is this one, and it is made now.
Callback(change, key) ==
    /\ due # <<>>
    /\ Head(due) = <<change, key>>
    /\ due' = Tail(due)
    /\ UNCHANGED <<pairings, toExport>>

\* AppHandleControllerPairingStateChange, Paired.
HandlePaired(key) ==
    /\ Callback("Paired", key)
    /\ IssuerKeyAdd(key, "HAP_PAIRING_ADD")
    /\ UNCHANGED view

\* Mutant: the removal asked for as if a controller had requested it.
RequestUnpaired(key) ==
    /\ Callback("Unpaired", key)
    /\ IssuerKeyRemove(key, "REQUEST_REMOVE")
    /\ UNCHANGED view

\* AppHandleControllerPairingStateChange, Unpaired.
HandleUnpaired(key) ==
    /\ Callback("Unpaired", key)
    /\ IssuerKeyRemove(key, "HAP_PAIRING_REMOVE")
    /\ UNCHANGED view

\* Mutant: the lists of the last home are kept.
KeepLists(key) ==
    /\ Callback("LastUnpaired", key)
    /\ pc = "idle"
    /\ view' = NoView
    /\ UNCHANGED vars

\* AppHandlePairingStateChange, Unpaired: a home that pairs later starts with
\* no copy of the lists.
HandleLastUnpaired(key) ==
    /\ Callback("LastUnpaired", key)
    /\ Purge
    /\ view' = NoView

\* AppHandleFactoryReset; the ADK has dropped the pairings.
FactoryReset ==
    /\ Serving
    /\ Purge
    /\ pairings' = {}
    /\ view' = NoView
    /\ UNCHANGED <<toExport, due>>

\* A request of a paired controller, through the NFC access control point.
ControllerRequest ==
    /\ Serving
    /\ pairings # {}
    /\ \/ \E key \in IssuerKeys : IssuerKeyAdd(key, "REQUEST_ADD")
                                  \/ IssuerKeyRemove(key, "REQUEST_REMOVE")
       \/ \E key \in CredentialKeys, issuer \in IssuerKeys, state \in States :
             DeviceCredentialKeyAdd(key, issuer, state)
       \/ \E key \in CredentialKeys : DeviceCredentialKeyRemove(key)
       \/ \E key \in ReaderKeys : ReaderKeyAdd(key)
       \/ \E key \in ReaderKeys \cup {NoKey} : ReaderKeyRemove(key)
    /\ UNCHANGED <<pairings, toExport, due, view>>

\* A controller reads the configuration state and lists all the keys.
ReadLists ==
    /\ Serving
    /\ pairings # {} /\ ~cutShort
    /\ view' = [configuration |-> configurationState, contents |-> Contents, changes |-> 0]
    /\ UNCHANGED <<vars, pairings, toExport, due>>

\* The rest of a handler.  A copy of the lists ages with each change.
FinishRequest ==
    /\ Continue
    /\ view' = IF pc = "configuration" /\ view # NoView /\ view.changes < ConfigurationModulus
               THEN [view EXCEPT !.changes = @ + 1] ELSE view
    /\ UNCHANGED <<pairings, toExport, due>>

LockPowerLoss ==
    /\ PowerLoss
    /\ toExport' = {}
    /\ due' = <<>>
    /\ cutShort' = (cutShort \/ pc # "idle" \/ due # <<>>)
    /\ view' = IF cutShort' THEN NoView ELSE view
    /\ UNCHANGED pairings

LockNext ==
    /\ cutShort' = cutShort
    /\ \/ Start
       \/ ExportPairing
       \/ \E key \in Controllers :
             \/ StorePairing(key) \/ DropPairing(key)
             \/ HandlePaired(key) \/ HandleUnpaired(key) \/ HandleLastUnpaired(key)
       \/ FactoryReset
       \/ ControllerRequest
       \/ ReadLists
       \/ FinishRequest

LockSpec == LockInit /\ [][LockNext \/ LockPowerLoss]_lockVars

-----------------------------------------------------------------------------
(* Properties.                                                             *)

\* Only a controller that is paired has a home user's issuer key: its key goes
\* with its pairing and no request can bring it back as a home user's key
\* (RemoveHapPairingLtpkAsIssuerKey, app.c:747).
HomeUserKeysArePaired ==
    Serving /\ ~cutShort => \A e \in issuerKeyList : e.homeUserKey => e.key \in pairings

\* When nobody is paired any more nothing is left that opens the door ("Last
\* admin controller unpaired so purge everything", app.c:1441).
UnpairedLockIsEmpty ==
    Serving /\ ~cutShort /\ pairings = {} =>
        issuerKeyList = {} /\ credentialList = EmptyList /\ readerKey = NoKey

\* However a start, a pairing or a purge was cut short, the export of the next
\* start leaves no paired controller without an issuer key, as long as the
\* list has room (CachePairingEnumerateCallback, app.c:764).
ExportRestoresPairings ==
    [][toExport # {} /\ toExport' = {} /\ pc' # "off" =>
         \/ pairings \subseteq KnownIssuers'
         \/ Cardinality(issuerKeyList') = MaximumIssuerKeys]_lockVars

\* The configuration state tells whether a copy of the lists is current: no
\* change, of any kind and over any restart, leaves it at the value the copy
\* was made at ("Counter keeping track of every change (add/update/remove)",
\* HAPPlatformNfcAccess.c:102).
ConfigurationStateTracksLists ==
    (Serving /\ ~cutShort /\ pairings # {} /\ view # NoView) =>
        (/\ view.configuration = configurationState
         /\ view.changes < ConfigurationModulus
         => view.contents = Contents)

=============================================================================
