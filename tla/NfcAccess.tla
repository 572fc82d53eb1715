----------------------------- MODULE NfcAccess -----------------------------
(***************************************************************************)
(* The NFC access lists of the accessory, as HAPPlatformNfcAccess.c keeps  *)
(* them: the issuer keys, the device credential keys, the reader key and   *)
(* the configuration state counter.  Each of the four is cached in RAM and *)
(* stored as one record of a flash key-value domain.                       *)
(*                                                                         *)
(* A change is several flash writes: the list, then the configuration      *)
(* state, then, when an issuer key goes, the credential list that lost its *)
(* credentials.  Each write is a step of its own here, because the power   *)
(* can fail between any two of them.  The handlers run on one thread, so   *)
(* the next request starts when pc is back at "idle".                      *)
(*                                                                         *)
(* Abstractions.  An identifier is a SHA-256 of the key, so a key stands   *)
(* for its own identifier.  The lists are sets: the order of the array is  *)
(* seen by nobody but FindLRUDeviceCredentialEntry, which orders by the    *)
(* counters.  A flash record that does not exist loads like an empty one.  *)
(* An update of the cache and the flash write that follows it are one      *)
(* step: only a power loss could tell them apart, and it loses the cache.  *)
(***************************************************************************)
EXTENDS Integers, FiniteSets

CONSTANTS
    IssuerKeys,             \* public keys of issuers (home users' LTPKs, requested keys)
    CredentialKeys,         \* public keys of devices
    ReaderKeys,             \* private keys of the reader
    NoKey,                  \* the zeroed key
    MaximumIssuerKeys,      \* nfcAccessPlatform.maximumIssuerKeys
    MaximumActive,          \* nfcAccessPlatform.maximumActiveDeviceCredentialKeys
    MaximumSuspended,       \* nfcAccessPlatform.maximumSuspendedDeviceCredentialKeys
    ConfigurationModulus,   \* 2^16: configurationState is a uint16_t
    CounterLimit            \* bound: 2^64 in the code, where the counter would wrap

ASSUME KeysAssumption == NoKey \notin IssuerKeys \cup ReaderKeys
ASSUME SizesAssumption ==
    /\ MaximumIssuerKeys \in Nat
    /\ MaximumActive \in Nat \ {0}
    /\ MaximumSuspended \in Nat
    /\ ConfigurationModulus \in Nat \ {0}
    /\ CounterLimit \in Nat

VARIABLES
    issuerKeyList,          \* nfcAccessIssuerKeyList
    credentialList,         \* nfcAccessDeviceCredentialKeyList
    readerKey,              \* nfcAccessReaderKey
    configurationState,     \* nfcAccessPlatform.configurationState
    flash,                  \* the records of the NFC access store domain
    pc,                     \* where the handler stands; "off" before Create
    removedIssuer,          \* the key whose credentials IssuerKeyRemove still has to remove
    statusCode              \* what the last request answered, "NONE" while it is served

cache == <<issuerKeyList, credentialList, readerKey, configurationState>>
vars == <<issuerKeyList, credentialList, readerKey, configurationState,
          flash, pc, removedIssuer, statusCode>>

-----------------------------------------------------------------------------
States == {"Active", "Suspended"}
AddTypes == {"HAP_PAIRING_READ", "HAP_PAIRING_ADD", "REQUEST_ADD"}
RemoveTypes == {"HAP_PAIRING_REMOVE", "REQUEST_REMOVE"}
CacheTypes == AddTypes \cup RemoveTypes
StatusCodes == {"NONE", "SUCCESS", "DUPLICATE", "OUT_OF_RESOURCES", "DOES_NOT_EXIST",
                "NOT_SUPPORTED", "INVALID_DATA"}

IssuerKeyEntry == [key : IssuerKeys, homeUserKey : BOOLEAN]

DeviceCredentialKeyEntry ==
    [key : CredentialKeys, issuer : IssuerKeys, state : States, counter : Nat]

DeviceCredentialKeyList ==
    [entries : SUBSET DeviceCredentialKeyEntry, counter : Nat,
     numActive : Nat, numSuspended : Nat]

Records == [issuers : SUBSET IssuerKeyEntry, credentials : DeviceCredentialKeyList,
            reader : ReaderKeys \cup {NoKey}, configuration : 0 .. ConfigurationModulus - 1]

EmptyList == [entries |-> {}, counter |-> 0, numActive |-> 0, numSuspended |-> 0]

EmptyFlash == [issuers |-> {}, credentials |-> EmptyList, reader |-> NoKey, configuration |-> 0]

WithState(entries, state) == {e \in entries : e.state = state}

\* numEntries: the array index at which the next entry is appended.
NumEntries(list) == list.numActive + list.numSuspended

\* The entries[] array of the credential list holds this many entries.
ListSize == MaximumActive + MaximumSuspended

KnownIssuers == {e.key : e \in issuerKeyList}

-----------------------------------------------------------------------------
(* The helpers that change the credential list and its counts.             *)

\* An entry stored with the current counter; the counter moves on and the
\* count of the entry's state grows.
Inserted(list, entry) ==
    [entries |-> list.entries \cup {entry}, counter |-> list.counter + 1,
     numActive |-> list.numActive + Cardinality(WithState({entry}, "Active")),
     numSuspended |-> list.numSuspended + Cardinality(WithState({entry}, "Suspended"))]

\* Mutant: the counts are kept while entries go.
UncountedDeleted(list, gone) == [list EXCEPT !.entries = @ \ gone]

\* Entries deleted, the count of each entry's state decremented.
Deleted(list, gone) ==
    [entries |-> list.entries \ gone, counter |-> list.counter,
     numActive |-> list.numActive - Cardinality(WithState(gone, "Active")),
     numSuspended |-> list.numSuspended - Cardinality(WithState(gone, "Suspended"))]

\* Mutant: the comparison of FindLRUDeviceCredentialEntry the wrong way round.
MostRecentlyUsed(list) ==
    CHOOSE e \in WithState(list.entries, "Active") :
        \A f \in WithState(list.entries, "Active") : f.counter <= e.counter

\* The active entry with the smallest counter.
FindLRUDeviceCredentialEntry(list) ==
    CHOOSE e \in WithState(list.entries, "Active") :
        \A f \in WithState(list.entries, "Active") : e.counter <= f.counter

-----------------------------------------------------------------------------
(* Starting and stopping.                                                  *)

Init ==
    /\ issuerKeyList = {}
    /\ credentialList = EmptyList
    /\ readerKey = NoKey
    /\ configurationState = 0
    /\ flash = EmptyFlash
    /\ pc = "off"
    /\ removedIssuer = NoKey
    /\ statusCode = "NONE"

\* The four HAPPlatformNfcAccessLoad... functions.
LoadCache(records) ==
    /\ issuerKeyList' = records.issuers
    /\ credentialList' = records.credentials
    /\ readerKey' = records.reader
    /\ configurationState' = records.configuration

\* HAPPlatformNfcAccessCreate, once per start of the accessory.
Create ==
    /\ pc = "off"
    /\ LoadCache(flash)
    /\ pc' = "idle"
    /\ UNCHANGED <<flash, removedIssuer, statusCode>>

\* The power fails between two flash writes.  The statics start over, the
\* records written so far stay.
PowerLoss ==
    /\ pc \notin {"off", "overrun"}
    /\ LoadCache(EmptyFlash)
    /\ pc' = "off"
    /\ removedIssuer' = NoKey
    /\ statusCode' = "NONE"
    /\ UNCHANGED flash

\* A request answered without any change.
Answer(code) ==
    /\ statusCode' = code
    /\ UNCHANGED <<cache, flash, pc, removedIssuer>>

-----------------------------------------------------------------------------
(* Issuer keys.                                                            *)

\* Mutant: the list is searched for home users' keys only.
HomeIssuerEntries(key) == {e \in issuerKeyList : e.key = key /\ e.homeUserKey}

\* The entries that carry this identifier.
IssuerEntries(key) == {e \in issuerKeyList : e.key = key}

IssuerKeyListFull == Cardinality(issuerKeyList) >= MaximumIssuerKeys

\* The issuer key list reaches the flash; the configuration state is next.
SaveIssuerKeyList(list) ==
    /\ issuerKeyList' = list
    /\ flash' = [flash EXCEPT !.issuers = list]
    /\ pc' = "configuration"
    /\ statusCode' = "NONE"
    /\ UNCHANGED <<credentialList, readerKey, configurationState>>

\* HAPPlatformNfcAccessIssuerKeyAdd up to the write of the list.
IssuerKeyAdd(key, cacheType) ==
    /\ pc = "idle"
    /\ \/ /\ IssuerEntries(key) # {}
          /\ Answer(IF cacheType = "HAP_PAIRING_READ" /\ \E e \in IssuerEntries(key) : e.homeUserKey
                    THEN "SUCCESS" ELSE "DUPLICATE")
       \/ /\ IssuerEntries(key) = {}
          /\ IssuerKeyListFull
          /\ Answer("OUT_OF_RESOURCES")
       \/ /\ IssuerEntries(key) = {}
          /\ ~IssuerKeyListFull
          /\ cacheType \notin AddTypes
          /\ Answer("INVALID_DATA")
       \/ /\ IssuerEntries(key) = {}
          /\ ~IssuerKeyListFull
          /\ cacheType \in AddTypes
          /\ SaveIssuerKeyList(issuerKeyList \cup
                 {[key |-> key, homeUserKey |-> cacheType # "REQUEST_ADD"]})
          /\ UNCHANGED removedIssuer

\* HAPPlatformNfcAccessIssuerKeyRemove up to the write of the issuer list.
\* Its first half ends in IncrementConfigurationState, its second half is
\* RemoveIssuedCredentials.
IssuerKeyRemove(key, cacheType) ==
    /\ pc = "idle"
    /\ \/ /\ cacheType \notin RemoveTypes
          /\ Answer("INVALID_DATA")
       \/ /\ cacheType \in RemoveTypes
          /\ IssuerEntries(key) = {}
          /\ Answer("DOES_NOT_EXIST")
       \/ /\ cacheType = "REQUEST_REMOVE"
          /\ \E e \in IssuerEntries(key) : e.homeUserKey
          /\ Answer("NOT_SUPPORTED")
       \/ \E e \in IssuerEntries(key) :
             /\ cacheType \in RemoveTypes
             /\ e.homeUserKey => cacheType = "HAP_PAIRING_REMOVE"
             /\ SaveIssuerKeyList(issuerKeyList \ {e})
             /\ removedIssuer' = key

\* Mutant: the cascade reaches the active credentials only.
ActiveIssuedBy(key) == {e \in credentialList.entries : e.issuer = key /\ e.state = "Active"}

IssuedBy(key) == {e \in credentialList.entries : e.issuer = key}

\* The loop that removes the credentials of the removed issuer, and the
\* write of the credential list if there was one.
RemoveIssuedCredentials ==
    /\ pc = "cascade"
    /\ credentialList' = Deleted(credentialList, IssuedBy(removedIssuer))
    /\ flash' = IF IssuedBy(removedIssuer) = {} THEN flash
                ELSE [flash EXCEPT !.credentials = credentialList']
    /\ removedIssuer' = NoKey
    /\ statusCode' = "SUCCESS"
    /\ pc' = "idle"
    /\ UNCHANGED <<issuerKeyList, readerKey, configurationState>>

-----------------------------------------------------------------------------
(* Device credential keys.                                                 *)

\* The entries that carry this identifier, whoever issued them.
CredentialEntries(key) == {e \in credentialList.entries : e.key = key}

IssuerFound(issuer) == issuer \in KnownIssuers

SuspendedFull == credentialList.numSuspended >= MaximumSuspended

ActiveFull == credentialList.numActive >= MaximumActive

\* The credential list reaches the flash; the configuration state is next.
SaveCredentialList(list) ==
    /\ credentialList' = list
    /\ flash' = [flash EXCEPT !.credentials = list]
    /\ pc' = "configuration"
    /\ statusCode' = "NONE"
    /\ UNCHANGED <<issuerKeyList, readerKey, configurationState, removedIssuer>>

\* UpdateDeviceCredentialEntryState up to the write of the list: the entry
\* takes the new state and the current counter.  The limits are not looked at.
UpdateDeviceCredentialEntryState(entry, state) ==
    /\ credentialList.counter < CounterLimit
    /\ SaveCredentialList(
           Inserted(Deleted(credentialList, {entry}),
                    [entry EXCEPT !.state = state, !.counter = credentialList.counter]))

\* A new key: it takes the slot of the least recently used active entry when
\* the active list is full, and is appended otherwise.
StoreNewCredential(key, issuer, state) ==
    LET entry == [key |-> key, issuer |-> issuer, state |-> state,
                  counter |-> credentialList.counter]
    IN  /\ credentialList.counter < CounterLimit
        /\ \/ /\ state = "Active" /\ ActiveFull
              /\ SaveCredentialList(Inserted(
                     Deleted(credentialList, {FindLRUDeviceCredentialEntry(credentialList)}), entry))
           \/ /\ state = "Active" => ~ActiveFull
              /\ NumEntries(credentialList) < ListSize
              /\ SaveCredentialList(Inserted(credentialList, entry))
           \/ /\ state = "Active" => ~ActiveFull
              /\ NumEntries(credentialList) >= ListSize
              \* The write goes past the array: from here anything may happen.
              /\ pc' = "overrun"
              /\ UNCHANGED <<cache, flash, removedIssuer, statusCode>>

\* HAPPlatformNfcAccessDeviceCredentialKeyAdd up to the write of the list.
DeviceCredentialKeyAdd(key, issuer, state) ==
    /\ pc = "idle"
    /\ \/ /\ ~IssuerFound(issuer)
          /\ Answer("DOES_NOT_EXIST")
       \/ \E e \in CredentialEntries(key) :
             /\ IssuerFound(issuer)
             /\ \/ e.state = state /\ Answer("DUPLICATE")
                \/ e.state # state /\ UpdateDeviceCredentialEntryState(e, state)
       \/ /\ IssuerFound(issuer)
          /\ CredentialEntries(key) = {}
          /\ \/ state = "Suspended" /\ SuspendedFull /\ Answer("OUT_OF_RESOURCES")
             \/ /\ state = "Suspended" => ~SuspendedFull
                /\ StoreNewCredential(key, issuer, state)

\* HAPPlatformNfcAccessDeviceCredentialKeyRemove up to the write of the list.
DeviceCredentialKeyRemove(key) ==
    /\ pc = "idle"
    /\ \/ CredentialEntries(key) = {} /\ Answer("DOES_NOT_EXIST")
       \/ \E e \in CredentialEntries(key) : SaveCredentialList(Deleted(credentialList, {e}))

-----------------------------------------------------------------------------
(* The reader key, the configuration state and the purge.                  *)

\* The reader key reaches the flash; the configuration state is next.
SaveReaderKey(key) ==
    /\ readerKey' = key
    /\ flash' = [flash EXCEPT !.reader = key]
    /\ pc' = "configuration"
    /\ statusCode' = "NONE"
    /\ UNCHANGED <<issuerKeyList, credentialList, configurationState, removedIssuer>>

\* HAPPlatformNfcAccessReaderKeyAdd up to the write of the key.
ReaderKeyAdd(key) ==
    /\ pc = "idle"
    /\ \/ readerKey = key /\ Answer("DUPLICATE")
       \/ readerKey \notin {key, NoKey} /\ Answer("OUT_OF_RESOURCES")
       \/ readerKey = NoKey /\ SaveReaderKey(key)

\* HAPPlatformNfcAccessReaderKeyRemove up to the write of the key.  The empty
\* slot is all zeros, so a request to remove the zero identifier matches it.
ReaderKeyRemove(key) ==
    /\ pc = "idle"
    /\ \/ readerKey # key /\ Answer("DOES_NOT_EXIST")
       \/ readerKey = key /\ SaveReaderKey(NoKey)

\* Mutant: the new configuration state is not written to the flash.
UnsavedState(state) == flash

SavedState(state) == [flash EXCEPT !.configuration = state]

\* Mutant: a counter that stops at its largest value.
SaturatedState(state) == IF state + 1 < ConfigurationModulus THEN state + 1 ELSE state

NextState(state) == (state + 1) % ConfigurationModulus

\* IncrementConfigurationState, the end of every change.  After the removal of
\* an issuer key its credentials are still to be removed.
IncrementConfigurationState ==
    /\ pc = "configuration"
    /\ configurationState' = NextState(configurationState)
    /\ flash' = SavedState(NextState(configurationState))
    /\ \/ removedIssuer = NoKey /\ pc' = "idle" /\ statusCode' = "SUCCESS"
       \/ removedIssuer # NoKey /\ pc' = "cascade" /\ UNCHANGED statusCode
    /\ UNCHANGED <<issuerKeyList, credentialList, readerKey, removedIssuer>>

\* HAPPlatformNfcAccessPurge, called when the last admin controller is
\* unpaired and at a factory reset.
Purge ==
    /\ pc = "idle"
    /\ pc' = "purge"
    /\ statusCode' = "NONE"
    /\ UNCHANGED <<cache, flash, removedIssuer>>

\* HAPPlatformKeyValueStorePurgeDomain deletes the records one by one, in the
\* order in which the flash lists them.
PurgeRecord(field) ==
    /\ pc = "purge"
    /\ flash[field] # EmptyFlash[field]
    /\ flash' = [flash EXCEPT ![field] = EmptyFlash[field]]
    /\ UNCHANGED <<cache, pc, removedIssuer, statusCode>>

\* The lists are loaded again when nothing is left.
PurgeReload ==
    /\ pc = "purge"
    /\ flash = EmptyFlash
    /\ LoadCache(flash)
    /\ pc' = "idle"
    /\ UNCHANGED <<flash, removedIssuer, statusCode>>

-----------------------------------------------------------------------------
Request ==
    \/ \E key \in IssuerKeys, cacheType \in CacheTypes :
          IssuerKeyAdd(key, cacheType) \/ IssuerKeyRemove(key, cacheType)
    \/ \E key \in CredentialKeys, issuer \in IssuerKeys, state \in States :
          DeviceCredentialKeyAdd(key, issuer, state)
    \/ \E key \in CredentialKeys : DeviceCredentialKeyRemove(key)
    \/ \E key \in ReaderKeys : ReaderKeyAdd(key)
    \/ \E key \in ReaderKeys \cup {NoKey} : ReaderKeyRemove(key)
    \/ Purge

Continue ==
    \/ IncrementConfigurationState
    \/ RemoveIssuedCredentials
    \/ \E field \in DOMAIN EmptyFlash : PurgeRecord(field)
    \/ PurgeReload

Next == Create \/ Request \/ Continue

Spec == Init /\ [][Next]_vars

CrashSpec == Init /\ [][Next \/ PowerLoss]_vars

-----------------------------------------------------------------------------
(* Properties.                                                             *)

\* Type invariant.  The counts are natural numbers: uint16_t counts that are
\* decremented below zero would wrap.
TypeOK ==
    /\ issuerKeyList \subseteq IssuerKeyEntry
    /\ credentialList \in DeviceCredentialKeyList
    /\ readerKey \in ReaderKeys \cup {NoKey}
    /\ configurationState \in 0 .. ConfigurationModulus - 1
    /\ flash \in Records
    /\ pc \in {"off", "idle", "configuration", "cascade", "purge", "overrun"}
    /\ removedIssuer \in IssuerKeys \cup {NoKey}
    /\ statusCode \in StatusCodes

\* The cached list and the stored one.
BothLists == {credentialList, flash.credentials}

CountsMatch(list) ==
    /\ list.numActive = Cardinality(WithState(list.entries, "Active"))
    /\ list.numSuspended = Cardinality(WithState(list.entries, "Suspended"))

CountersOrder(list) ==
    /\ \A e \in list.entries : e.counter < list.counter
    /\ \A e, f \in list.entries : e.counter = f.counter => e = f

UniqueKeys(entries) == \A e, f \in entries : e.key = f.key => e = f

\* The two counts, which the code keeps by hand beside the entries and from
\* which it derives both the length of the array and the place of the next
\* entry, are the numbers of active and of suspended entries
\* (IncrementDeviceCredentialKeyNumEntries, DecrementDeviceCredentialKeyNumEntries).
CountsMatchEntries == \A list \in BothLists : CountsMatch(list)

\* No two entries carry the same counter and none carries one that is still to
\* be handed out, so the least recently used entry is one entry and the most
\* recent change is never taken for an old one, after any restart.
CountersOrderEntries == \A list \in BothLists : CountersOrder(list)

\* An identifier names one issuer key and one credential, in the cache and in
\* the flash, although an added credential may exist in the other state.
OneEntryPerKey ==
    /\ UniqueKeys(issuerKeyList)
    /\ UniqueKeys(flash.issuers)
    /\ \A list \in BothLists : UniqueKeys(list.entries)

\* Between two requests no credential outlives the issuer key that vouches for
\* it: IssuerKeyRemove takes them along.
CredentialsHaveIssuers ==
    pc = "idle" => \A e \in credentialList.entries : e.issuer \in KnownIssuers

Cached == [issuers |-> issuerKeyList, credentials |-> credentialList,
           reader |-> readerKey, configuration |-> configurationState]

\* Between two requests the flash holds what the cache holds: a restart then
\* brings back every key and the configuration state.
RestartKeepsLists == pc = "idle" => flash = Cached

\* A credential makes room for another one only if at least MaximumActive
\* credentials, itself included, were added or updated since it was: the
\* eviction never takes a credential that is among the last ones touched.
EvictedWasIdleLong ==
    [][pc = "idle" /\ (\E f \in credentialList'.entries :
                          \A e \in credentialList.entries : e.key # f.key)
       => \A e \in credentialList.entries :
             (\A f \in credentialList'.entries : e.key # f.key)
             => credentialList.counter - e.counter >= MaximumActive]_vars

\* The lists as a controller sees them: a change counts from its first flash
\* write, with the configuration state it is about to get, and a credential
\* whose issuer key is gone is already gone.
Visible(e) == [key |-> e.key, issuer |-> e.issuer, state |-> e.state]

VisibleCredentials == {Visible(e) : e \in {c \in credentialList.entries : c.issuer \in KnownIssuers}}

VisibleState ==
    IF pc = "configuration" THEN (configurationState + 1) % ConfigurationModulus
    ELSE configurationState

Lists == INSTANCE AccessLists WITH
    issuers <- issuerKeyList, credentials <- VisibleCredentials,
    reader <- readerKey, configuration <- VisibleState

\* Without a power loss the module does what AccessLists promises.
ImplementsLists == Lists!Spec

\* The entries of the list always fit its array (HAPPlatformNfcAccess.c:256).
EntriesFitArray == pc # "overrun"

=============================================================================
