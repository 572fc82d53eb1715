-------------------------- MODULE NfcAccessProofs --------------------------
(***************************************************************************)
(* Proofs about NfcAccess, for lists of any size and any number of keys.   *)
(*                                                                         *)
(* The inductive invariant says that the cached and the stored credential  *)
(* list are both sound, that the issuer keys are unique in both places,    *)
(* and that cache and flash agree whenever the lists are loaded and no     *)
(* purge is under way.  The flash half is what lets it survive a power     *)
(* loss: the next Create loads whatever the flash holds.                   *)
(*                                                                         *)
(* That an evicted credential has been idle for long is counted: the       *)
(* counters of the active entries are distinct and lie between that of the *)
(* least recently used one and the current counter, so there are at least  *)
(* as many counters in between as there are active entries.                *)
(***************************************************************************)
EXTENDS NfcAccess, FiniteSetTheorems, TLAPS

\* What every credential list satisfies, in the cache and in the flash.
ListSound(list) ==
    /\ list \in DeviceCredentialKeyList
    /\ IsFiniteSet(list.entries)
    /\ CountsMatch(list)
    /\ CountersOrder(list)
    /\ UniqueKeys(list.entries)

IInv ==
    /\ TypeOK
    /\ \A list \in BothLists : ListSound(list)
    /\ UniqueKeys(issuerKeyList)
    /\ UniqueKeys(flash.issuers)
    /\ pc \notin {"off", "purge"} => flash = Cached

-----------------------------------------------------------------------------
(* Lists.                                                                  *)

LEMMA EmptyListSound == ListSound(EmptyList)
<1>1. EmptyList \in DeviceCredentialKeyList
  BY DEF EmptyList, DeviceCredentialKeyList
<1>2. IsFiniteSet(EmptyList.entries) /\ WithState(EmptyList.entries, "Active") = {}
        /\ WithState(EmptyList.entries, "Suspended") = {}
  BY FS_EmptySet DEF EmptyList, WithState
<1> QED
  BY <1>1, <1>2, FS_EmptySet DEF ListSound, EmptyList, CountsMatch, CountersOrder, UniqueKeys

\* The entries of one state, after entries are deleted.
LEMMA DeletedCount ==
  ASSUME NEW entries, IsFiniteSet(entries), NEW gone \in SUBSET entries, NEW state
  PROVE  /\ IsFiniteSet(WithState(entries \ gone, state))
         /\ Cardinality(WithState(entries \ gone, state))
              = Cardinality(WithState(entries, state)) - Cardinality(WithState(gone, state))
         /\ Cardinality(WithState(entries \ gone, state)) \in Nat
<1> DEFINE all == WithState(entries, state)
           lost == WithState(gone, state)
<1>1. IsFiniteSet(all) /\ IsFiniteSet(lost) /\ lost \subseteq all
  BY FS_Subset DEF WithState
<1>2. WithState(entries \ gone, state) = all \ lost /\ all \cap lost = lost
  BY DEF WithState
<1>3. IsFiniteSet(all \ lost) /\ Cardinality(all \ lost) = Cardinality(all) - Cardinality(all \cap lost)
  BY <1>1, FS_Difference
<1> QED
  BY <1>2, <1>3, FS_CardinalityType

\* Deleting entries keeps a list sound.
LEMMA DeletedSound ==
  ASSUME NEW list, ListSound(list), NEW gone \in SUBSET list.entries
  PROVE  ListSound(Deleted(list, gone))
<1> DEFINE new == Deleted(list, gone)
<1>1. list \in DeviceCredentialKeyList /\ IsFiniteSet(list.entries) /\ CountsMatch(list)
  BY DEF ListSound
<1>2. /\ new.entries = list.entries \ gone
      /\ new.counter = list.counter
      /\ new.numActive = list.numActive - Cardinality(WithState(gone, "Active"))
      /\ new.numSuspended = list.numSuspended - Cardinality(WithState(gone, "Suspended"))
  BY DEF Deleted
<1>3. CountsMatch(new) /\ new.numActive \in Nat /\ new.numSuspended \in Nat
  <2>1. ASSUME NEW state
        PROVE  /\ Cardinality(WithState(new.entries, state))
                    = Cardinality(WithState(list.entries, state)) - Cardinality(WithState(gone, state))
               /\ Cardinality(WithState(new.entries, state)) \in Nat
    <3>1. /\ Cardinality(WithState(list.entries \ gone, state))
               = Cardinality(WithState(list.entries, state)) - Cardinality(WithState(gone, state))
          /\ Cardinality(WithState(list.entries \ gone, state)) \in Nat
      BY <1>1, DeletedCount
    <3> QED
      BY <1>2, <3>1
  <2> HIDE DEF new
  <2> QED
    BY <1>1, <1>2, <2>1 DEF CountsMatch
<1>4. IsFiniteSet(new.entries)
  BY <1>1, <1>2, FS_Subset
<1>5. new \in DeviceCredentialKeyList
  BY <1>1, <1>2, <1>3 DEF DeviceCredentialKeyList, Deleted
<1> QED
  BY <1>2, <1>3, <1>4, <1>5 DEF ListSound, CountersOrder, UniqueKeys

\* The entries of one state, after an entry is stored.
LEMMA InsertedCount ==
  ASSUME NEW entries, IsFiniteSet(entries), NEW entry, entry \notin entries, NEW state
  PROVE  Cardinality(WithState(entries \cup {entry}, state))
           = Cardinality(WithState(entries, state)) + Cardinality(WithState({entry}, state))
<1>1. IsFiniteSet(WithState(entries, state)) /\ Cardinality(WithState(entries, state)) \in Nat
  BY FS_Subset, FS_CardinalityType DEF WithState
<1>2. CASE entry.state = state
  <2>1. /\ WithState(entries \cup {entry}, state) = WithState(entries, state) \cup {entry}
        /\ WithState({entry}, state) = {entry}
        /\ entry \notin WithState(entries, state)
    BY <1>2 DEF WithState
  <2> QED
    BY <1>1, <2>1, FS_AddElement, FS_Singleton
<1>3. CASE entry.state # state
  <2>1. /\ WithState(entries \cup {entry}, state) = WithState(entries, state)
        /\ WithState({entry}, state) = {}
    BY <1>3 DEF WithState
  <2>2. Cardinality(WithState({entry}, state)) = 0
    BY <2>1, FS_EmptySet
  <2> QED
    BY <1>1, <2>1, <2>2
<1> QED
  BY <1>2, <1>3

\* Storing an entry that takes the current counter and a key of its own keeps
\* a list sound.
LEMMA InsertedSound ==
  ASSUME NEW list, ListSound(list), NEW entry \in DeviceCredentialKeyEntry,
         entry.counter = list.counter, \A e \in list.entries : e.key # entry.key
  PROVE  ListSound(Inserted(list, entry))
<1> DEFINE new == Inserted(list, entry)
<1>1. list \in DeviceCredentialKeyList /\ IsFiniteSet(list.entries) /\ CountsMatch(list)
      /\ CountersOrder(list) /\ UniqueKeys(list.entries)
  BY DEF ListSound
<1>2. /\ new.entries = list.entries \cup {entry}
      /\ new.counter = list.counter + 1
      /\ new.numActive = list.numActive + Cardinality(WithState({entry}, "Active"))
      /\ new.numSuspended = list.numSuspended + Cardinality(WithState({entry}, "Suspended"))
  BY DEF Inserted
<1>3. entry \notin list.entries
  OBVIOUS
<1>4. CountsMatch(new)
  BY <1>1, <1>2, <1>3, InsertedCount DEF CountsMatch
<1>5. IsFiniteSet(new.entries)
  BY <1>1, <1>2, FS_AddElement
<1>6. new.numActive \in Nat /\ new.numSuspended \in Nat
  <2>1. /\ Cardinality(WithState({entry}, "Active")) \in Nat
        /\ Cardinality(WithState({entry}, "Suspended")) \in Nat
    BY FS_Singleton, FS_Subset, FS_CardinalityType DEF WithState
  <2>2. list.numActive \in Nat /\ list.numSuspended \in Nat
    BY <1>1 DEF DeviceCredentialKeyList
  <2> HIDE DEF new
  <2> QED
    BY <1>2, <2>1, <2>2
<1>7. new \in DeviceCredentialKeyList
  BY <1>1, <1>2, <1>6 DEF DeviceCredentialKeyList, Inserted
<1>8. CountersOrder(new)
  BY <1>1, <1>2 DEF CountersOrder, DeviceCredentialKeyList, DeviceCredentialKeyEntry
<1>9. UniqueKeys(new.entries)
  BY <1>1, <1>2 DEF UniqueKeys
<1> QED
  BY <1>4, <1>5, <1>7, <1>8, <1>9 DEF ListSound

\* A full list of active credentials has a least recently used one.
LEMMA LruExists ==
  ASSUME NEW list, ListSound(list), list.numActive >= MaximumActive
  PROVE  /\ FindLRUDeviceCredentialEntry(list) \in WithState(list.entries, "Active")
         /\ \A f \in WithState(list.entries, "Active") :
               FindLRUDeviceCredentialEntry(list).counter <= f.counter
<1> DEFINE active == WithState(list.entries, "Active")
           counters == {e.counter : e \in active}
<1>1. active \subseteq list.entries /\ IsFiniteSet(active) /\ list.numActive = Cardinality(active)
  BY FS_Subset DEF ListSound, WithState, CountsMatch
<1>2. active # {}
  <2>1. list.numActive \in Nat /\ list.numActive # 0
    BY SizesAssumption DEF ListSound, DeviceCredentialKeyList
  <2> QED
    BY <1>1, <2>1, FS_EmptySet
<1>3. counters \subseteq Nat /\ counters # {}
  BY <1>1, <1>2 DEF ListSound, DeviceCredentialKeyList, DeviceCredentialKeyEntry
<1>4. \E m \in counters : \A n \in counters : m <= n
  <2>1. PICK m \in counters : \A n \in counters : <<n, m>> \notin OpToRel(<, Nat)
    BY <1>3, NatLessThanWellFounded, WFMin
  <2>2. \A n \in counters : ~(n < m)
    BY <1>3, <2>1 DEF OpToRel
  <2> HIDE DEF counters
  <2>3. ASSUME NEW n \in counters
        PROVE  m <= n
    <3>1. m \in Nat /\ n \in Nat
      BY <1>3
    <3> QED
      BY <2>2, <3>1
  <2> QED
    BY <2>3
<1>5. \E e \in active : \A f \in active : e.counter <= f.counter
  BY <1>4
<1> QED
  BY <1>5 DEF FindLRUDeviceCredentialEntry

-----------------------------------------------------------------------------
(* The inductive invariant.                                                *)

LEMMA InitIInv == Init => IInv
<1> SUFFICES ASSUME Init PROVE IInv
  OBVIOUS
<1>1. \A list \in BothLists : ListSound(list)
  BY EmptyListSound DEF Init, BothLists, EmptyFlash
<1>2. credentialList \in DeviceCredentialKeyList
  BY <1>1 DEF BothLists, ListSound
<1>3. flash \in Records
  BY <1>2, SizesAssumption DEF Init, EmptyFlash, Records, IssuerKeyEntry
<1> QED
  BY <1>1, <1>2, <1>3, SizesAssumption DEF Init, IInv, TypeOK, UniqueKeys, EmptyFlash, StatusCodes

\* A step that leaves the state of the lists alone, but for the pc and the answer.
LEMMA AnswerIInv ==
  ASSUME IInv, issuerKeyList' = issuerKeyList, credentialList' = credentialList,
         readerKey' = readerKey, configurationState' = configurationState, flash' = flash,
         pc' \in {pc, "purge", "overrun"}, pc' = "overrun" => pc \notin {"off", "purge"},
         removedIssuer' = removedIssuer, statusCode' \in StatusCodes
  PROVE  IInv'
BY DEF IInv, TypeOK, BothLists, Cached

\* A step that stores a new issuer key list.
LEMMA SaveIssuersIInv ==
  ASSUME IInv, pc = "idle", NEW list \in SUBSET IssuerKeyEntry, UniqueKeys(list),
         SaveIssuerKeyList(list), removedIssuer' \in IssuerKeys \cup {NoKey}
  PROVE  IInv'
<1>1. /\ issuerKeyList' = list /\ flash' = [flash EXCEPT !.issuers = list]
      /\ pc' = "configuration" /\ statusCode' = "NONE"
      /\ UNCHANGED <<credentialList, readerKey, configurationState>>
  BY DEF SaveIssuerKeyList
<1>2. flash \in Records /\ flash = Cached
  BY DEF IInv, TypeOK
<1>3. /\ flash' \in Records
      /\ flash'.credentials = flash.credentials
      /\ flash'.issuers = list
  BY <1>1, <1>2 DEF Records
<1>4. flash' = Cached'
  BY <1>1, <1>2 DEF Cached
<1>5. TypeOK'
  BY <1>1, <1>3 DEF IInv, TypeOK, StatusCodes
<1> QED
  BY <1>1, <1>3, <1>4, <1>5 DEF IInv, BothLists

\* A step that stores a new credential list.
LEMMA SaveCredentialsIInv ==
  ASSUME IInv, pc = "idle", NEW list, ListSound(list), SaveCredentialList(list)
  PROVE  IInv'
<1>1. /\ credentialList' = list /\ flash' = [flash EXCEPT !.credentials = list]
      /\ pc' = "configuration" /\ statusCode' = "NONE"
      /\ UNCHANGED <<issuerKeyList, readerKey, configurationState, removedIssuer>>
  BY DEF SaveCredentialList
<1>2. flash \in Records /\ flash = Cached /\ list \in DeviceCredentialKeyList
  BY DEF IInv, TypeOK, ListSound
<1>3. /\ flash' \in Records
      /\ flash'.credentials = list
      /\ flash'.issuers = flash.issuers
  BY <1>1, <1>2 DEF Records
<1>4. flash' = Cached'
  BY <1>1, <1>2 DEF Cached
<1>5. TypeOK'
  BY <1>1, <1>2, <1>3 DEF IInv, TypeOK, StatusCodes
<1> QED
  BY <1>1, <1>3, <1>4, <1>5 DEF IInv, BothLists

\* A step that stores a new reader key.
LEMMA SaveReaderIInv ==
  ASSUME IInv, pc = "idle", NEW key \in ReaderKeys \cup {NoKey}, SaveReaderKey(key)
  PROVE  IInv'
<1>1. /\ readerKey' = key /\ flash' = [flash EXCEPT !.reader = key]
      /\ pc' = "configuration" /\ statusCode' = "NONE"
      /\ UNCHANGED <<issuerKeyList, credentialList, configurationState, removedIssuer>>
  BY DEF SaveReaderKey
<1>2. flash \in Records /\ flash = Cached
  BY DEF IInv, TypeOK
<1>3. /\ flash' \in Records
      /\ flash'.credentials = flash.credentials
      /\ flash'.issuers = flash.issuers
  BY <1>1, <1>2 DEF Records
<1>4. flash' = Cached'
  BY <1>1, <1>2 DEF Cached
<1>5. TypeOK'
  BY <1>1, <1>3 DEF IInv, TypeOK, StatusCodes
<1> QED
  BY <1>1, <1>3, <1>4, <1>5 DEF IInv, BothLists

\* A step that loads the cache from a set of sound records.
LEMMA LoadIInv ==
  ASSUME IInv, NEW records \in Records, ListSound(records.credentials),
         UniqueKeys(records.issuers), LoadCache(records), flash' = flash,
         pc' \in {"off", "idle"}, pc' = "idle" => records = flash,
         removedIssuer' \in {removedIssuer, NoKey}, statusCode' \in {statusCode, "NONE"}
  PROVE  IInv'
<1>1. TypeOK'
  BY DEF IInv, TypeOK, LoadCache, Records, StatusCodes
<1>2. pc' \notin {"off", "purge"} => flash' = Cached'
  <2>1. records = [issuers |-> records.issuers, credentials |-> records.credentials,
                   reader |-> records.reader, configuration |-> records.configuration]
    BY DEF Records
  <2> QED
    BY <2>1 DEF LoadCache, Cached
<1>3. \A list \in BothLists' : ListSound(list)
  BY DEF IInv, BothLists, LoadCache
<1> QED
  BY <1>1, <1>2, <1>3 DEF IInv, LoadCache

LEMMA EmptyFlashSound ==
  EmptyFlash \in Records /\ ListSound(EmptyFlash.credentials) /\ UniqueKeys(EmptyFlash.issuers)
BY EmptyListSound, SizesAssumption
DEF EmptyFlash, Records, UniqueKeys, ListSound, IssuerKeyEntry

LEMMA NextIInv == IInv /\ [Next \/ PowerLoss]_vars => IInv'
<1> SUFFICES ASSUME IInv, [Next \/ PowerLoss]_vars PROVE IInv'
  OBVIOUS
<1>a. /\ flash \in Records /\ ListSound(flash.credentials) /\ UniqueKeys(flash.issuers)
      /\ ListSound(credentialList) /\ UniqueKeys(issuerKeyList)
  BY DEF IInv, TypeOK, BothLists
<1>b. ASSUME NEW code \in StatusCodes, Answer(code)
      PROVE  IInv'
  <2>1. /\ issuerKeyList' = issuerKeyList /\ credentialList' = credentialList
        /\ readerKey' = readerKey /\ configurationState' = configurationState /\ flash' = flash
        /\ pc' = pc /\ removedIssuer' = removedIssuer /\ statusCode' = code
    BY <1>b DEF Answer, cache
  <2> QED
    BY <1>b, <2>1, AnswerIInv
<1>1. CASE Create
  <2>1. /\ LoadCache(flash) /\ pc' = "idle"
        /\ UNCHANGED <<flash, removedIssuer, statusCode>>
    BY <1>1 DEF Create
  <2> QED
    BY <1>a, <2>1, LoadIInv
<1>2. CASE PowerLoss
  <2>1. /\ LoadCache(EmptyFlash) /\ pc' = "off"
        /\ removedIssuer' = NoKey /\ statusCode' = "NONE" /\ flash' = flash
    BY <1>2 DEF PowerLoss
  <2> QED
    BY <2>1, LoadIInv, EmptyFlashSound
<1>3. ASSUME NEW key \in IssuerKeys, NEW cacheType \in CacheTypes, IssuerKeyAdd(key, cacheType)
      PROVE  IInv'
  <2>1. pc = "idle"
    BY <1>3 DEF IssuerKeyAdd
  <2>2. CASE \E code \in StatusCodes : Answer(code)
    BY <2>2, <1>b
  <2>3. CASE /\ IssuerEntries(key) = {}
             /\ SaveIssuerKeyList(issuerKeyList \cup
                    {[key |-> key, homeUserKey |-> cacheType # "REQUEST_ADD"]})
             /\ UNCHANGED removedIssuer
    <3> DEFINE new == [key |-> key, homeUserKey |-> cacheType # "REQUEST_ADD"]
               list == issuerKeyList \cup {new}
    <3>1. new \in IssuerKeyEntry /\ new.key = key
      BY DEF IssuerKeyEntry
    <3>2. list \in SUBSET IssuerKeyEntry
      BY <3>1 DEF IInv, TypeOK
    <3>3. UniqueKeys(list)
      BY <1>a, <2>3, <3>1 DEF UniqueKeys, IssuerEntries
    <3>4. SaveIssuerKeyList(list) /\ removedIssuer' \in IssuerKeys \cup {NoKey}
      BY <2>3 DEF IInv, TypeOK
    <3> HIDE DEF list
    <3> QED
      BY <2>1, <3>2, <3>3, <3>4, SaveIssuersIInv
  <2> QED
    BY <1>3, <2>2, <2>3 DEF IssuerKeyAdd, StatusCodes
<1>4. ASSUME NEW key \in IssuerKeys, NEW cacheType \in CacheTypes, IssuerKeyRemove(key, cacheType)
      PROVE  IInv'
  <2>1. pc = "idle"
    BY <1>4 DEF IssuerKeyRemove
  <2>2. CASE \E code \in StatusCodes : Answer(code)
    BY <2>2, <1>b
  <2>3. ASSUME NEW e \in IssuerEntries(key), SaveIssuerKeyList(issuerKeyList \ {e}),
               removedIssuer' = key
        PROVE  IInv'
    <3>1. issuerKeyList \ {e} \in SUBSET IssuerKeyEntry /\ UniqueKeys(issuerKeyList \ {e})
      BY <1>a DEF IInv, TypeOK, UniqueKeys
    <3> QED
      BY <2>1, <2>3, <3>1, SaveIssuersIInv
  <2> QED
    BY <1>4, <2>2, <2>3 DEF IssuerKeyRemove, StatusCodes
<1>5. ASSUME NEW key \in CredentialKeys, NEW issuer \in IssuerKeys, NEW state \in States,
             DeviceCredentialKeyAdd(key, issuer, state)
      PROVE  IInv'
  <2>1. pc = "idle" /\ credentialList \in DeviceCredentialKeyList
    BY <1>5 DEF DeviceCredentialKeyAdd, IInv, TypeOK
  <2>2. CASE \E code \in StatusCodes : Answer(code)
    BY <2>2, <1>b
  <2>3. ASSUME NEW e \in CredentialEntries(key), UpdateDeviceCredentialEntryState(e, state)
        PROVE  IInv'
    <3> DEFINE new == [e EXCEPT !.state = state, !.counter = credentialList.counter]
               rest == Deleted(credentialList, {e})
    <3>1. e \in credentialList.entries /\ e \in DeviceCredentialKeyEntry
      BY <2>1, <2>3 DEF CredentialEntries, DeviceCredentialKeyList
    <3>2. /\ new \in DeviceCredentialKeyEntry
          /\ new.counter = credentialList.counter /\ new.key = e.key
      BY <2>1, <3>1 DEF DeviceCredentialKeyEntry, DeviceCredentialKeyList
    <3>3. ListSound(rest)
      BY <1>a, <3>1, DeletedSound
    <3>4. /\ rest.counter = credentialList.counter
          /\ rest.entries = credentialList.entries \ {e}
      BY DEF Deleted
    <3>5. \A f \in rest.entries : f.key # new.key
      BY <1>a, <3>1, <3>2, <3>4 DEF ListSound, UniqueKeys
    <3>6. SaveCredentialList(Inserted(rest, new))
      BY <2>3 DEF UpdateDeviceCredentialEntryState
    <3> HIDE DEF new, rest
    <3>7. ListSound(Inserted(rest, new))
      BY <3>2, <3>3, <3>4, <3>5, InsertedSound
    <3> QED
      BY <2>1, <3>6, <3>7, SaveCredentialsIInv
  <2>4. CASE CredentialEntries(key) = {} /\ StoreNewCredential(key, issuer, state)
    <3> DEFINE new == [key |-> key, issuer |-> issuer, state |-> state,
                       counter |-> credentialList.counter]
    <3>1. /\ new \in DeviceCredentialKeyEntry
          /\ new.counter = credentialList.counter /\ new.key = key
      BY <2>1 DEF DeviceCredentialKeyEntry, DeviceCredentialKeyList
    <3>2. \A f \in credentialList.entries : f.key # key
      BY <2>4 DEF CredentialEntries
    <3>3. CASE ActiveFull /\ SaveCredentialList(Inserted(
                   Deleted(credentialList, {FindLRUDeviceCredentialEntry(credentialList)}), new))
      <4> DEFINE rest == Deleted(credentialList, {FindLRUDeviceCredentialEntry(credentialList)})
      <4>1. FindLRUDeviceCredentialEntry(credentialList) \in credentialList.entries
        BY <1>a, <3>3, LruExists DEF ActiveFull, WithState
      <4>2. ListSound(rest)
        BY <1>a, <4>1, DeletedSound
      <4>3. rest.counter = credentialList.counter /\ rest.entries \subseteq credentialList.entries
        BY DEF Deleted
      <4>4. SaveCredentialList(Inserted(rest, new))
        BY <3>3
      <4> HIDE DEF rest, new
      <4>5. ListSound(Inserted(rest, new))
        BY <3>1, <3>2, <4>2, <4>3, InsertedSound
      <4> QED
        BY <2>1, <4>4, <4>5, SaveCredentialsIInv
    <3>4. CASE SaveCredentialList(Inserted(credentialList, new))
      <4> HIDE DEF new
      <4>1. ListSound(Inserted(credentialList, new))
        BY <1>a, <3>1, <3>2, InsertedSound
      <4> QED
        BY <2>1, <3>4, <4>1, SaveCredentialsIInv
    <3>5. CASE pc' = "overrun" /\ UNCHANGED <<cache, flash, removedIssuer, statusCode>>
      BY <2>1, <3>5, AnswerIInv DEF IInv, TypeOK, cache
    <3> QED
      BY <2>4, <3>3, <3>4, <3>5 DEF StoreNewCredential
  <2> QED
    BY <1>5, <2>2, <2>3, <2>4 DEF DeviceCredentialKeyAdd, StatusCodes
<1>6. ASSUME NEW key \in CredentialKeys, DeviceCredentialKeyRemove(key)
      PROVE  IInv'
  <2>1. CASE Answer("DOES_NOT_EXIST")
    BY <2>1, <1>b DEF StatusCodes
  <2>2. ASSUME NEW e \in credentialList.entries, SaveCredentialList(Deleted(credentialList, {e}))
        PROVE  IInv'
    BY <1>a, <1>6, <2>2, DeletedSound, SaveCredentialsIInv DEF DeviceCredentialKeyRemove, CredentialEntries
  <2> QED
    BY <1>6, <2>1, <2>2 DEF DeviceCredentialKeyRemove, CredentialEntries
<1>7. ASSUME NEW key \in ReaderKeys, ReaderKeyAdd(key)
      PROVE  IInv'
  BY <1>7, <1>b, SaveReaderIInv DEF ReaderKeyAdd, StatusCodes
<1>8. ASSUME NEW key \in ReaderKeys \cup {NoKey}, ReaderKeyRemove(key)
      PROVE  IInv'
  BY <1>8, <1>b, SaveReaderIInv DEF ReaderKeyRemove, StatusCodes
<1>9. CASE Purge
  BY <1>9, AnswerIInv DEF Purge, StatusCodes, cache
<1>10. CASE IncrementConfigurationState
  <2> DEFINE state == NextState(configurationState)
  <2>1. state \in 0 .. ConfigurationModulus - 1
    BY SizesAssumption DEF NextState, IInv, TypeOK
  <2>2. /\ configurationState' = state /\ flash' = [flash EXCEPT !.configuration = state]
        /\ pc' \in {"idle", "cascade"} /\ statusCode' \in StatusCodes
        /\ UNCHANGED <<issuerKeyList, credentialList, readerKey, removedIssuer>>
        /\ flash = Cached
    BY <1>10 DEF IncrementConfigurationState, SavedState, IInv, TypeOK, StatusCodes
  <2> HIDE DEF state
  <2>3. /\ flash' \in Records
        /\ flash'.credentials = flash.credentials
        /\ flash'.issuers = flash.issuers
    BY <1>a, <2>1, <2>2 DEF Records
  <2>4. flash' = Cached'
    BY <1>a, <2>2 DEF Cached
  <2>5. TypeOK'
    BY <2>1, <2>2, <2>3 DEF IInv, TypeOK
  <2> QED
    BY <2>2, <2>3, <2>4, <2>5 DEF IInv, BothLists
<1>11. CASE RemoveIssuedCredentials
  <2> DEFINE list == Deleted(credentialList, IssuedBy(removedIssuer))
  <2>1. ListSound(list)
    BY <1>a, DeletedSound DEF IssuedBy
  <2>2. /\ credentialList' = list
        /\ flash' \in {flash, [flash EXCEPT !.credentials = list]}
        /\ IssuedBy(removedIssuer) = {} => flash' = flash
        /\ IssuedBy(removedIssuer) # {} => flash' = [flash EXCEPT !.credentials = list]
        /\ pc' = "idle" /\ statusCode' = "SUCCESS" /\ removedIssuer' = NoKey
        /\ UNCHANGED <<issuerKeyList, readerKey, configurationState>>
        /\ flash = Cached
    BY <1>11 DEF RemoveIssuedCredentials, IInv
  <2>3. IssuedBy(removedIssuer) = {} => list = credentialList
    <3> SUFFICES ASSUME IssuedBy(removedIssuer) = {} PROVE list = credentialList
      OBVIOUS
    <3>1. credentialList \in DeviceCredentialKeyList
      BY <1>a DEF ListSound
    <3>2. WithState({}, "Active") = {} /\ WithState({}, "Suspended") = {} /\ Cardinality({}) = 0
      BY FS_EmptySet DEF WithState
    <3> QED
      BY <3>1, <3>2 DEF Deleted, DeviceCredentialKeyList
  <2>4. list \in DeviceCredentialKeyList
    BY <2>1 DEF ListSound
  <2> HIDE DEF list
  <2>5. flash' = [flash EXCEPT !.credentials = list]
    BY <1>a, <2>2, <2>3 DEF Cached
  <2>6. /\ flash' \in Records
        /\ flash'.credentials = list
        /\ flash'.issuers = flash.issuers
    BY <1>a, <2>4, <2>5 DEF Records
  <2>7. flash' = Cached'
    BY <1>a, <2>2, <2>5 DEF Cached
  <2>8. TypeOK'
    BY <2>2, <2>4, <2>6 DEF IInv, TypeOK, StatusCodes
  <2> QED
    BY <2>1, <2>2, <2>6, <2>7, <2>8 DEF IInv, BothLists
<1>12. ASSUME NEW field \in DOMAIN EmptyFlash, PurgeRecord(field)
       PROVE  IInv'
  <2>1. /\ flash' = [flash EXCEPT ![field] = EmptyFlash[field]] /\ pc = "purge"
        /\ UNCHANGED <<cache, pc, removedIssuer, statusCode>>
    BY <1>12 DEF PurgeRecord
  <2>2. field \in {"issuers", "credentials", "reader", "configuration"}
    BY DEF EmptyFlash
  <2>3. /\ flash' \in Records
        /\ flash'.credentials \in {flash.credentials, EmptyFlash.credentials}
        /\ flash'.issuers \in {flash.issuers, EmptyFlash.issuers}
    <3>1. CASE field = "issuers"
      BY <1>a, <2>1, <3>1, EmptyFlashSound DEF Records
    <3>2. CASE field = "credentials"
      BY <1>a, <2>1, <3>2, EmptyFlashSound DEF Records
    <3>3. CASE field = "reader"
      BY <1>a, <2>1, <3>3, EmptyFlashSound DEF Records
    <3>4. CASE field = "configuration"
      BY <1>a, <2>1, <3>4, EmptyFlashSound DEF Records
    <3> QED
      BY <2>2, <3>1, <3>2, <3>3, <3>4
  <2>4. ListSound(flash'.credentials) /\ UniqueKeys(flash'.issuers)
    BY <1>a, <2>3, EmptyFlashSound
  <2> QED
    BY <2>1, <2>3, <2>4 DEF IInv, TypeOK, cache, BothLists
<1>13. CASE PurgeReload
  <2>1. /\ LoadCache(flash) /\ pc' = "idle"
        /\ UNCHANGED <<flash, removedIssuer, statusCode>>
    BY <1>13 DEF PurgeReload
  <2> QED
    BY <1>a, <2>1, LoadIInv
<1>14. CASE UNCHANGED vars
  <2>1. /\ issuerKeyList' = issuerKeyList /\ credentialList' = credentialList
        /\ readerKey' = readerKey /\ configurationState' = configurationState /\ flash' = flash
        /\ pc' = pc /\ removedIssuer' = removedIssuer /\ statusCode' = statusCode
    BY <1>14 DEF vars
  <2>2. statusCode \in StatusCodes
    BY DEF IInv, TypeOK
  <2> QED
    BY <2>1, <2>2, AnswerIInv
<1>15. CASE Request
  BY <1>3, <1>4, <1>5, <1>6, <1>7, <1>8, <1>9, <1>15 DEF Request
<1>16. CASE Continue
  BY <1>10, <1>11, <1>12, <1>13, <1>16 DEF Continue
<1> QED
  BY <1>1, <1>2, <1>14, <1>15, <1>16 DEF Next

LEMMA InductiveInvariant == CrashSpec => []IInv
BY InitIInv, NextIInv, PTL DEF CrashSpec

\* Whatever is requested and wherever the power fails: the lists stay typed
\* (no count drops below zero), in RAM and in flash.
THEOREM TypeCorrect == CrashSpec => []TypeOK
<1>1. IInv => TypeOK
  BY DEF IInv
<1> QED
  BY <1>1, InductiveInvariant, PTL

\* The two counts kept by hand are the numbers of active and of suspended
\* entries (IncrementDeviceCredentialKeyNumEntries and its counterpart).
THEOREM CountsCorrect == CrashSpec => []CountsMatchEntries
<1>1. IInv => CountsMatchEntries
  BY DEF IInv, ListSound, CountsMatchEntries
<1> QED
  BY <1>1, InductiveInvariant, PTL

\* The counters order the entries, none of them is handed out twice
\* (FindLRUDeviceCredentialEntry relies on it).
THEOREM CountersCorrect == CrashSpec => []CountersOrderEntries
<1>1. IInv => CountersOrderEntries
  BY DEF IInv, ListSound, CountersOrderEntries
<1> QED
  BY <1>1, InductiveInvariant, PTL

\* An identifier names one issuer key and one credential (the duplicate checks
\* of IssuerKeyAdd and DeviceCredentialKeyAdd).
THEOREM KeysUnique == CrashSpec => []OneEntryPerKey
<1>1. IInv => OneEntryPerKey
  BY DEF IInv, ListSound, OneEntryPerKey
<1> QED
  BY <1>1, InductiveInvariant, PTL

\* Between two requests a restart loses nothing (the flash write of each
\* handler, and the reload that ends Create and Purge).
THEOREM RestartSafe == CrashSpec => []RestartKeepsLists
<1>1. IInv => RestartKeepsLists
  BY DEF IInv, RestartKeepsLists
<1> QED
  BY <1>1, InductiveInvariant, PTL

-----------------------------------------------------------------------------
(* The eviction.                                                           *)

LEMMA LruIdleLong ==
  ASSUME NEW list, ListSound(list), list.numActive >= MaximumActive
  PROVE  list.counter - FindLRUDeviceCredentialEntry(list).counter >= MaximumActive
<1> DEFINE active == WithState(list.entries, "Active")
           lru == FindLRUDeviceCredentialEntry(list)
           between == lru.counter .. list.counter - 1
           f == [e \in active |-> e.counter]
<1>1. /\ list.counter \in Nat /\ list.numActive \in Nat
      /\ \A e \in list.entries : e.counter \in Nat
      /\ list.numActive = Cardinality(active) /\ active \subseteq list.entries
  BY DEF ListSound, DeviceCredentialKeyList, DeviceCredentialKeyEntry, CountsMatch, WithState
<1>2. lru \in active /\ \A e \in active : lru.counter <= e.counter
  BY LruExists
<1>3. /\ \A e \in active : e.counter < list.counter
      /\ \A e, g \in active : e.counter = g.counter => e = g
  BY <1>1 DEF ListSound, CountersOrder
<1> HIDE DEF lru, active
<1>4. lru.counter \in Nat /\ lru.counter < list.counter
  BY <1>1, <1>2, <1>3
<1>5. \A e \in active : e.counter \in between
  BY <1>1, <1>2, <1>3, <1>4
<1>6. IsFiniteSet(between) /\ Cardinality(between) = list.counter - lru.counter
  <2>1. lru.counter \in Int /\ list.counter - 1 \in Int /\ ~(lru.counter > list.counter - 1)
    BY <1>1, <1>4
  <2>2. (list.counter - 1) - lru.counter + 1 = list.counter - lru.counter
    BY <1>1, <1>4
  <2> QED
    BY <2>1, <2>2, FS_Interval
<1> HIDE DEF between
<1>7. IsFiniteSet(active)
  BY FS_Subset DEF ListSound, active, WithState
<1>8. ~(Cardinality(between) < Cardinality(active))
  <2>1. f \in [active -> between] /\ \A x, y \in active : f[x] = f[y] => x = y
    BY <1>3, <1>5
  <2> HIDE DEF f
  <2> QED
    BY <1>6, <1>7, <2>1, FS_PigeonHole
<1>9. MaximumActive \in Nat /\ Cardinality(active) \in Nat
  BY <1>1, SizesAssumption
<1> QED
  BY <1>1, <1>4, <1>6, <1>8, <1>9 DEF lru

\* The entries whose key is gone after a step, when the step brings in a key.
Idle(list) ==
    \A e \in credentialList.entries :
        (\A f \in list.entries : e.key # f.key) => credentialList.counter - e.counter >= MaximumActive

LEMMA NextIdleLong ==
  ASSUME IInv, [Next \/ PowerLoss]_vars, pc = "idle",
         NEW new \in credentialList'.entries, \A e \in credentialList.entries : e.key # new.key
  PROVE  Idle(credentialList')
<1>a. ListSound(credentialList)
  BY DEF IInv, BothLists
<1>1. CASE credentialList' = credentialList
  BY <1>1
<1>2. CASE credentialList'.entries = {}
  BY <1>2
<1>3. ASSUME NEW key \in CredentialKeys, NEW issuer, NEW state, DeviceCredentialKeyAdd(key, issuer, state)
      PROVE  Idle(credentialList')
  <2> DEFINE entry == [key |-> key, issuer |-> issuer, state |-> state,
                       counter |-> credentialList.counter]
             lru == FindLRUDeviceCredentialEntry(credentialList)
  <2>1. CASE \E code : Answer(code)
    BY <1>1, <2>1 DEF Answer, cache
  <2>2. ASSUME NEW e \in credentialList.entries, UpdateDeviceCredentialEntryState(e, state)
        PROVE  FALSE
    <3> DEFINE updated == [e EXCEPT !.state = state, !.counter = credentialList.counter]
    <3>1. updated.key = e.key
      BY <1>a DEF ListSound, DeviceCredentialKeyList, DeviceCredentialKeyEntry
    <3>2. credentialList'.entries = (credentialList.entries \ {e}) \cup {updated}
      BY <2>2 DEF UpdateDeviceCredentialEntryState, SaveCredentialList, Inserted, Deleted
    <3> QED
      BY <3>1, <3>2
  <2>3. ASSUME ActiveFull, SaveCredentialList(Inserted(Deleted(credentialList, {lru}), entry))
        PROVE  Idle(credentialList')
    <3>1. credentialList'.entries = (credentialList.entries \ {lru}) \cup {entry}
      BY <2>3 DEF SaveCredentialList, Inserted, Deleted
    <3>2. credentialList.counter - lru.counter >= MaximumActive
      BY <1>a, <2>3, LruIdleLong DEF ActiveFull
    <3> QED
      BY <3>1, <3>2 DEF Idle
  <2>4. CASE SaveCredentialList(Inserted(credentialList, entry))
    <3>1. credentialList'.entries = credentialList.entries \cup {entry}
      BY <2>4 DEF SaveCredentialList, Inserted
    <3> QED
      BY <3>1 DEF Idle
  <2>5. CASE UNCHANGED <<cache, flash, removedIssuer, statusCode>>
    BY <1>1, <2>5 DEF cache
  <2> QED
    BY <1>3, <2>1, <2>2, <2>3, <2>4, <2>5
    DEF DeviceCredentialKeyAdd, CredentialEntries, StoreNewCredential
<1>4. ASSUME NEW key \in CredentialKeys, DeviceCredentialKeyRemove(key)
      PROVE  Idle(credentialList')
  <2>1. CASE \E code : Answer(code)
    BY <1>1, <2>1 DEF Answer, cache
  <2>2. ASSUME NEW e, SaveCredentialList(Deleted(credentialList, {e}))
        PROVE  FALSE
    <3>1. credentialList'.entries = credentialList.entries \ {e}
      BY <2>2 DEF SaveCredentialList, Deleted
    <3> QED
      BY <3>1
  <2> QED
    BY <1>4, <2>1, <2>2 DEF DeviceCredentialKeyRemove, CredentialEntries
<1>5. ASSUME NEW key, NEW cacheType, IssuerKeyAdd(key, cacheType) \/ IssuerKeyRemove(key, cacheType)
      PROVE  credentialList' = credentialList
  BY <1>5 DEF IssuerKeyAdd, IssuerKeyRemove, Answer, SaveIssuerKeyList, cache
<1>6. ASSUME NEW key, ReaderKeyAdd(key) \/ ReaderKeyRemove(key)
      PROVE  credentialList' = credentialList
  BY <1>6 DEF ReaderKeyAdd, ReaderKeyRemove, Answer, SaveReaderKey, cache
<1>7. CASE Purge \/ UNCHANGED vars
  BY <1>1, <1>7 DEF Purge, cache, vars
<1>8. CASE PowerLoss
  BY <1>2, <1>8 DEF PowerLoss, LoadCache, EmptyFlash, EmptyList
<1>9. ~Create /\ ~Continue
  BY DEF Create, Continue, IncrementConfigurationState, RemoveIssuedCredentials,
         PurgeRecord, PurgeReload
<1> QED
  BY <1>1, <1>3, <1>4, <1>5, <1>6, <1>7, <1>8, <1>9 DEF Next, Request

\* DeviceCredentialKeyAdd makes room by evicting a credential that was not
\* among the last MaximumActive ones added or updated.
THEOREM EvictionIdle == CrashSpec => EvictedWasIdleLong
<1>1. IInv /\ [Next \/ PowerLoss]_vars =>
      [pc = "idle" /\ (\E f \in credentialList'.entries :
                          \A e \in credentialList.entries : e.key # f.key)
       => \A e \in credentialList.entries :
             (\A f \in credentialList'.entries : e.key # f.key)
             => credentialList.counter - e.counter >= MaximumActive]_vars
  BY NextIdleLong DEF Idle
<1> QED
  BY <1>1, InductiveInvariant, PTL DEF CrashSpec, EvictedWasIdleLong

-----------------------------------------------------------------------------
(* No credential outlives its issuer key as long as the power does not     *)
(* fail (a run shows that a power loss breaks it).  The removal of an      *)
(* issuer key is three steps: the key goes, the configuration state moves, *)
(* the credentials go.  In between the key is remembered in removedIssuer, *)
(* and its credentials are the only ones without an issuer key.  Before    *)
(* Create nothing has ever been stored.                                    *)
(*                                                                         *)
(* So NfcAccess without power loss implements AccessLists: the counters,   *)
(* the counts, the flash and the several writes of a change are not seen   *)
(* by a controller.  The first write of a request is the abstract step,    *)
(* the others are stutters.                                                *)

CascadeInv ==
    /\ removedIssuer # NoKey => pc \in {"configuration", "cascade"}
    /\ removedIssuer \notin KnownIssuers
    /\ \A e \in credentialList.entries : e.issuer \in KnownIssuers \/ e.issuer = removedIssuer
    /\ pc = "off" => flash = EmptyFlash /\ Cached = EmptyFlash

\* Outside of a removal every credential has its issuer key.
LEMMA SettledIssuers ==
  ASSUME IInv, CascadeInv, pc \notin {"configuration", "cascade"}
  PROVE  removedIssuer = NoKey /\ \A e \in credentialList.entries : e.issuer \in KnownIssuers
<1>1. removedIssuer = NoKey
  BY DEF CascadeInv
<1>2. \A e \in credentialList.entries : e.issuer \in IssuerKeys
  BY DEF IInv, TypeOK, DeviceCredentialKeyList, DeviceCredentialKeyEntry
<1> QED
  BY <1>1, <1>2, KeysAssumption DEF CascadeInv

LEMMA InitCascadeInv == Init => CascadeInv
BY DEF Init, CascadeInv, KnownIssuers, EmptyList, EmptyFlash, Cached

\* A step that leaves the lists alone.
LEMMA KeepCascadeInv ==
  ASSUME CascadeInv, issuerKeyList' = issuerKeyList, credentialList' = credentialList,
         readerKey' = readerKey, configurationState' = configurationState,
         removedIssuer' = removedIssuer,
         \/ pc' = pc /\ (flash' = flash \/ pc = "purge")
         \/ pc = "idle" /\ pc' \in {"purge", "overrun"}
  PROVE  CascadeInv'
BY DEF CascadeInv, KnownIssuers, Cached

\* A step that stores credentials of known issuers.
LEMMA SaveCredentialsCascadeInv ==
  ASSUME IInv, CascadeInv, pc = "idle", NEW list, SaveCredentialList(list),
         \A e \in list.entries : e.issuer \in KnownIssuers
  PROVE  CascadeInv'
BY DEF CascadeInv, KnownIssuers, SaveCredentialList

\* A step that loads the lists when there is nothing to load.
LEMMA LoadEmptyCascadeInv ==
  ASSUME LoadCache(EmptyFlash), pc' = "idle", removedIssuer' = NoKey
  PROVE  CascadeInv'
BY DEF CascadeInv, KnownIssuers, LoadCache, EmptyFlash, EmptyList

LEMMA NextCascadeInv == IInv /\ CascadeInv /\ [Next]_vars => CascadeInv'
<1> SUFFICES ASSUME IInv, CascadeInv, [Next]_vars PROVE CascadeInv'
  OBVIOUS
<1>a. ASSUME NEW code, Answer(code)
      PROVE  CascadeInv'
  BY <1>a, KeepCascadeInv DEF Answer, cache
<1>1. CASE Create
  <2>1. pc = "off" /\ LoadCache(EmptyFlash) /\ pc' = "idle" /\ removedIssuer' = NoKey
    BY <1>1 DEF Create, CascadeInv
  <2> QED
    BY <2>1, LoadEmptyCascadeInv
<1>2. ASSUME NEW key \in IssuerKeys, NEW cacheType, IssuerKeyAdd(key, cacheType)
      PROVE  CascadeInv'
  <2>1. pc = "idle"
    BY <1>2 DEF IssuerKeyAdd
  <2>2. CASE \E code : Answer(code)
    BY <2>2, <1>a
  <2>3. ASSUME NEW homeUserKey,
               SaveIssuerKeyList(issuerKeyList \cup {[key |-> key, homeUserKey |-> homeUserKey]}),
               UNCHANGED removedIssuer
        PROVE  CascadeInv'
    <3>1. KnownIssuers' = KnownIssuers \cup {key}
      <4> DEFINE new == [key |-> key, homeUserKey |-> homeUserKey]
      <4>1. issuerKeyList' = issuerKeyList \cup {new} /\ new.key = key
        BY <2>3 DEF SaveIssuerKeyList
      <4> HIDE DEF new
      <4> QED
        BY <4>1 DEF KnownIssuers
    <3>2. removedIssuer' = NoKey /\ NoKey \notin KnownIssuers \cup {key}
      BY <2>1, <2>3, SettledIssuers, KeysAssumption DEF CascadeInv
    <3>3. credentialList' = credentialList /\ pc' = "configuration"
      BY <2>3 DEF SaveIssuerKeyList
    <3> QED
      BY <2>1, <3>1, <3>2, <3>3, SettledIssuers DEF CascadeInv
  <2> QED
    BY <1>2, <2>2, <2>3 DEF IssuerKeyAdd
<1>3. ASSUME NEW key \in IssuerKeys, NEW cacheType, IssuerKeyRemove(key, cacheType)
      PROVE  CascadeInv'
  <2>1. pc = "idle"
    BY <1>3 DEF IssuerKeyRemove
  <2>2. CASE \E code : Answer(code)
    BY <2>2, <1>a
  <2>3. ASSUME NEW entry \in IssuerEntries(key), SaveIssuerKeyList(issuerKeyList \ {entry}),
               removedIssuer' = key
        PROVE  CascadeInv'
    <3>1. UniqueKeys(issuerKeyList)
      BY DEF IInv
    <3>2. KnownIssuers' = KnownIssuers \ {key}
      BY <2>3, <3>1 DEF SaveIssuerKeyList, KnownIssuers, IssuerEntries, UniqueKeys
    <3>3. credentialList' = credentialList /\ pc' = "configuration"
      BY <2>3 DEF SaveIssuerKeyList
    <3> QED
      BY <2>1, <2>3, <3>2, <3>3, SettledIssuers DEF CascadeInv
  <2> QED
    BY <1>3, <2>2, <2>3 DEF IssuerKeyRemove
<1>4. ASSUME NEW key \in CredentialKeys, NEW issuer \in IssuerKeys, NEW state \in States,
             DeviceCredentialKeyAdd(key, issuer, state)
      PROVE  CascadeInv'
  <2>1. pc = "idle" /\ \A e \in credentialList.entries : e.issuer \in KnownIssuers
    BY <1>4, SettledIssuers DEF DeviceCredentialKeyAdd
  <2>2. CASE \E code : Answer(code)
    BY <2>2, <1>a
  <2>3. ASSUME NEW e \in credentialList.entries, UpdateDeviceCredentialEntryState(e, state)
        PROVE  CascadeInv'
    <3> DEFINE entry == [e EXCEPT !.state = state, !.counter = credentialList.counter]
               list == Inserted(Deleted(credentialList, {e}), entry)
    <3>1. e \in DeviceCredentialKeyEntry
      BY DEF IInv, TypeOK, DeviceCredentialKeyList
    <3>2. list.entries = (credentialList.entries \ {e}) \cup {entry} /\ entry.issuer = e.issuer
      BY <3>1 DEF Inserted, Deleted, DeviceCredentialKeyEntry
    <3>3. SaveCredentialList(list)
      BY <2>3 DEF UpdateDeviceCredentialEntryState
    <3> HIDE DEF list, entry
    <3> QED
      BY <2>1, <3>2, <3>3, SaveCredentialsCascadeInv
  <2>4. ASSUME StoreNewCredential(key, issuer, state), IssuerFound(issuer)
        PROVE  CascadeInv'
    <3> DEFINE entry == [key |-> key, issuer |-> issuer, state |-> state,
                         counter |-> credentialList.counter]
               kept(list) == list = credentialList
                             \/ \E gone : list = Deleted(credentialList, gone)
    <3>1. ASSUME NEW list, kept(list), SaveCredentialList(Inserted(list, entry))
          PROVE  CascadeInv'
      <4>1. \A f \in Inserted(list, entry).entries : f.issuer \in KnownIssuers
        BY <2>1, <2>4, <3>1 DEF Inserted, Deleted, IssuerFound
      <4> QED
        BY <2>1, <3>1, <4>1, SaveCredentialsCascadeInv
    <3>2. CASE /\ pc' = "overrun"
               /\ UNCHANGED <<cache, flash, removedIssuer, statusCode>>
      BY <2>1, <3>2, KeepCascadeInv DEF cache
    <3> QED
      BY <2>4, <3>1, <3>2 DEF StoreNewCredential
  <2> QED
    BY <1>4, <2>2, <2>3, <2>4 DEF DeviceCredentialKeyAdd, CredentialEntries
<1>5. ASSUME NEW key \in CredentialKeys, DeviceCredentialKeyRemove(key)
      PROVE  CascadeInv'
  <2>1. pc = "idle" /\ \A e \in credentialList.entries : e.issuer \in KnownIssuers
    BY <1>5, SettledIssuers DEF DeviceCredentialKeyRemove, CredentialEntries
  <2>2. ASSUME NEW e, SaveCredentialList(Deleted(credentialList, {e}))
        PROVE  CascadeInv'
    <3>1. \A f \in Deleted(credentialList, {e}).entries : f.issuer \in KnownIssuers
      BY <2>1 DEF Deleted
    <3> QED
      BY <2>1, <2>2, <3>1, SaveCredentialsCascadeInv
  <2> QED
    BY <1>5, <1>a, <2>2 DEF DeviceCredentialKeyRemove, CredentialEntries
<1>6. ASSUME NEW key, pc = "idle", SaveReaderKey(key)
      PROVE  CascadeInv'
  BY <1>6 DEF SaveReaderKey, CascadeInv, KnownIssuers
<1>7. ASSUME NEW key, ReaderKeyAdd(key) \/ ReaderKeyRemove(key)
      PROVE  CascadeInv'
  BY <1>7, <1>a, <1>6 DEF ReaderKeyAdd, ReaderKeyRemove
<1>8. CASE Purge
  BY <1>8, KeepCascadeInv DEF Purge, cache
<1>9. CASE IncrementConfigurationState
  BY <1>9 DEF IncrementConfigurationState, CascadeInv, KnownIssuers
<1>10. CASE RemoveIssuedCredentials
  <2>1. /\ credentialList'.entries = credentialList.entries \ IssuedBy(removedIssuer)
        /\ removedIssuer' = NoKey /\ pc' = "idle" /\ issuerKeyList' = issuerKeyList
    BY <1>10 DEF RemoveIssuedCredentials, Deleted
  <2>2. NoKey \notin KnownIssuers
    BY KeysAssumption DEF IInv, TypeOK, IssuerKeyEntry, KnownIssuers
  <2> QED
    BY <2>1, <2>2 DEF CascadeInv, IssuedBy, KnownIssuers
<1>11. ASSUME NEW field, PurgeRecord(field)
       PROVE  CascadeInv'
  BY <1>11, KeepCascadeInv DEF PurgeRecord, cache
<1>12. CASE PurgeReload
  <2>1. LoadCache(EmptyFlash) /\ pc' = "idle" /\ removedIssuer' = NoKey
    BY <1>12 DEF PurgeReload, CascadeInv
  <2> QED
    BY <2>1, LoadEmptyCascadeInv
<1>13. CASE UNCHANGED vars
  BY <1>13, KeepCascadeInv DEF vars
<1>14. CASE Request
  BY <1>2, <1>3, <1>4, <1>5, <1>7, <1>8, <1>14 DEF Request
<1>15. CASE Continue
  BY <1>9, <1>10, <1>11, <1>12, <1>15 DEF Continue
<1> QED
  BY <1>1, <1>13, <1>14, <1>15 DEF Next

LEMMA SpecInvariant == Spec => [](IInv /\ CascadeInv)
<1>1. IInv /\ [Next]_vars => IInv'
  BY NextIInv
<1> QED
  BY <1>1, InitIInv, InitCascadeInv, NextCascadeInv, PTL DEF Spec

\* IssuerKeyRemove takes the credentials of the issuer along, and
\* DeviceCredentialKeyAdd stores none without its issuer: between two requests
\* no credential is left without its issuer key.
THEOREM IssuersVouch == Spec => []CredentialsHaveIssuers
<1>1. IInv /\ CascadeInv => CredentialsHaveIssuers
  BY SettledIssuers DEF CredentialsHaveIssuers
<1> QED
  BY <1>1, SpecInvariant, PTL

-----------------------------------------------------------------------------
(* The refinement.                                                         *)

\* Nothing a controller sees changes.
LEMMA Stutter ==
  ASSUME issuerKeyList' = issuerKeyList, credentialList' = credentialList,
         readerKey' = readerKey, configurationState' = configurationState,
         pc' = pc \/ "configuration" \notin {pc, pc'}
  PROVE  UNCHANGED Lists!vars
BY DEF Lists!vars, VisibleCredentials, VisibleState, KnownIssuers

\* The first write of a request counts as a change.
LEMMA FirstWriteCounts ==
  ASSUME pc = "idle", pc' = "configuration", configurationState' = configurationState
  PROVE  Lists!Changed
BY DEF Lists!Changed, VisibleState

\* Outside of a removal all credentials are visible.
LEMMA AllVisible ==
  ASSUME IInv, CascadeInv, pc \notin {"configuration", "cascade"}
  PROVE  VisibleCredentials = {Visible(e) : e \in credentialList.entries}
BY SettledIssuers DEF VisibleCredentials

\* What the credential list shows after a step that stores credentials.
LEMMA SavedVisible ==
  ASSUME IInv, CascadeInv, pc = "idle", NEW list, SaveCredentialList(list),
         \A e \in list.entries : e.issuer \in KnownIssuers
  PROVE  /\ VisibleCredentials' = {Visible(e) : e \in list.entries}
         /\ VisibleCredentials = {Visible(e) : e \in credentialList.entries}
         /\ Lists!Changed
         /\ UNCHANGED <<issuerKeyList, readerKey>>
<1>1. /\ credentialList' = list /\ pc' = "configuration"
      /\ UNCHANGED <<issuerKeyList, readerKey, configurationState>>
  BY DEF SaveCredentialList
<1>2. KnownIssuers' = KnownIssuers
  BY <1>1 DEF KnownIssuers
<1>3. VisibleCredentials' = {Visible(e) : e \in list.entries}
  BY <1>1, <1>2 DEF VisibleCredentials
<1> QED
  BY <1>1, <1>3, AllVisible, FirstWriteCounts

\* An entry that goes takes what it shows along: no other shows the same.
LEMMA VisibleWithout ==
  ASSUME NEW entries, UniqueKeys(entries), NEW e \in entries
  PROVE  {Visible(f) : f \in entries \ {e}} = {Visible(f) : f \in entries} \ {Visible(e)}
<1>1. \A f \in entries : Visible(f) = Visible(e) => f = e
  BY DEF Visible, UniqueKeys
<1> QED
  BY <1>1

LEMMA InitRefines == Init => Lists!Init
BY DEF Init, Lists!Init, VisibleCredentials, VisibleState, EmptyList

LEMMA StepRefines == IInv /\ CascadeInv /\ [Next]_vars => [Lists!Next]_(Lists!vars)
<1> SUFFICES ASSUME IInv, CascadeInv, [Next]_vars PROVE [Lists!Next]_(Lists!vars)
  OBVIOUS
<1>a. ASSUME NEW code, Answer(code)
      PROVE  UNCHANGED Lists!vars
  BY <1>a, Stutter DEF Answer, cache
<1>b. /\ UniqueKeys(issuerKeyList) /\ UniqueKeys(credentialList.entries)
      /\ credentialList.entries \subseteq DeviceCredentialKeyEntry
  BY DEF IInv, BothLists, ListSound, DeviceCredentialKeyList
<1>1. CASE Create
  <2>1. LoadCache(EmptyFlash) /\ Cached = EmptyFlash /\ pc = "off" /\ pc' = "idle"
    BY <1>1 DEF Create, CascadeInv
  <2> QED
    BY <2>1, Stutter DEF LoadCache, Cached, EmptyFlash
<1>2. ASSUME NEW key \in IssuerKeys, NEW cacheType, IssuerKeyAdd(key, cacheType)
      PROVE  [Lists!Next]_(Lists!vars)
  <2>1. pc = "idle"
    BY <1>2 DEF IssuerKeyAdd
  <2>2. CASE \E code : Answer(code)
    BY <2>2, <1>a
  <2>3. ASSUME NEW homeUserKey \in BOOLEAN, IssuerEntries(key) = {},
               SaveIssuerKeyList(issuerKeyList \cup {[key |-> key, homeUserKey |-> homeUserKey]})
        PROVE  Lists!Next
    <3> DEFINE new == [key |-> key, homeUserKey |-> homeUserKey]
    <3>1. /\ issuerKeyList' = issuerKeyList \cup {new} /\ pc' = "configuration"
          /\ UNCHANGED <<credentialList, readerKey, configurationState>>
      BY <2>3 DEF SaveIssuerKeyList
    <3>2. new \in Lists!Issuer /\ new.key = key
      BY DEF Lists!Issuer
    <3>3. \A old \in issuerKeyList : old.key # new.key
      BY <2>3, <3>2 DEF IssuerEntries
    <3> HIDE DEF new
    <3>4. KnownIssuers \subseteq KnownIssuers'
      BY <3>1 DEF KnownIssuers
    <3>5. VisibleCredentials' = VisibleCredentials
      BY <2>1, <3>1, <3>4, SettledIssuers DEF VisibleCredentials
    <3>6. Lists!AddIssuer(new)
      BY <2>1, <3>1, <3>3, <3>5, FirstWriteCounts DEF Lists!AddIssuer
    <3> QED
      BY <3>2, <3>6 DEF Lists!Next
  <2> QED
    BY <1>2, <2>2, <2>3 DEF IssuerKeyAdd
<1>3. ASSUME NEW key \in IssuerKeys, NEW cacheType, IssuerKeyRemove(key, cacheType)
      PROVE  [Lists!Next]_(Lists!vars)
  <2>1. pc = "idle"
    BY <1>3 DEF IssuerKeyRemove
  <2>2. CASE \E code : Answer(code)
    BY <2>2, <1>a
  <2>3. ASSUME NEW old \in IssuerEntries(key), SaveIssuerKeyList(issuerKeyList \ {old})
        PROVE  Lists!Next
    <3>1. /\ issuerKeyList' = issuerKeyList \ {old} /\ pc' = "configuration"
          /\ UNCHANGED <<credentialList, readerKey, configurationState>>
      BY <2>3 DEF SaveIssuerKeyList
    <3>2. old \in issuerKeyList /\ old.key = key
      BY DEF IssuerEntries
    <3>3. KnownIssuers' = KnownIssuers \ {key}
      BY <1>b, <3>1, <3>2 DEF KnownIssuers, UniqueKeys
    <3>4. VisibleCredentials' = {c \in VisibleCredentials : c.issuer # old.key}
      BY <3>1, <3>2, <3>3 DEF VisibleCredentials, Visible
    <3>5. Lists!RemoveIssuer(old)
      BY <2>1, <3>1, <3>4, FirstWriteCounts DEF Lists!RemoveIssuer
    <3> QED
      BY <3>2, <3>5 DEF Lists!Next
  <2> QED
    BY <1>3, <2>2, <2>3 DEF IssuerKeyRemove
<1>4. ASSUME NEW key \in CredentialKeys, NEW issuer \in IssuerKeys, NEW state \in States,
             DeviceCredentialKeyAdd(key, issuer, state)
      PROVE  [Lists!Next]_(Lists!vars)
  <2>1. pc = "idle" /\ \A e \in credentialList.entries : e.issuer \in KnownIssuers
    BY <1>4, SettledIssuers DEF DeviceCredentialKeyAdd
  <2>2. CASE \E code : Answer(code)
    BY <2>2, <1>a
  <2>3. ASSUME NEW e \in credentialList.entries, e.state # state,
               UpdateDeviceCredentialEntryState(e, state)
        PROVE  Lists!Next
    <3> DEFINE entry == [e EXCEPT !.state = state, !.counter = credentialList.counter]
               list == Inserted(Deleted(credentialList, {e}), entry)
    <3>1. /\ list.entries = (credentialList.entries \ {e}) \cup {entry}
          /\ entry.issuer = e.issuer /\ SaveCredentialList(list)
          /\ Visible(entry) = [Visible(e) EXCEPT !.state = state]
      BY <1>b, <2>3
      DEF Inserted, Deleted, DeviceCredentialKeyEntry, UpdateDeviceCredentialEntryState, Visible
    <3> HIDE DEF entry, list
    <3>2. \A f \in list.entries : f.issuer \in KnownIssuers
      BY <2>1, <3>1
    <3>3. VisibleCredentials' = (VisibleCredentials \ {Visible(e)}) \cup {Visible(entry)}
      BY <1>b, <2>1, <3>1, <3>2, SavedVisible, VisibleWithout
    <3>4. Visible(e) \in VisibleCredentials /\ Visible(e).state # state
      BY <2>1, <2>3, AllVisible DEF Visible
    <3>5. Lists!SetState(Visible(e), state)
      BY <2>1, <3>1, <3>2, <3>3, <3>4, SavedVisible DEF Lists!SetState
    <3> QED
      BY <3>4, <3>5 DEF Lists!Next
  <2>4. ASSUME StoreNewCredential(key, issuer, state), IssuerFound(issuer),
               CredentialEntries(key) = {}
        PROVE  [Lists!Next]_(Lists!vars)
    <3> DEFINE entry == [key |-> key, issuer |-> issuer, state |-> state,
                         counter |-> credentialList.counter]
               new == Visible(entry)
    <3>1. /\ entry.issuer \in KnownIssuers /\ entry.key = key
          /\ new \in Lists!Credential /\ new.key = key /\ new.issuer = issuer /\ new.state = state
      BY <2>4 DEF IssuerFound, Visible, Lists!Credential
    <3>2. \E i \in issuerKeyList : i.key = new.issuer
      BY <2>4, <3>1 DEF IssuerFound, KnownIssuers
    <3>3. \A old \in VisibleCredentials : old.key # new.key
      BY <2>1, <2>4, <3>1, AllVisible DEF Visible, CredentialEntries
    <3> HIDE DEF entry
    <3>4. CASE SaveCredentialList(Inserted(credentialList, entry))
      <4> DEFINE list == Inserted(credentialList, entry)
      <4>1. list.entries = credentialList.entries \cup {entry}
        BY DEF Inserted
      <4> HIDE DEF list
      <4>2. \A f \in list.entries : f.issuer \in KnownIssuers
        BY <2>1, <3>1, <4>1
      <4>3. SaveCredentialList(list)
        BY <3>4 DEF list
      <4>4. VisibleCredentials' = VisibleCredentials \cup {new}
        BY <2>1, <4>1, <4>2, <4>3, SavedVisible
      <4>5. Lists!AddCredential(new)
        BY <2>1, <3>2, <3>3, <4>2, <4>3, <4>4, SavedVisible DEF Lists!AddCredential
      <4> QED
        BY <3>1, <4>5 DEF Lists!Next
    <3>5. ASSUME state = "Active", ActiveFull,
                 SaveCredentialList(Inserted(
                     Deleted(credentialList, {FindLRUDeviceCredentialEntry(credentialList)}), entry))
          PROVE  Lists!Next
      <4> DEFINE lru == FindLRUDeviceCredentialEntry(credentialList)
                 list == Inserted(Deleted(credentialList, {lru}), entry)
      <4>1. list.entries = (credentialList.entries \ {lru}) \cup {entry}
        BY DEF Inserted, Deleted
      <4>2. lru \in credentialList.entries /\ lru.state = "Active"
        BY <3>5, LruExists DEF ActiveFull, WithState, IInv, BothLists
      <4>3. SaveCredentialList(list)
        BY <3>5
      <4> HIDE DEF list, lru
      <4>4. \A f \in list.entries : f.issuer \in KnownIssuers
        BY <2>1, <3>1, <4>1
      <4>5. VisibleCredentials' = (VisibleCredentials \ {Visible(lru)}) \cup {new}
        BY <1>b, <2>1, <4>1, <4>2, <4>3, <4>4, SavedVisible, VisibleWithout
      <4>6. Visible(lru) \in VisibleCredentials /\ Visible(lru).state = "Active"
        BY <2>1, <4>2, AllVisible DEF Visible
      <4>7. Lists!AddCredential(new)
        BY <2>1, <3>1, <3>2, <3>3, <3>5, <4>3, <4>4, <4>5, <4>6, SavedVisible
        DEF Lists!AddCredential
      <4> QED
        BY <3>1, <4>7 DEF Lists!Next
    <3>6. CASE /\ pc' = "overrun"
               /\ UNCHANGED <<cache, flash, removedIssuer, statusCode>>
      BY <2>1, <3>6, Stutter DEF cache
    <3> QED
      BY <2>4, <3>4, <3>5, <3>6 DEF StoreNewCredential, entry
  <2> QED
    BY <1>4, <2>2, <2>3, <2>4 DEF DeviceCredentialKeyAdd, CredentialEntries
<1>5. ASSUME NEW key \in CredentialKeys, DeviceCredentialKeyRemove(key)
      PROVE  [Lists!Next]_(Lists!vars)
  <2>1. pc = "idle" /\ \A e \in credentialList.entries : e.issuer \in KnownIssuers
    BY <1>5, SettledIssuers DEF DeviceCredentialKeyRemove, CredentialEntries
  <2>2. ASSUME NEW e \in credentialList.entries, SaveCredentialList(Deleted(credentialList, {e}))
        PROVE  Lists!Next
    <3> DEFINE list == Deleted(credentialList, {e})
    <3>1. list.entries = credentialList.entries \ {e} /\ SaveCredentialList(list)
      BY <2>2 DEF Deleted
    <3> HIDE DEF list
    <3>2. \A f \in list.entries : f.issuer \in KnownIssuers
      BY <2>1, <3>1
    <3>3. VisibleCredentials' = VisibleCredentials \ {Visible(e)}
      BY <1>b, <2>1, <3>1, <3>2, SavedVisible, VisibleWithout
    <3>4. Visible(e) \in VisibleCredentials
      BY <2>1, AllVisible
    <3>5. Lists!RemoveCredential(Visible(e))
      BY <2>1, <3>1, <3>2, <3>3, SavedVisible DEF Lists!RemoveCredential
    <3> QED
      BY <3>4, <3>5 DEF Lists!Next
  <2> QED
    BY <1>5, <1>a, <2>2 DEF DeviceCredentialKeyRemove, CredentialEntries
<1>6. ASSUME NEW key \in ReaderKeys \cup {NoKey}, pc = "idle", SaveReaderKey(key),
             readerKey = NoKey \/ key = NoKey
      PROVE  Lists!Next
  <2>1. /\ readerKey' = key /\ pc' = "configuration"
        /\ UNCHANGED <<issuerKeyList, credentialList, configurationState>>
    BY <1>6 DEF SaveReaderKey
  <2>2. VisibleCredentials' = VisibleCredentials
    BY <2>1 DEF VisibleCredentials, KnownIssuers
  <2>3. Lists!SetReader(key)
    BY <1>6, <2>1, <2>2, FirstWriteCounts DEF Lists!SetReader
  <2> QED
    BY <2>3 DEF Lists!Next
<1>7. ASSUME NEW key \in ReaderKeys, ReaderKeyAdd(key)
      PROVE  [Lists!Next]_(Lists!vars)
  BY <1>7, <1>a, <1>6 DEF ReaderKeyAdd
<1>8. ASSUME NEW key \in ReaderKeys \cup {NoKey}, ReaderKeyRemove(key)
      PROVE  [Lists!Next]_(Lists!vars)
  BY <1>8, <1>a, <1>6 DEF ReaderKeyRemove
<1>9. CASE Purge
  BY <1>9, Stutter DEF Purge, cache
<1>10. CASE IncrementConfigurationState
  <2>1. VisibleState' = VisibleState /\ VisibleCredentials' = VisibleCredentials
    BY <1>10
    DEF IncrementConfigurationState, VisibleState, VisibleCredentials, KnownIssuers, NextState
  <2> QED
    BY <1>10, <2>1 DEF IncrementConfigurationState, Lists!vars
<1>11. CASE RemoveIssuedCredentials
  <2>1. /\ credentialList'.entries = credentialList.entries \ IssuedBy(removedIssuer)
        /\ pc = "cascade" /\ pc' = "idle"
        /\ UNCHANGED <<issuerKeyList, readerKey, configurationState>>
    BY <1>11 DEF RemoveIssuedCredentials, Deleted
  <2>2. VisibleCredentials' = VisibleCredentials
    BY <2>1 DEF VisibleCredentials, KnownIssuers, IssuedBy, CascadeInv
  <2> QED
    BY <2>1, <2>2 DEF Lists!vars, VisibleState
<1>12. ASSUME NEW field, PurgeRecord(field)
       PROVE  UNCHANGED Lists!vars
  BY <1>12, Stutter DEF PurgeRecord, cache
<1>13. CASE PurgeReload
  <2>1. LoadCache(EmptyFlash) /\ pc' = "idle"
    BY <1>13 DEF PurgeReload
  <2>2. Lists!Purge
    BY <2>1
    DEF Lists!Purge, LoadCache, EmptyFlash, EmptyList, VisibleCredentials, VisibleState
  <2> QED
    BY <2>2 DEF Lists!Next
<1>14. CASE UNCHANGED vars
  BY <1>14, Stutter DEF vars
<1>15. CASE Request
  BY <1>2, <1>3, <1>4, <1>5, <1>7, <1>8, <1>9, <1>15 DEF Request
<1>16. CASE Continue
  BY <1>10, <1>11, <1>12, <1>13, <1>16 DEF Continue
<1> QED
  BY <1>1, <1>14, <1>15, <1>16 DEF Next

\* Without a power loss the handlers of HAPPlatformNfcAccess.c do what
\* AccessLists promises, for lists of any size.
THEOREM Implementation == Spec => ImplementsLists
<1>1. Init => Lists!Init
  BY InitRefines
<1>2. IInv /\ CascadeInv /\ [Next]_vars => [Lists!Next]_(Lists!vars)
  BY StepRefines
<1> QED
  BY <1>1, <1>2, SpecInvariant, PTL DEF Spec, ImplementsLists, Lists!Spec

=============================================================================
