------------------------ MODULE LockNfcAccessProofs ------------------------
(***************************************************************************)
(* Proofs about LockNfcAccess, for any controllers and lists of any size.  *)
(*                                                                         *)
(* Each step of the lock is a step of the lists or leaves them alone, so   *)
(* the invariant of the lists holds.  On top of it, what the records in    *)
(* the flash say is followed, since they survive a restart and are what    *)
(* the cache holds between requests: whose home keys they have, when they  *)
(* are empty, and how far they are from what a controller has read.  None  *)
(* of this is known once a power loss has cut a request or callback short. *)
(***************************************************************************)
EXTENDS LockNfcAccess, NfcAccessProofs, SequenceTheorems

\* The callbacks the ADK makes after one change of the pairings.
DueInv ==
    \/ due = <<>>
    \/ \E key \in Controllers :
          \/ due = << <<"Paired", key>> >> /\ key \in pairings
          \/ due = << <<"Unpaired", key>> >> /\ pairings # {}
          \/ due = << <<"Unpaired", key>>, <<"LastUnpaired", key>> >> /\ pairings = {}
          \/ due = << <<"LastUnpaired", key>> >> /\ pairings = {}

\* Who is where: the export comes before the first request, and nothing is
\* due when the accessory is off.
LockTypeInv ==
    /\ pairings \subseteq Controllers
    /\ toExport \subseteq pairings
    /\ toExport # {} => due = <<>> /\ pc \notin {"off", "purge"}
    /\ pc = "off" => due = <<>>
    /\ cutShort \in BOOLEAN

\* A home user's key in the flash is that of a paired controller, or of the
\* one whose unpairing the application is about to hear of.
HomeKeysInv ==
    ~cutShort /\ pc # "purge" =>
        \A e \in flash.issuers : e.homeUserKey =>
            e.key \in pairings \/ (due # <<>> /\ Head(due) = <<"Unpaired", e.key>>)

StoredEmpty == flash.issuers = {} /\ flash.credentials = EmptyList /\ flash.reader = NoKey

\* An unpaired lock is empty, is being purged, or is about to hear of it.
EmptyInv ==
    ~cutShort /\ pairings = {} =>
        due # <<>> \/ pc = "purge" \/ (pc \in {"off", "idle"} /\ StoredEmpty)

StoredContents ==
    [issuers |-> {e.key : e \in flash.issuers},
     credentials |-> {Visible(e) : e \in flash.credentials.entries},
     reader |-> flash.reader]

\* The configuration state is as many changes away from that of the copy as
\* the copy is old, modulo ConfigurationModulus.
ViewInv ==
    view # NoView =>
        /\ ~cutShort /\ pc # "purge"
        /\ view = [configuration |-> view.configuration, contents |-> view.contents,
                   changes |-> view.changes]
        /\ view.configuration \in 0 .. ConfigurationModulus - 1
        /\ view.changes \in 0 .. ConfigurationModulus
        /\ view.changes < ConfigurationModulus =>
              flash.configuration \in {view.configuration + view.changes,
                                       view.configuration + view.changes - ConfigurationModulus}
        /\ pc = "cascade" => view.changes > 0
        /\ view.changes = 0 /\ pc # "configuration" => view.contents = StoredContents

\* The issuer keys fit their list.
IssuersFit(list) == IsFiniteSet(list) /\ Cardinality(list) <= MaximumIssuerKeys

\* The pairings that were exported have their key, unless the list is full.
ExportInv ==
    /\ IssuersFit(issuerKeyList) /\ IssuersFit(flash.issuers)
    /\ toExport # {} =>
          pairings \ toExport \subseteq KnownIssuers \/ Cardinality(issuerKeyList) = MaximumIssuerKeys

LockInv ==
    /\ IInv
    /\ DueInv /\ LockTypeInv /\ HomeKeysInv /\ EmptyInv /\ ViewInv /\ ExportInv

-----------------------------------------------------------------------------
(* What the steps do to the lists.                                         *)

\* Nothing is stored, and no handler begins.
NothingStored == UNCHANGED <<issuerKeyList, credentialList, readerKey, configurationState, flash, pc>>

\* A list of issuer keys is stored; the configuration state is next.
IssuersStored(list) ==
    /\ pc' = "configuration"
    /\ issuerKeyList' = list /\ flash'.issuers = list
    /\ flash'.configuration = flash.configuration

\* Between requests the flash holds what the cache holds.
LEMMA FlashIsCache ==
    ASSUME IInv, pc = "idle"
    PROVE  /\ flash.issuers = issuerKeyList /\ flash.credentials = credentialList
           /\ flash.reader = readerKey /\ flash.configuration = configurationState
BY DEF IInv, Cached

LEMMA SaveShape ==
    ASSUME IInv, NEW list, SaveIssuerKeyList(list)
    PROVE  IssuersStored(list)
<1>1. flash \in Records
    BY DEF IInv, TypeOK
<1> QED BY <1>1 DEF SaveIssuerKeyList, IssuersStored, Records

\* IssuerKeyAdd answers for a known key or a full list, or stores the new key.
LEMMA AddShape ==
    ASSUME IInv, NEW key \in IssuerKeys, NEW type \in AddTypes, IssuerKeyAdd(key, type)
    PROVE  /\ pc = "idle"
           /\ \/ /\ NothingStored
                 /\ key \in KnownIssuers \/ IssuerKeyListFull
              \/ /\ ~IssuerKeyListFull
                 /\ IssuersStored(issuerKeyList \cup
                          {[key |-> key, homeUserKey |-> type # "REQUEST_ADD"]})
<1>1. CASE IssuerEntries(key) # {}
    <2>1. PICK code : Answer(code)
        BY <1>1 DEF IssuerKeyAdd
    <2>2. key \in KnownIssuers
        BY <1>1 DEF IssuerEntries, KnownIssuers
    <2> QED BY <2>1, <2>2 DEF IssuerKeyAdd, Answer, NothingStored, cache
<1>2. CASE IssuerEntries(key) = {} /\ IssuerKeyListFull
    <2>1. Answer("OUT_OF_RESOURCES")
        BY <1>2 DEF IssuerKeyAdd
    <2> QED BY <1>2, <2>1 DEF IssuerKeyAdd, Answer, NothingStored, cache
<1>3. CASE IssuerEntries(key) = {} /\ ~IssuerKeyListFull
    <2>1. SaveIssuerKeyList(issuerKeyList \cup
              {[key |-> key, homeUserKey |-> type # "REQUEST_ADD"]})
        BY <1>3 DEF IssuerKeyAdd
    <2> QED BY <1>3, <2>1, SaveShape DEF IssuerKeyAdd
<1> QED BY <1>1, <1>2, <1>3

\* IssuerKeyRemove answers, or takes an entry of the key out of the list.  A
\* pairing's removal leaves no entry of the key.
LEMMA RemoveShape ==
    ASSUME IInv, NEW key \in IssuerKeys, NEW type \in RemoveTypes, IssuerKeyRemove(key, type)
    PROVE  /\ pc = "idle"
           /\ \/ /\ NothingStored
                 /\ type = "HAP_PAIRING_REMOVE" => key \notin KnownIssuers
              \/ \E e \in issuerKeyList : e.key = key /\ IssuersStored(issuerKeyList \ {e})
<1>1. \A e \in IssuerEntries(key) : e \in issuerKeyList /\ e.key = key
    BY DEF IssuerEntries
<1>2. CASE IssuerEntries(key) = {}
    <2>1. Answer("DOES_NOT_EXIST")
        BY <1>2 DEF IssuerKeyRemove
    <2>2. key \notin KnownIssuers
        BY <1>2 DEF IssuerEntries, KnownIssuers
    <2> QED BY <2>1, <2>2 DEF IssuerKeyRemove, Answer, NothingStored, cache
<1>3. CASE IssuerEntries(key) # {}
    <2>1. pc = "idle" /\ (\/ type = "REQUEST_REMOVE" /\ Answer("NOT_SUPPORTED")
                         \/ \E e \in IssuerEntries(key) : SaveIssuerKeyList(issuerKeyList \ {e}))
        BY <1>3 DEF IssuerKeyRemove
    <2>2. CASE type = "REQUEST_REMOVE" /\ Answer("NOT_SUPPORTED")
        BY <2>1, <2>2 DEF Answer, NothingStored, cache
    <2>3. CASE \E e \in IssuerEntries(key) : SaveIssuerKeyList(issuerKeyList \ {e})
        BY <1>1, <2>1, <2>3, SaveShape
    <2> QED BY <2>1, <2>2, <2>3
<1> QED BY <1>2, <1>3

\* A request about credentials or the reader key leaves the issuer keys alone.
OthersStored ==
    /\ pc' = "configuration"
    /\ issuerKeyList' = issuerKeyList /\ flash'.issuers = flash.issuers
    /\ flash'.configuration = flash.configuration

LEMMA SaveOthersShape ==
    ASSUME IInv, NEW value, SaveCredentialList(value) \/ SaveReaderKey(value)
    PROVE  OthersStored
<1>1. flash \in Records
    BY DEF IInv, TypeOK
<1> QED BY <1>1 DEF SaveCredentialList, SaveReaderKey, OthersStored, Records

Overrun == pc' = "overrun" /\ UNCHANGED <<issuerKeyList, credentialList, readerKey, configurationState, flash>>

LEMMA OthersShape ==
    ASSUME IInv,
           \/ \E key \in CredentialKeys, issuer \in IssuerKeys, state \in States :
                 DeviceCredentialKeyAdd(key, issuer, state)
           \/ \E key \in CredentialKeys : DeviceCredentialKeyRemove(key)
           \/ \E key \in ReaderKeys : ReaderKeyAdd(key)
           \/ \E key \in ReaderKeys \cup {NoKey} : ReaderKeyRemove(key)
    PROVE  pc = "idle" /\ (NothingStored \/ OthersStored \/ Overrun)
<1>a. ASSUME NEW code, Answer(code) PROVE NothingStored
    BY <1>a DEF Answer, NothingStored, cache
<1>1. ASSUME NEW key \in CredentialKeys, NEW issuer \in IssuerKeys, NEW state \in States,
             DeviceCredentialKeyAdd(key, issuer, state)
      PROVE  pc = "idle" /\ (NothingStored \/ OthersStored \/ Overrun)
    <2>1. /\ pc = "idle"
          /\ \/ \E code : Answer(code)
             \/ \E e \in CredentialEntries(key) : UpdateDeviceCredentialEntryState(e, state)
             \/ StoreNewCredential(key, issuer, state)
        BY <1>1 DEF DeviceCredentialKeyAdd
    <2>2. CASE \E e \in CredentialEntries(key) : UpdateDeviceCredentialEntryState(e, state)
        <3>1. \E list : SaveCredentialList(list)
            BY <2>2 DEF UpdateDeviceCredentialEntryState
        <3> QED BY <2>1, <3>1, SaveOthersShape
    <2>3. CASE StoreNewCredential(key, issuer, state)
        <3>1. (\E list : SaveCredentialList(list)) \/ Overrun
            BY <2>3 DEF StoreNewCredential, Overrun, cache
        <3> QED BY <2>1, <3>1, SaveOthersShape
    <2> QED BY <1>a, <2>1, <2>2, <2>3
<1>2. ASSUME NEW key \in CredentialKeys, DeviceCredentialKeyRemove(key)
      PROVE  pc = "idle" /\ (NothingStored \/ OthersStored)
    <2>1. pc = "idle" /\ ((\E code : Answer(code)) \/ \E list : SaveCredentialList(list))
        BY <1>2 DEF DeviceCredentialKeyRemove
    <2> QED BY <1>a, <2>1, SaveOthersShape
<1>3. ASSUME NEW key, ReaderKeyAdd(key) \/ ReaderKeyRemove(key)
      PROVE  pc = "idle" /\ (NothingStored \/ OthersStored)
    <2>1. pc = "idle" /\ ((\E code : Answer(code)) \/ \E value : SaveReaderKey(value))
        BY <1>3 DEF ReaderKeyAdd, ReaderKeyRemove
    <2> QED BY <1>a, <2>1, SaveOthersShape
<1> QED BY <1>1, <1>2, <1>3

-----------------------------------------------------------------------------
(* The parts of the invariant that many steps keep.                        *)

\* Each step of the lock is a step of the lists, or leaves them alone.
LEMMA LockNextIsListNext ==
    ASSUME LockTypeInv, [LockNext]_lockVars
    PROVE  [Next]_vars
<1>1. Controllers \subseteq IssuerKeys /\ toExport \subseteq IssuerKeys
    BY ControllersAssumption DEF LockTypeInv
<1>2. {"HAP_PAIRING_READ", "HAP_PAIRING_ADD", "REQUEST_ADD", "HAP_PAIRING_REMOVE", "REQUEST_REMOVE"}
        \subseteq CacheTypes
    BY DEF CacheTypes, AddTypes, RemoveTypes
<1>3. CASE Start
    BY <1>3 DEF Start, Next
<1>4. CASE ExportPairing
    BY <1>1, <1>2, <1>4 DEF ExportPairing, Next, Request
<1>5. ASSUME NEW key \in Controllers, StorePairing(key) \/ DropPairing(key) PROVE UNCHANGED vars
    BY <1>5 DEF StorePairing, DropPairing
<1>6. ASSUME NEW key \in Controllers,
             HandlePaired(key) \/ HandleUnpaired(key) \/ HandleLastUnpaired(key)
      PROVE  Next
    BY <1>1, <1>2, <1>6 DEF HandlePaired, HandleUnpaired, HandleLastUnpaired, Next, Request
<1>7. CASE FactoryReset
    BY <1>7 DEF FactoryReset, Next, Request
<1>8. CASE ControllerRequest
    BY <1>2, <1>8 DEF ControllerRequest, Next, Request
<1>9. CASE ReadLists
    BY <1>9 DEF ReadLists
<1>10. CASE FinishRequest
    BY <1>10 DEF FinishRequest, Next
<1>11. CASE UNCHANGED lockVars
    BY <1>11 DEF lockVars
<1> QED BY <1>3, <1>4, <1>5, <1>6, <1>7, <1>8, <1>9, <1>10, <1>11 DEF LockNext

LEMMA LockStepIsListStep ==
    ASSUME LockTypeInv, [LockNext \/ LockPowerLoss]_lockVars
    PROVE  [Next \/ PowerLoss]_vars
<1>1. CASE LockPowerLoss
    BY <1>1 DEF LockPowerLoss
<1>2. CASE [LockNext]_lockVars
    BY <1>2, LockNextIsListNext
<1> QED BY <1>1, <1>2

LEMMA ListsKept ==
    ASSUME LockInv, [LockNext \/ LockPowerLoss]_lockVars
    PROVE  IInv'
BY LockStepIsListStep, NextIInv DEF LockInv

\* The callbacks that are due, one by one.
LEMMA DueLists ==
    ASSUME NEW d, NEW e
    PROVE  /\ Head(<<d>>) = d /\ Tail(<<d>>) = <<>> /\ <<d>> # <<>>
           /\ Head(<<d, e>>) = d /\ Tail(<<d, e>>) = <<e>> /\ <<d, e>> # <<>>
           /\ <<d>> \o <<>> = <<d>> /\ <<d>> \o <<e>> = <<d, e>>
<1>1. Head(<<d>>) = d /\ <<d>> # <<>>
    OBVIOUS
<1>2. Tail(<<d>>) = <<>>
    OBVIOUS
<1>3. Head(<<d, e>>) = d /\ <<d, e>> # <<>>
    OBVIOUS
<1>4. Tail(<<d, e>>) = <<e>>
    OBVIOUS
<1>5. <<d>> \o <<>> = <<d>>
    OBVIOUS
<1>6. <<d>> \o <<e>> = <<d, e>>
    <2>1. <<d>> \in Seq({d, e}) /\ <<e>> \in Seq({d, e}) /\ <<d, e>> \in Seq({d, e})
        OBVIOUS
    <2>2. Len(<<d>>) = 1 /\ Len(<<e>>) = 1 /\ Len(<<d, e>>) = 2
        OBVIOUS
    <2>3. /\ <<d>> \o <<e>> \in Seq({d, e}) /\ Len(<<d>> \o <<e>>) = 2
          /\ \A i \in 1 .. 2 : (<<d>> \o <<e>>)[i] = IF i <= 1 THEN <<d>>[i] ELSE <<e>>[i - 1]
        BY <2>1, <2>2, ConcatProperties
    <2>4. \A i \in 1 .. 2 : (<<d>> \o <<e>>)[i] = <<d, e>>[i]
        <3>1. (<<d>> \o <<e>>)[1] = d /\ (<<d>> \o <<e>>)[2] = e
            BY <2>3
        <3> QED BY <3>1
    <2> QED BY <2>1, <2>2, <2>3, <2>4, SeqEqual
<1> QED BY <1>1, <1>2, <1>3, <1>4, <1>5, <1>6

\* What is left when a callback is made.
LEMMA CallbackParts ==
    ASSUME DueInv, NEW change, NEW key, Callback(change, key)
    PROVE  /\ due # <<>> /\ Head(due) = <<change, key>> /\ due' = Tail(due)
           /\ UNCHANGED <<pairings, toExport>>
           /\ change = "Paired" => key \in pairings /\ due' = <<>>
           /\ change = "Unpaired" => \/ due' = <<>> /\ pairings # {}
                                     \/ /\ due' = << <<"LastUnpaired", key>> >>
                                        /\ pairings = {} /\ key \in Controllers
           /\ change = "LastUnpaired" => due' = <<>> /\ pairings = {}
<1>1. due # <<>> /\ Head(due) = <<change, key>> /\ due' = Tail(due) /\ UNCHANGED <<pairings, toExport>>
    BY DEF Callback
<1>2. PICK k \in Controllers :
          \/ due = << <<"Paired", k>> >> /\ k \in pairings
          \/ due = << <<"Unpaired", k>> >> /\ pairings # {}
          \/ due = << <<"Unpaired", k>>, <<"LastUnpaired", k>> >> /\ pairings = {}
          \/ due = << <<"LastUnpaired", k>> >> /\ pairings = {}
    BY <1>1 DEF DueInv
<1>3. CASE due = << <<"Paired", k>> >> /\ k \in pairings
    BY <1>1, <1>3, DueLists
<1>4. CASE due = << <<"Unpaired", k>> >> /\ pairings # {}
    BY <1>1, <1>4, DueLists
<1>5. CASE due = << <<"Unpaired", k>>, <<"LastUnpaired", k>> >> /\ pairings = {}
    BY <1>1, <1>5, DueLists
<1>6. CASE due = << <<"LastUnpaired", k>> >> /\ pairings = {}
    BY <1>1, <1>6, DueLists
<1> QED BY <1>2, <1>3, <1>4, <1>5, <1>6

\* A copy stays as current, or as old, as it was.
LEMMA ViewKeeps ==
    ASSUME ViewInv, view' = view, cutShort' = cutShort, flash'.configuration = flash.configuration,
           pc' \notin {"purge", "cascade"},
           pc' = "configuration" \/ (flash' = flash /\ pc # "configuration")
    PROVE  ViewInv'
BY DEF ViewInv, StoredContents

\* Lists that are not longer still fit.
LEMMA FitAdded ==
    ASSUME NEW e, IssuersFit(issuerKeyList), ~IssuerKeyListFull
    PROVE  IssuersFit(issuerKeyList \cup {e})
<1>1. /\ IsFiniteSet(issuerKeyList) /\ Cardinality(issuerKeyList) \in Nat
      /\ Cardinality(issuerKeyList) < MaximumIssuerKeys
    BY FS_CardinalityType, SizesAssumption DEF IssuersFit, IssuerKeyListFull
<1>2. /\ IsFiniteSet(issuerKeyList \cup {e})
      /\ \/ Cardinality(issuerKeyList \cup {e}) = Cardinality(issuerKeyList)
         \/ Cardinality(issuerKeyList \cup {e}) = Cardinality(issuerKeyList) + 1
    BY <1>1, FS_AddElement
<1> QED BY <1>1, <1>2, SizesAssumption DEF IssuersFit

LEMMA FitSmaller ==
    ASSUME NEW list, NEW smaller \in SUBSET list, IssuersFit(list)
    PROVE  IssuersFit(smaller)
<1>1. /\ IsFiniteSet(smaller) /\ Cardinality(smaller) <= Cardinality(list)
      /\ Cardinality(smaller) \in Nat /\ Cardinality(list) \in Nat
    BY FS_Subset, FS_CardinalityType DEF IssuersFit
<1> QED BY <1>1, SizesAssumption DEF IssuersFit

LEMMA FullIsMaximum ==
    ASSUME IssuersFit(issuerKeyList), IssuerKeyListFull
    PROVE  Cardinality(issuerKeyList) = MaximumIssuerKeys
BY FS_CardinalityType, SizesAssumption DEF IssuersFit, IssuerKeyListFull

-----------------------------------------------------------------------------
(* The steps.                                                              *)

LEMMA LockInvInit == LockInit => LockInv
<1> SUFFICES ASSUME LockInit PROVE LockInv
    OBVIOUS
<1>1. IInv
    BY InitIInv DEF LockInit
<1>2. /\ pc = "off" /\ issuerKeyList = {} /\ flash = EmptyFlash
      /\ due = <<>> /\ toExport = {} /\ view = NoView /\ cutShort = FALSE
      /\ pairings \subseteq Controllers
    BY DEF LockInit, Init
<1>3. IssuersFit({})
    BY FS_EmptySet, SizesAssumption DEF IssuersFit
<1>4. flash.issuers = {} /\ StoredEmpty
    BY <1>2 DEF EmptyFlash, StoredEmpty
<1> QED
    BY <1>1, <1>2, <1>3, <1>4
    DEF LockInv, DueInv, LockTypeInv, HomeKeysInv, EmptyInv, ViewInv, ExportInv

LEMMA StartStep ==
    ASSUME LockInv, Start, cutShort' = cutShort, IInv'
    PROVE  LockInv'
<1>1. /\ pc = "off" /\ pc' = "idle" /\ flash' = flash /\ issuerKeyList' = flash.issuers
      /\ toExport' = pairings /\ UNCHANGED <<pairings, due, view>>
    BY DEF Start, Create, LoadCache
<1>2. DueInv' /\ LockTypeInv'
    BY <1>1 DEF LockInv, DueInv, LockTypeInv
<1>3. HomeKeysInv' /\ EmptyInv'
    BY <1>1 DEF LockInv, LockTypeInv, HomeKeysInv, EmptyInv, StoredEmpty
<1>4. ViewInv'
    BY <1>1, ViewKeeps DEF LockInv
<1>5. ExportInv'
    BY <1>1 DEF LockInv, ExportInv, IssuersFit
<1> QED BY <1>2, <1>3, <1>4, <1>5 DEF LockInv

\* A key of the export is stored, or was known, or finds the list full.
LEMMA ExportShape ==
    ASSUME LockInv, ExportPairing
    PROVE  /\ pc = "idle" /\ due = <<>> /\ UNCHANGED <<pairings, due, view>>
           /\ \E key \in toExport :
                 /\ key \in pairings /\ toExport' = toExport \ {key}
                 /\ \/ NothingStored /\ (key \in KnownIssuers \/ IssuerKeyListFull)
                    \/ /\ ~IssuerKeyListFull
                       /\ IssuersStored(issuerKeyList \cup {[key |-> key, homeUserKey |-> TRUE]})
<1>1. PICK key \in toExport : IssuerKeyAdd(key, "HAP_PAIRING_READ") /\ toExport' = toExport \ {key}
    BY DEF ExportPairing
<1>2. key \in pairings /\ key \in IssuerKeys /\ due = <<>>
    BY ControllersAssumption DEF LockInv, LockTypeInv
<1> DEFINE new == [key |-> key, homeUserKey |-> TRUE]
<1>3. "HAP_PAIRING_READ" \in AddTypes /\ ("HAP_PAIRING_READ" # "REQUEST_ADD") = TRUE
    BY DEF AddTypes
<1>4. new = [key |-> key, homeUserKey |-> "HAP_PAIRING_READ" # "REQUEST_ADD"]
    BY <1>3
<1> HIDE DEF new
<1>5. /\ pc = "idle"
      /\ \/ NothingStored /\ (key \in KnownIssuers \/ IssuerKeyListFull)
         \/ ~IssuerKeyListFull /\ IssuersStored(issuerKeyList \cup {new})
    BY <1>1, <1>2, <1>3, <1>4, AddShape DEF LockInv
<1> QED BY <1>1, <1>2, <1>5 DEF ExportPairing, new

\* So the exported pairings have their keys, unless the list is full.
LEMMA ExportedHaveKeys ==
    ASSUME LockInv, ExportPairing
    PROVE  \/ pairings' \ toExport' \subseteq KnownIssuers'
           \/ Cardinality(issuerKeyList') = MaximumIssuerKeys
<1> PICK key \in toExport :
        /\ key \in pairings /\ toExport' = toExport \ {key} /\ pairings' = pairings
        /\ \/ NothingStored /\ (key \in KnownIssuers \/ IssuerKeyListFull)
           \/ /\ ~IssuerKeyListFull
              /\ IssuersStored(issuerKeyList \cup {[key |-> key, homeUserKey |-> TRUE]})
    BY ExportShape
<1>1. /\ IssuersFit(issuerKeyList)
      /\ pairings \ toExport \subseteq KnownIssuers \/ Cardinality(issuerKeyList) = MaximumIssuerKeys
    BY DEF LockInv, ExportInv
<1>2. CASE NothingStored /\ (key \in KnownIssuers \/ IssuerKeyListFull)
    <2>1. issuerKeyList' = issuerKeyList /\ KnownIssuers' = KnownIssuers
        BY <1>2 DEF NothingStored, KnownIssuers
    <2> QED BY <1>1, <1>2, <2>1, FullIsMaximum
<1>3. CASE /\ ~IssuerKeyListFull
           /\ IssuersStored(issuerKeyList \cup {[key |-> key, homeUserKey |-> TRUE]})
    <2> DEFINE new == [key |-> key, homeUserKey |-> TRUE]
    <2>3. new.key = key /\ issuerKeyList' = issuerKeyList \cup {new}
        BY <1>3 DEF IssuersStored
    <2> HIDE DEF new
    <2>1. KnownIssuers' = KnownIssuers \cup {key}
        BY <2>3 DEF KnownIssuers
    <2>2. Cardinality(issuerKeyList) # MaximumIssuerKeys
        BY <1>3, SizesAssumption DEF IssuerKeyListFull
    <2> QED BY <1>1, <2>1, <2>2
<1> QED BY <1>2, <1>3

LEMMA ExportPairingStep ==
    ASSUME LockInv, ExportPairing, cutShort' = cutShort, IInv'
    PROVE  LockInv'
<1> PICK key \in toExport :
        /\ key \in pairings /\ toExport' = toExport \ {key}
        /\ \/ NothingStored
           \/ /\ ~IssuerKeyListFull
              /\ IssuersStored(issuerKeyList \cup {[key |-> key, homeUserKey |-> TRUE]})
    BY ExportShape
<1>1. IInv /\ DueInv /\ LockTypeInv /\ HomeKeysInv /\ EmptyInv /\ ViewInv /\ ExportInv
    BY DEF LockInv
<1>2. pc = "idle" /\ due = <<>> /\ UNCHANGED <<pairings, due, view>>
    BY ExportShape
<1>3. DueInv' /\ LockTypeInv' /\ EmptyInv'
    <2>1. pc' \in {"idle", "configuration"}
        BY <1>2 DEF NothingStored, IssuersStored
    <2> QED BY <1>1, <1>2, <2>1 DEF DueInv, LockTypeInv, EmptyInv
<1>4. ViewInv'
    BY <1>1, <1>2, ViewKeeps DEF NothingStored, IssuersStored
<1>5. \A e \in flash'.issuers : e \in flash.issuers \/ e.key = key
    BY <1>1, <1>2, FlashIsCache DEF NothingStored, IssuersStored
<1>6. HomeKeysInv'
    BY <1>1, <1>2, <1>5 DEF HomeKeysInv
<1>7. ExportInv'
    <2>1. IssuersFit(issuerKeyList') /\ IssuersFit(flash'.issuers)
        BY <1>1, FitAdded DEF ExportInv, NothingStored, IssuersStored
    <2> QED BY <2>1, ExportedHaveKeys DEF ExportInv, IssuersFit
<1> QED BY <1>3, <1>4, <1>6, <1>7 DEF LockInv

\* While the accessory serves, nothing is due and nothing is left to export.
LEMMA StorePairingStep ==
    ASSUME LockInv, NEW key \in Controllers, StorePairing(key), cutShort' = cutShort, IInv'
    PROVE  LockInv'
<1>1. /\ pc = "idle" /\ toExport = {} /\ due = <<>>
      /\ pairings' = pairings \cup {key} /\ due' = << <<"Paired", key>> >>
      /\ UNCHANGED <<issuerKeyList, flash, pc, toExport, view>>
    BY DEF StorePairing, Serving, vars
<1>2. due' # <<>> /\ pairings' # {}
    BY <1>1, DueLists
<1>3. DueInv' /\ LockTypeInv' /\ EmptyInv'
    BY <1>1, <1>2 DEF LockInv, DueInv, LockTypeInv, EmptyInv
<1>4. HomeKeysInv'
    BY <1>1 DEF LockInv, HomeKeysInv
<1>5. ViewInv' /\ ExportInv'
    BY <1>1, ViewKeeps DEF LockInv, ExportInv, IssuersFit
<1> QED BY <1>3, <1>4, <1>5 DEF LockInv

LEMMA DropPairingStep ==
    ASSUME LockInv, NEW key \in Controllers, DropPairing(key), cutShort' = cutShort, IInv'
    PROVE  LockInv'
<1>1. /\ pc = "idle" /\ toExport = {} /\ due = <<>>
      /\ pairings' = pairings \ {key}
      /\ UNCHANGED <<issuerKeyList, flash, pc, toExport, view>>
    BY DEF DropPairing, Serving, vars
<1>2. \/ due' = << <<"Unpaired", key>> >> /\ pairings' # {}
      \/ due' = << <<"Unpaired", key>>, <<"LastUnpaired", key>> >> /\ pairings' = {}
    <2>1. CASE pairings = {key}
        <3>1. due' = << <<"Unpaired", key>> >> \o << <<"LastUnpaired", key>> >>
            BY <2>1 DEF DropPairing
        <3> QED BY <1>1, <2>1, <3>1, DueLists
    <2>2. CASE pairings # {key}
        <3>1. due' = << <<"Unpaired", key>> >> \o <<>> /\ key \in pairings
            BY <2>2 DEF DropPairing
        <3> QED BY <1>1, <2>2, <3>1, DueLists
    <2> QED BY <2>1, <2>2
<1>3. due' # <<>> /\ Head(due') = <<"Unpaired", key>>
    BY <1>2, DueLists
<1>4. DueInv' /\ LockTypeInv' /\ EmptyInv'
    BY <1>1, <1>2, <1>3 DEF LockInv, DueInv, LockTypeInv, EmptyInv
<1>5. HomeKeysInv'
    BY <1>1, <1>3 DEF LockInv, HomeKeysInv
<1>6. ViewInv' /\ ExportInv'
    BY <1>1, ViewKeeps DEF LockInv, ExportInv, IssuersFit
<1> QED BY <1>4, <1>5, <1>6 DEF LockInv

\* Nothing is left to export when callbacks are due, and the lock is on.
LEMMA DueMeansOn ==
    ASSUME LockTypeInv, due # <<>>
    PROVE  toExport = {} /\ pc # "off"
BY DEF LockTypeInv

LEMMA HandlePairedStep ==
    ASSUME LockInv, NEW key \in Controllers, HandlePaired(key), cutShort' = cutShort, IInv'
    PROVE  LockInv'
<1>1. IInv /\ DueInv /\ LockTypeInv /\ HomeKeysInv /\ EmptyInv /\ ViewInv /\ ExportInv
    BY DEF LockInv
<1>2. Callback("Paired", key) /\ IssuerKeyAdd(key, "HAP_PAIRING_ADD") /\ view' = view
    BY DEF HandlePaired
<1>3. /\ due # <<>> /\ Head(due) = <<"Paired", key>> /\ due' = <<>>
      /\ key \in pairings /\ UNCHANGED <<pairings, toExport>>
    BY <1>1, <1>2, CallbackParts
<1>4. toExport = {} /\ pc # "off"
    BY <1>1, <1>3, DueMeansOn
<1> DEFINE new == [key |-> key, homeUserKey |-> TRUE]
<1>5. /\ pc = "idle"
      /\ NothingStored \/ (~IssuerKeyListFull /\ IssuersStored(issuerKeyList \cup {new}))
    <2>1. "HAP_PAIRING_ADD" \in AddTypes /\ ("HAP_PAIRING_ADD" # "REQUEST_ADD") = TRUE
        BY DEF AddTypes
    <2>2. new = [key |-> key, homeUserKey |-> "HAP_PAIRING_ADD" # "REQUEST_ADD"]
        BY <2>1
    <2>3. key \in IssuerKeys
        BY ControllersAssumption
    <2> HIDE DEF new
    <2> QED BY <1>1, <1>2, <2>1, <2>2, <2>3, AddShape
<1>6. new.key = key
    OBVIOUS
<1> HIDE DEF new
<1>7. pc' \in {"idle", "configuration"}
    BY <1>5 DEF NothingStored, IssuersStored
<1>8. DueInv' /\ LockTypeInv' /\ EmptyInv'
    BY <1>1, <1>3, <1>4, <1>7 DEF DueInv, LockTypeInv, EmptyInv
<1>9. ViewInv'
    BY <1>1, <1>2, <1>5, ViewKeeps DEF NothingStored, IssuersStored
<1>10. \A e \in flash'.issuers : e \in flash.issuers \/ e = new
    BY <1>1, <1>5, FlashIsCache DEF NothingStored, IssuersStored
<1>11. HomeKeysInv'
    <2>1. \A k : Head(due) # <<"Unpaired", k>>
        BY <1>3
    <2> QED BY <1>1, <1>3, <1>5, <1>6, <1>10, <2>1 DEF HomeKeysInv
<1>12. ExportInv'
    <2>1. IssuersFit(issuerKeyList') /\ IssuersFit(flash'.issuers)
        BY <1>1, <1>5, FitAdded DEF ExportInv, NothingStored, IssuersStored
    <2> QED BY <1>3, <1>4, <2>1 DEF ExportInv, IssuersFit
<1> QED BY <1>8, <1>9, <1>11, <1>12 DEF LockInv

\* The key of the dropped pairing goes, and with it the last exception.
LEMMA HandleUnpairedStep ==
    ASSUME LockInv, NEW key \in Controllers, HandleUnpaired(key), cutShort' = cutShort, IInv'
    PROVE  LockInv'
<1>1. IInv /\ DueInv /\ LockTypeInv /\ HomeKeysInv /\ EmptyInv /\ ViewInv /\ ExportInv
    BY DEF LockInv
<1>2. Callback("Unpaired", key) /\ IssuerKeyRemove(key, "HAP_PAIRING_REMOVE") /\ view' = view
    BY DEF HandleUnpaired
<1>3. /\ due # <<>> /\ Head(due) = <<"Unpaired", key>> /\ UNCHANGED <<pairings, toExport>>
      /\ \/ due' = <<>> /\ pairings # {}
         \/ due' = << <<"LastUnpaired", key>> >> /\ pairings = {}
    BY <1>1, <1>2, CallbackParts
<1>4. toExport = {} /\ pc # "off"
    BY <1>1, <1>3, DueMeansOn
<1>5. /\ pc = "idle"
      /\ \/ NothingStored /\ key \notin KnownIssuers
         \/ \E e \in issuerKeyList : e.key = key /\ IssuersStored(issuerKeyList \ {e})
    <2>1. "HAP_PAIRING_REMOVE" \in RemoveTypes /\ key \in IssuerKeys
        BY ControllersAssumption DEF RemoveTypes
    <2> QED BY <1>1, <1>2, <2>1, RemoveShape
<1>6. pc' \in {"idle", "configuration"} /\ flash'.configuration = flash.configuration
    BY <1>5 DEF NothingStored, IssuersStored
<1>7. << <<"LastUnpaired", key>> >> # <<>>
    BY DueLists
<1>8. DueInv' /\ LockTypeInv' /\ EmptyInv'
    BY <1>1, <1>3, <1>4, <1>6, <1>7 DEF DueInv, LockTypeInv, EmptyInv
<1>9. ViewInv'
    BY <1>1, <1>2, <1>5, ViewKeeps DEF NothingStored, IssuersStored
<1>10. \A e \in flash'.issuers : e \in flash.issuers /\ e.key # key
    <2>1. flash.issuers = issuerKeyList /\ UniqueKeys(issuerKeyList)
        BY <1>1, <1>5, FlashIsCache DEF IInv
    <2>2. CASE NothingStored /\ key \notin KnownIssuers
        BY <2>1, <2>2 DEF NothingStored, KnownIssuers
    <2>3. CASE \E e \in issuerKeyList : e.key = key /\ IssuersStored(issuerKeyList \ {e})
        BY <2>1, <2>3 DEF IssuersStored, UniqueKeys
    <2> QED BY <1>5, <2>2, <2>3
<1>11. HomeKeysInv'
    <2>1. \A k : Head(due) = <<"Unpaired", k>> => k = key
        BY <1>3
    <2> QED BY <1>1, <1>3, <1>5, <1>10, <2>1 DEF HomeKeysInv
<1>12. ExportInv'
    <2>1. flash'.issuers \in SUBSET flash.issuers /\ issuerKeyList' \in SUBSET issuerKeyList
        BY <1>5, <1>10 DEF NothingStored, IssuersStored
    <2>2. IssuersFit(issuerKeyList') /\ IssuersFit(flash'.issuers)
        BY <1>1, <2>1, FitSmaller DEF ExportInv
    <2> QED BY <1>3, <1>4, <2>2 DEF ExportInv, IssuersFit
<1> QED BY <1>8, <1>9, <1>11, <1>12 DEF LockInv

\* A purge is under way, of a lock without pairings and without a copy.
LEMMA PurgeBegins ==
    ASSUME LockInv, Purge, IInv', pairings' = {}, toExport' = {}, due' = <<>>, view' = NoView,
           cutShort' = cutShort
    PROVE  LockInv'
<1>1. pc' = "purge" /\ UNCHANGED <<issuerKeyList, flash>>
    BY DEF Purge, cache
<1> QED
    BY <1>1 DEF LockInv, DueInv, LockTypeInv, HomeKeysInv, EmptyInv, ViewInv, ExportInv, IssuersFit

LEMMA HandleLastUnpairedStep ==
    ASSUME LockInv, NEW key \in Controllers, HandleLastUnpaired(key), cutShort' = cutShort, IInv'
    PROVE  LockInv'
<1>1. Callback("LastUnpaired", key) /\ Purge /\ view' = NoView
    BY DEF HandleLastUnpaired
<1>2. due # <<>> /\ due' = <<>> /\ pairings = {} /\ UNCHANGED <<pairings, toExport>>
    BY <1>1, CallbackParts DEF LockInv
<1>3. toExport = {}
    BY <1>2, DueMeansOn DEF LockInv
<1> QED BY <1>1, <1>2, <1>3, PurgeBegins

LEMMA FactoryResetStep ==
    ASSUME LockInv, FactoryReset, cutShort' = cutShort, IInv'
    PROVE  LockInv'
<1>1. /\ Purge /\ toExport = {} /\ due = <<>>
      /\ pairings' = {} /\ view' = NoView /\ UNCHANGED <<toExport, due>>
    BY DEF FactoryReset, Serving
<1> QED BY <1>1, PurgeBegins

\* A controller's request stores no home user's key.
LEMMA ControllerRequestStep ==
    ASSUME LockInv, ControllerRequest, cutShort' = cutShort, IInv'
    PROVE  LockInv'
<1>1. IInv /\ DueInv /\ LockTypeInv /\ HomeKeysInv /\ EmptyInv /\ ViewInv /\ ExportInv
    BY DEF LockInv
<1>2. /\ pc = "idle" /\ toExport = {} /\ due = <<>> /\ pairings # {}
      /\ UNCHANGED <<pairings, toExport, due, view>>
    BY DEF ControllerRequest, Serving
<1>3. flash.issuers = issuerKeyList
    BY <1>1, <1>2, FlashIsCache
<1>4. ASSUME \/ /\ flash' = flash /\ issuerKeyList' = issuerKeyList
                /\ pc' \in {"idle", "overrun"}
             \/ /\ pc' = "configuration" /\ flash'.configuration = flash.configuration
                /\ issuerKeyList' = flash'.issuers,
             \A e \in flash'.issuers : e \in flash.issuers \/ ~e.homeUserKey,
             IssuersFit(flash'.issuers)
      PROVE  LockInv'
    <2>1. pc' \notin {"off", "purge", "cascade"} /\ flash'.configuration = flash.configuration
        BY <1>4
    <2>2. DueInv' /\ LockTypeInv' /\ EmptyInv'
        BY <1>1, <1>2, <2>1 DEF DueInv, LockTypeInv, EmptyInv
    <2>3. HomeKeysInv'
        BY <1>1, <1>2, <1>4, <2>1 DEF HomeKeysInv
    <2>4. ViewInv'
        <3>1. pc' = "configuration" \/ (flash' = flash /\ pc # "configuration")
            BY <1>2, <1>4
        <3> QED BY <1>1, <1>2, <2>1, <3>1, ViewKeeps
    <2>5. ExportInv'
        BY <1>1, <1>2, <1>4 DEF ExportInv, IssuersFit
    <2> QED BY <2>2, <2>3, <2>4, <2>5 DEF LockInv
<1>5. IssuersFit(issuerKeyList)
    BY <1>1 DEF ExportInv
<1>6. CASE NothingStored \/ Overrun
    BY <1>2, <1>3, <1>4, <1>5, <1>6 DEF NothingStored, Overrun
<1>7. CASE OthersStored
    BY <1>3, <1>4, <1>5, <1>7 DEF OthersStored
<1>8. ASSUME NEW list, IssuersStored(list), IssuersFit(list),
             \A e \in list : e \in issuerKeyList \/ ~e.homeUserKey
      PROVE  LockInv'
    BY <1>3, <1>4, <1>8 DEF IssuersStored
<1>9. ASSUME NEW key \in IssuerKeys, IssuerKeyAdd(key, "REQUEST_ADD")
      PROVE  LockInv'
    <2> DEFINE new == [key |-> key, homeUserKey |-> FALSE]
    <2>1. "REQUEST_ADD" \in AddTypes /\ ("REQUEST_ADD" # "REQUEST_ADD") = FALSE
        BY DEF AddTypes
    <2>2. new = [key |-> key, homeUserKey |-> "REQUEST_ADD" # "REQUEST_ADD"] /\ ~new.homeUserKey
        BY <2>1
    <2> HIDE DEF new
    <2>3. NothingStored \/ (~IssuerKeyListFull /\ IssuersStored(issuerKeyList \cup {new}))
        BY <1>1, <1>9, <2>1, <2>2, AddShape
    <2>4. CASE ~IssuerKeyListFull /\ IssuersStored(issuerKeyList \cup {new})
        <3>1. IssuersFit(issuerKeyList \cup {new})
            BY <1>5, <2>4, FitAdded
        <3> QED BY <1>8, <2>2, <2>4, <3>1
    <2> QED BY <1>6, <2>3, <2>4
<1>10. ASSUME NEW key \in IssuerKeys, IssuerKeyRemove(key, "REQUEST_REMOVE")
       PROVE  LockInv'
    <2>1. "REQUEST_REMOVE" \in RemoveTypes
        BY DEF RemoveTypes
    <2>2. NothingStored \/ \E e \in issuerKeyList : IssuersStored(issuerKeyList \ {e})
        BY <1>1, <1>10, <2>1, RemoveShape
    <2>3. ASSUME NEW e \in issuerKeyList, IssuersStored(issuerKeyList \ {e})
          PROVE  LockInv'
        <3>1. issuerKeyList \ {e} \in SUBSET issuerKeyList
            OBVIOUS
        <3>2. IssuersFit(issuerKeyList \ {e})
            BY <1>5, <3>1, FitSmaller
        <3> QED BY <1>8, <2>3, <3>2
    <2> QED BY <1>6, <2>2, <2>3
<1> QED
    BY <1>1, <1>6, <1>7, <1>9, <1>10, OthersShape DEF ControllerRequest

LEMMA ReadListsStep ==
    ASSUME LockInv, ReadLists, cutShort' = cutShort, IInv'
    PROVE  LockInv'
<1>1. /\ pc = "idle" /\ ~cutShort
      /\ view' = [configuration |-> configurationState, contents |-> Contents, changes |-> 0]
      /\ UNCHANGED <<issuerKeyList, flash, pc, pairings, toExport, due>>
    BY DEF ReadLists, Serving, vars
<1>2. Contents = StoredContents /\ configurationState = flash.configuration
    BY <1>1, FlashIsCache DEF LockInv, Contents, StoredContents, KnownIssuers
<1>3. StoredContents' = StoredContents
    BY <1>1 DEF StoredContents
<1>4. configurationState \in 0 .. ConfigurationModulus - 1
    BY DEF LockInv, IInv, TypeOK
<1>5. ViewInv'
    <2>1. /\ view'.configuration = flash.configuration /\ view'.contents = StoredContents
          /\ view'.changes = 0
          /\ view' = [configuration |-> view'.configuration, contents |-> view'.contents,
                      changes |-> view'.changes]
        BY <1>1, <1>2
    <2>2. 0 \in 0 .. ConfigurationModulus /\ flash.configuration + 0 = flash.configuration
        BY <1>2, <1>4, SizesAssumption
    <2> QED BY <1>1, <1>2, <1>3, <1>4, <2>1, <2>2 DEF ViewInv
<1>6. DueInv' /\ LockTypeInv' /\ HomeKeysInv' /\ EmptyInv' /\ ExportInv'
    BY <1>1 DEF LockInv, DueInv, LockTypeInv, HomeKeysInv, EmptyInv, StoredEmpty, ExportInv,
                IssuersFit, KnownIssuers
<1> QED BY <1>5, <1>6 DEF LockInv

\* The next configuration state, without the modulus.
LEMMA NextStateValue ==
    ASSUME NEW state \in 0 .. ConfigurationModulus - 1
    PROVE  NextState(state) = IF state + 1 = ConfigurationModulus THEN 0 ELSE state + 1
<1>1. ConfigurationModulus \in Nat \ {0}
    BY SizesAssumption
<1>2. CASE state + 1 = ConfigurationModulus
    BY <1>1, <1>2 DEF NextState
<1>3. CASE state + 1 # ConfigurationModulus
    <2>1. state + 1 \in 0 .. ConfigurationModulus - 1
        BY <1>1, <1>3
    <2>2. \A m \in Nat \ {0} : \A n \in 0 .. m - 1 : n % m = n
        OBVIOUS
    <2> QED BY <1>1, <1>3, <2>1, <2>2 DEF NextState
<1> QED BY <1>2, <1>3

\* The copy is one change older when the configuration state has moved.
LEMMA IncrementStep ==
    ASSUME LockInv, FinishRequest, IncrementConfigurationState, cutShort' = cutShort, IInv'
    PROVE  LockInv'
<1>1. IInv /\ DueInv /\ LockTypeInv /\ HomeKeysInv /\ EmptyInv /\ ViewInv /\ ExportInv
    BY DEF LockInv
<1>2. /\ pc = "configuration" /\ pc' \in {"idle", "cascade"}
      /\ issuerKeyList' = issuerKeyList
      /\ flash' = [flash EXCEPT !.configuration = NextState(configurationState)]
      /\ UNCHANGED <<pairings, toExport, due>>
      /\ view' = IF view # NoView /\ view.changes < ConfigurationModulus
                 THEN [view EXCEPT !.changes = @ + 1] ELSE view
    BY DEF FinishRequest, IncrementConfigurationState, SavedState
<1>3. flash \in Records /\ flash.configuration = configurationState
      /\ configurationState \in 0 .. ConfigurationModulus - 1
    BY <1>1, <1>2 DEF IInv, TypeOK, Cached
<1>4. flash'.issuers = flash.issuers /\ flash'.configuration = NextState(configurationState)
    BY <1>2, <1>3 DEF Records
<1>5. DueInv' /\ LockTypeInv' /\ EmptyInv'
    BY <1>1, <1>2 DEF DueInv, LockTypeInv, EmptyInv
<1>6. HomeKeysInv' /\ ExportInv'
    BY <1>1, <1>2, <1>4 DEF HomeKeysInv, ExportInv, IssuersFit, KnownIssuers
<1>7. ViewInv'
    <2>1. CASE view = NoView
        BY <1>2, <2>1 DEF ViewInv
    <2>2. CASE view # NoView /\ view.changes < ConfigurationModulus
        <3> DEFINE v == view.configuration
                   n == view.changes
                   M == ConfigurationModulus
        <3>1. view = [configuration |-> v, contents |-> view.contents, changes |-> n]
            BY <1>1, <2>2 DEF ViewInv
        <3>2. view' = [view EXCEPT !.changes = n + 1]
            BY <1>2, <2>2
        <3>3. /\ v \in 0 .. M - 1 /\ n \in 0 .. M /\ n < M /\ M \in Nat \ {0} /\ ~cutShort
              /\ flash.configuration \in {v + n, v + n - M}
            BY <1>1, <2>2, SizesAssumption DEF ViewInv
        <3> HIDE DEF v, n
        <3>4. view' = [configuration |-> v, contents |-> view.contents, changes |-> n + 1]
            BY <3>1, <3>2
        <3>5. flash'.configuration = IF flash.configuration + 1 = M THEN 0 ELSE flash.configuration + 1
            BY <1>3, <1>4, NextStateValue
        <3>6. n + 1 < M => flash'.configuration \in {v + (n + 1), v + (n + 1) - M}
            BY <1>3, <3>3, <3>5
        <3>7. n + 1 \in 0 .. M /\ n + 1 > 0 /\ n + 1 # 0
            BY <3>3
        <3>8. /\ view'.configuration = v /\ view'.changes = n + 1
              /\ view' = [configuration |-> view'.configuration, contents |-> view'.contents,
                          changes |-> view'.changes]
            BY <3>4
        <3> QED BY <1>2, <3>3, <3>6, <3>7, <3>8 DEF ViewInv
    <2>3. CASE view # NoView /\ ~(view.changes < ConfigurationModulus)
        <3>1. view' = view /\ view.changes > 0 /\ view.changes # 0
            BY <1>1, <1>2, <2>3, SizesAssumption DEF ViewInv
        <3> QED BY <1>1, <1>2, <2>3, <3>1 DEF ViewInv
    <2> QED BY <2>1, <2>2, <2>3
<1> QED BY <1>5, <1>6, <1>7 DEF LockInv

LEMMA CascadeStep ==
    ASSUME LockInv, FinishRequest, RemoveIssuedCredentials, cutShort' = cutShort, IInv'
    PROVE  LockInv'
<1>1. IInv /\ DueInv /\ LockTypeInv /\ HomeKeysInv /\ EmptyInv /\ ViewInv /\ ExportInv
    BY DEF LockInv
<1>2. /\ pc = "cascade" /\ pc' = "idle" /\ issuerKeyList' = issuerKeyList
      /\ flash' = flash \/ flash' = [flash EXCEPT !.credentials = credentialList']
      /\ UNCHANGED <<pairings, toExport, due, view>>
    BY DEF FinishRequest, RemoveIssuedCredentials
<1>3. flash'.issuers = flash.issuers /\ flash'.configuration = flash.configuration
    BY <1>1, <1>2 DEF IInv, TypeOK, Records
<1>4. DueInv' /\ LockTypeInv' /\ EmptyInv'
    BY <1>1, <1>2 DEF DueInv, LockTypeInv, EmptyInv
<1>5. HomeKeysInv' /\ ExportInv'
    BY <1>1, <1>2, <1>3 DEF HomeKeysInv, ExportInv, IssuersFit, KnownIssuers
<1>6. ViewInv'
    BY <1>1, <1>2, <1>3, SizesAssumption DEF ViewInv
<1> QED BY <1>4, <1>5, <1>6 DEF LockInv

LEMMA PurgeRecordStep ==
    ASSUME LockInv, FinishRequest, NEW field \in DOMAIN EmptyFlash, PurgeRecord(field),
           cutShort' = cutShort, IInv'
    PROVE  LockInv'
<1>1. IInv /\ DueInv /\ LockTypeInv /\ HomeKeysInv /\ EmptyInv /\ ViewInv /\ ExportInv
    BY DEF LockInv
<1>2. /\ pc = "purge" /\ pc' = "purge" /\ issuerKeyList' = issuerKeyList
      /\ flash' = [flash EXCEPT ![field] = EmptyFlash[field]]
      /\ UNCHANGED <<pairings, toExport, due, view>>
    BY DEF FinishRequest, PurgeRecord, cache
<1>3. flash'.issuers \in SUBSET flash.issuers
    <2>1. flash \in Records /\ EmptyFlash.issuers = {}
        BY <1>1 DEF IInv, TypeOK, EmptyFlash
    <2>2. flash'.issuers = flash.issuers \/ flash'.issuers = {}
        BY <1>2, <2>1 DEF Records
    <2> QED BY <2>2
<1>4. DueInv' /\ LockTypeInv' /\ EmptyInv' /\ HomeKeysInv' /\ ViewInv'
    BY <1>1, <1>2 DEF DueInv, LockTypeInv, EmptyInv, HomeKeysInv, ViewInv
<1>5. ExportInv'
    <2>1. IssuersFit(flash'.issuers)
        BY <1>1, <1>3, FitSmaller DEF ExportInv
    <2> QED BY <1>1, <1>2, <2>1 DEF ExportInv, IssuersFit, KnownIssuers
<1> QED BY <1>4, <1>5 DEF LockInv

LEMMA PurgeReloadStep ==
    ASSUME LockInv, FinishRequest, PurgeReload, cutShort' = cutShort, IInv'
    PROVE  LockInv'
<1>1. IInv /\ DueInv /\ LockTypeInv /\ ViewInv /\ ExportInv
    BY DEF LockInv
<1>2. /\ pc = "purge" /\ pc' = "idle" /\ flash = EmptyFlash /\ flash' = flash
      /\ issuerKeyList' = flash.issuers
      /\ UNCHANGED <<pairings, toExport, due, view>>
    BY DEF FinishRequest, PurgeReload, LoadCache
<1>3. StoredEmpty' /\ flash'.issuers = {}
    BY <1>2 DEF StoredEmpty, EmptyFlash
<1>4. toExport = {} /\ view = NoView
    BY <1>1, <1>2 DEF LockTypeInv, ViewInv
<1> QED
    BY <1>1, <1>2, <1>3, <1>4
    DEF LockInv, DueInv, LockTypeInv, HomeKeysInv, EmptyInv, ViewInv, ExportInv, IssuersFit

\* Between requests a power loss takes the cache, and the flash tells the rest.
LEMMA LockPowerLossStep ==
    ASSUME LockInv, LockPowerLoss, IInv'
    PROVE  LockInv'
<1>1. IInv /\ DueInv /\ LockTypeInv /\ HomeKeysInv /\ EmptyInv /\ ViewInv /\ ExportInv
    BY DEF LockInv
<1>2. /\ pc' = "off" /\ flash' = flash /\ issuerKeyList' = {}
      /\ toExport' = {} /\ due' = <<>> /\ pairings' = pairings
      /\ cutShort' = (cutShort \/ pc # "idle" \/ due # <<>>)
      /\ view' = IF cutShort' THEN NoView ELSE view
    BY DEF LockPowerLoss, PowerLoss, LoadCache, EmptyFlash
<1>3. DueInv' /\ LockTypeInv' /\ ExportInv'
    <2>1. IssuersFit({})
        BY FS_EmptySet, SizesAssumption DEF IssuersFit
    <2>2. cutShort' \in BOOLEAN
        BY <1>2, Zenon
    <2> QED BY <1>1, <1>2, <2>1, <2>2 DEF DueInv, LockTypeInv, ExportInv, IssuersFit
<1>4. CASE cutShort'
    BY <1>2, <1>3, <1>4 DEF LockInv, HomeKeysInv, EmptyInv, ViewInv
<1>5. CASE ~cutShort'
    <2>1. pc = "idle" /\ due = <<>> /\ ~cutShort /\ view' = view
        BY <1>2, <1>5, Zenon
    <2>2. HomeKeysInv'
        BY <1>1, <1>2, <2>1 DEF HomeKeysInv
    <2>3. EmptyInv'
        BY <1>1, <1>2, <2>1 DEF EmptyInv, StoredEmpty
    <2>4. ViewInv'
        BY <1>1, <1>2, <1>5, <2>1 DEF ViewInv, StoredContents
    <2> QED BY <1>3, <2>2, <2>3, <2>4 DEF LockInv
<1> QED BY <1>4, <1>5

LEMMA LockStutterStep ==
    ASSUME LockInv, UNCHANGED lockVars, IInv'
    PROVE  LockInv'
BY DEF lockVars, vars, LockInv, DueInv, LockTypeInv, HomeKeysInv, EmptyInv, StoredEmpty, ViewInv,
       StoredContents, ExportInv, IssuersFit, KnownIssuers

LEMMA LockInvStep == LockInv /\ [LockNext \/ LockPowerLoss]_lockVars => LockInv'
<1> SUFFICES ASSUME LockInv, [LockNext \/ LockPowerLoss]_lockVars PROVE LockInv'
    OBVIOUS
<1>1. IInv'
    BY ListsKept
<1>2. CASE LockNext
    <2>1. cutShort' = cutShort
        BY <1>2 DEF LockNext
    <2>2. CASE FinishRequest
        <3>1. Continue
            BY <2>2 DEF FinishRequest
        <3> QED BY <1>1, <2>1, <2>2, <3>1, IncrementStep, CascadeStep, PurgeRecordStep, PurgeReloadStep
                DEF Continue
    <2>3. ASSUME NEW key \in Controllers,
                 \/ StorePairing(key) \/ DropPairing(key)
                 \/ HandlePaired(key) \/ HandleUnpaired(key) \/ HandleLastUnpaired(key)
          PROVE  LockInv'
        BY <1>1, <2>1, <2>3, StorePairingStep, DropPairingStep, HandlePairedStep, HandleUnpairedStep,
           HandleLastUnpairedStep
    <2> QED BY <1>1, <1>2, <2>1, <2>2, <2>3, StartStep, ExportPairingStep, FactoryResetStep,
               ControllerRequestStep, ReadListsStep DEF LockNext
<1> QED BY <1>1, <1>2, LockPowerLossStep, LockStutterStep

-----------------------------------------------------------------------------
(* The properties.                                                         *)

LEMMA LockInvImplies ==
    LockInv => HomeUserKeysArePaired /\ UnpairedLockIsEmpty /\ ConfigurationStateTracksLists
<1> SUFFICES ASSUME LockInv
             PROVE  HomeUserKeysArePaired /\ UnpairedLockIsEmpty /\ ConfigurationStateTracksLists
    OBVIOUS
<1>1. Serving => /\ pc = "idle" /\ due = <<>>
                 /\ flash.issuers = issuerKeyList /\ flash.credentials = credentialList
                 /\ flash.reader = readerKey /\ flash.configuration = configurationState
    BY FlashIsCache DEF LockInv, Serving
<1>2. HomeUserKeysArePaired
    BY <1>1 DEF LockInv, HomeKeysInv, HomeUserKeysArePaired
<1>3. UnpairedLockIsEmpty
    BY <1>1 DEF LockInv, EmptyInv, StoredEmpty, UnpairedLockIsEmpty
<1>4. ConfigurationStateTracksLists
    <2> SUFFICES ASSUME Serving, view # NoView, view.configuration = configurationState,
                        view.changes < ConfigurationModulus
                 PROVE  view.contents = Contents
        BY DEF ConfigurationStateTracksLists
    <2>1. Contents = StoredContents
        BY <1>1 DEF Contents, StoredContents, KnownIssuers
    <2>2. view.changes = 0
        <3>1. /\ view.configuration \in 0 .. ConfigurationModulus - 1
              /\ view.changes \in 0 .. ConfigurationModulus
              /\ view.configuration \in {view.configuration + view.changes,
                                         view.configuration + view.changes - ConfigurationModulus}
            BY <1>1 DEF LockInv, ViewInv
        <3> QED BY <3>1, SizesAssumption
    <2> QED BY <1>1, <2>1, <2>2 DEF LockInv, ViewInv
<1> QED BY <1>2, <1>3, <1>4

\* The export ends with its last key, or with a power loss.
LEMMA ExportEnds ==
    ASSUME LockInv, [LockNext \/ LockPowerLoss]_lockVars,
           toExport # {}, toExport' = {}, pc' # "off"
    PROVE  pairings \subseteq KnownIssuers' \/ Cardinality(issuerKeyList') = MaximumIssuerKeys
<1>1. CASE ExportPairing
    <2>1. pairings' = pairings
        BY <1>1 DEF ExportPairing
    <2>2. \/ pairings' \ toExport' \subseteq KnownIssuers'
          \/ Cardinality(issuerKeyList') = MaximumIssuerKeys
        BY <1>1, ExportedHaveKeys
    <2> QED BY <2>1, <2>2
<1>2. CASE Start
    BY <1>2 DEF Start, Create, LockInv, LockTypeInv
<1>3. CASE LockPowerLoss
    BY <1>3 DEF LockPowerLoss, PowerLoss
<1>4. ASSUME NEW key \in Controllers,
             \/ StorePairing(key) \/ DropPairing(key)
             \/ HandlePaired(key) \/ HandleUnpaired(key) \/ HandleLastUnpaired(key)
      PROVE  toExport' = toExport
    BY <1>4 DEF StorePairing, DropPairing, HandlePaired, HandleUnpaired, HandleLastUnpaired, Callback
<1>5. ASSUME FactoryReset \/ ControllerRequest \/ ReadLists \/ FinishRequest \/ UNCHANGED lockVars
      PROVE  toExport' = toExport
    BY <1>5 DEF FactoryReset, ControllerRequest, ReadLists, FinishRequest, lockVars
<1> QED BY <1>1, <1>2, <1>3, <1>4, <1>5 DEF LockNext

\* The lock uses the lists as they may be used: whatever the callbacks, the
\* controllers and the export do, it is a behaviour of NfcAccess with power
\* losses, so that each theorem about CrashSpec is one about the lock.
THEOREM LockUsesLists == LockSpec => CrashSpec
<1>1. LockInit => Init
    BY DEF LockInit
<1>2. LockInv /\ [LockNext \/ LockPowerLoss]_lockVars => [Next \/ PowerLoss]_vars
    BY LockStepIsListStep DEF LockInv
<1> QED BY <1>1, <1>2, LockInvInit, LockInvStep, PTL DEF LockSpec, CrashSpec

\* As long as the power does not fail the lock uses the lists as a behaviour
\* of NfcAccess without power losses does.
LEMMA UndisturbedUse == LockInit /\ [][LockNext]_lockVars => Spec
<1>1. LockInit => Init
    BY DEF LockInit
<1>2. LockInv /\ [LockNext]_lockVars => [Next]_vars
    BY LockNextIsListNext DEF LockInv
<1>3. LockInv /\ [LockNext]_lockVars => LockInv'
    BY LockInvStep
<1> QED BY <1>1, <1>2, <1>3, LockInvInit, PTL DEF Spec

\* No credential opens the lock after its issuer key is gone, be it removed by
\* a controller or with its pairing, as long as the power does not fail.
THEOREM LockIssuersVouch ==
    LockInit /\ [][LockNext]_lockVars => []CredentialsHaveIssuers
<1> QED BY UndisturbedUse, IssuersVouch, PTL

\* For a controller the lock keeps atomic lists as long as the power does not
\* fail: AccessLists, through NfcAccess.
THEOREM LockImplementsLists ==
    LockInit /\ [][LockNext]_lockVars => ImplementsLists
<1> QED BY UndisturbedUse, Implementation, PTL

\* Between two requests of the lock the flash holds what the cache holds.
THEOREM LockRestartSafe == LockSpec => []RestartKeepsLists
<1> QED BY LockUsesLists, RestartSafe, PTL

\* The counts that decide on an eviction are the numbers of entries in the
\* lock, too (DeviceCredentialKeyAdd).
THEOREM LockCountsCorrect == LockSpec => []CountsMatchEntries
<1> QED BY LockUsesLists, CountsCorrect, PTL

\* No controller's request evicts a credential that was not idle for long.
THEOREM LockEvictionIdle == LockSpec => EvictedWasIdleLong
<1> QED BY LockUsesLists, EvictionIdle, PTL

\* The lists stay sound in the lock, whatever its callbacks and controllers do
\* and whenever the power fails: an identifier names one entry
\* (IssuerKeyAdd, DeviceCredentialKeyAdd).
THEOREM LockKeysUnique == LockSpec => []OneEntryPerKey
<1>1. LockInv => OneEntryPerKey
    BY DEF LockInv, IInv, OneEntryPerKey, BothLists, ListSound
<1> QED BY <1>1, LockInvInit, LockInvStep, PTL DEF LockSpec

\* A home user's key is that of a paired controller (the callbacks of a pairing
\* and of its removal, in the order in which the ADK makes them).
THEOREM HomeKeysPaired == LockSpec => []HomeUserKeysArePaired
<1> QED BY LockInvInit, LockInvStep, LockInvImplies, PTL DEF LockSpec

\* A lock that nobody is paired with holds no key (the purge when the last
\* admin is unpaired, and at a factory reset).
THEOREM UnpairedIsEmpty == LockSpec => []UnpairedLockIsEmpty
<1> QED BY LockInvInit, LockInvStep, LockInvImplies, PTL DEF LockSpec

\* The configuration state tells whether a copy of the lists is current, as
\* long as fewer than ConfigurationModulus changes were made since
\* (IncrementConfigurationState at the end of every change).
THEOREM StateTracksLists == LockSpec => []ConfigurationStateTracksLists
<1> QED BY LockInvInit, LockInvStep, LockInvImplies, PTL DEF LockSpec

\* The export at a start gives every paired controller its issuer key, unless
\* the list is full (CachePairingEnumerateCallback).
THEOREM ExportRestores == LockSpec => ExportRestoresPairings
<1>1. LockInv /\ [LockNext \/ LockPowerLoss]_lockVars =>
          (toExport # {} /\ toExport' = {} /\ pc' # "off" =>
              \/ pairings \subseteq KnownIssuers'
              \/ Cardinality(issuerKeyList') = MaximumIssuerKeys)
    BY ExportEnds
<1> QED BY <1>1, LockInvInit, LockInvStep, PTL DEF LockSpec, ExportRestoresPairings

=============================================================================
