--------------------------- MODULE GattDatabase ---------------------------
(***************************************************************************)
(* The GATT database of the accessory as HAPPlatformBLEPeripheralManager.c *)
(* builds it: the ADK adds services, characteristics and descriptors to    *)
(* static arrays; a service is registered with the Bluetooth host when the *)
(* next one is begun, the last one when all are published.  Only then are  *)
(* the attributes' handles known, and they are written to where the ADK    *)
(* asked for them.                                                         *)
(*                                                                         *)
(* Indexes start at 1 here and at 0 in the code.                           *)
(***************************************************************************)
EXTENDS Integers, Sequences, FiniteSets

CONSTANTS
    Uuids,                  \* types of services, characteristics, descriptors
    BluetoothBase,          \* the base UUID that the first run registers
    NumUuidBases,           \* numUUIDBases
    ServiceAttrMaxDepth,    \* kServiceAttrMaxDepth
    MaxServicesCount,       \* kMaxServicesCount
    FirstHandle             \* the host's first handle for a dynamic service

ASSUME DatabaseAssumption ==
    /\ BluetoothBase \notin Uuids
    /\ NumUuidBases \in Nat \ {0}
    /\ ServiceAttrMaxDepth \in Nat \ {0}
    /\ MaxServicesCount \in Nat \ {0}
    /\ FirstHandle \in Nat \ {0}

VARIABLES
    db,         \* the static arrays and their counters
    uuidBases,  \* the ADK's memory for UUIDs, with the number in use
    halted      \* what HAPFatalError was called for, or "overrun"

dbVars == <<db, uuidBases, halted>>

NoUuid == [used |-> FALSE]

\* attrs, serviceStartAttributeIndex, HAPServices (as a number),
\* isServicePopulating, servicesPublished, update_attr_val_handles,
\* attrIndexHandlDiff; "given" is what the ADK's variables hold.
EmptyDatabase ==
    [attrs |-> <<>>, start |-> 0, services |-> 0, populating |-> FALSE,
     published |-> FALSE, pending |-> {}, handles |-> <<>>, given |-> <<>>, diff |-> 0]

InitDatabase ==
    /\ db = EmptyDatabase
    /\ uuidBases = [memory |-> [i \in 1 .. NumUuidBases |-> BluetoothBase],
                    used |-> 0, firstRun |-> TRUE]
    /\ halted = "no"

\* HAPFatalError: the system panics and restarts.
FatalError(reason) ==
    /\ halted' = reason
    /\ UNCHANGED <<db, uuidBases>>

\* A write past the end of an array: nothing is said of what follows but that
\* the system may restart.
Overrun ==
    /\ halted' = "overrun"
    /\ UNCHANGED <<db, uuidBases>>

-----------------------------------------------------------------------------
(* UUIDs.                                                                  *)

Known(bases, uuid) == {i \in 1 .. bases.used : bases.memory[i] = uuid}

\* The Bluetooth base is registered once in the life of the firmware, also
\* when HAPPlatformBLEPeripheralManagerClear starts over.
FirstRun(bases) ==
    IF bases.firstRun
    THEN [memory |-> [bases.memory EXCEPT ![1] = BluetoothBase],
          used |-> bases.used + 1, firstRun |-> FALSE]
    ELSE bases

\* Mutant: a UUID that is not known is written over the last one.
OverwrittenUuid(uuid) ==
    LET bases == FirstRun(uuidBases)
        known == Known(bases, uuid)
    IN IF known # {} THEN [bases |-> bases, index |-> CHOOSE i \in known : TRUE]
       ELSE [bases |-> [bases EXCEPT !.memory[bases.used] = uuid], index |-> bases.used]

\* GetBLEUUID: the UUID's place in the memory, a new one if there is room, and
\* 0 if there is none.
GetBLEUUID(uuid) ==
    LET bases == FirstRun(uuidBases)
        known == Known(bases, uuid)
    IN IF known # {} THEN [bases |-> bases, index |-> CHOOSE i \in known : TRUE]
       ELSE IF bases.used >= NumUuidBases THEN [bases |-> bases, index |-> 0]
       ELSE [bases |-> [bases EXCEPT !.memory[bases.used + 1] = uuid, !.used = @ + 1],
             index |-> bases.used + 1]

\* HAPPlatformBLEPeripheralManagerClear.
Cleared(bases) == [bases EXCEPT !.used = 0]

-----------------------------------------------------------------------------
(* Building the database.                                                  *)

\* "uuid" is the type the ADK asked for, "base" the place it is kept at; the
\* types of declarations are constants of the code.
Attribute(kind, uuid, base) == [kind |-> kind, uuid |-> uuid, base |-> base]
Fixed(kind) == Attribute(kind, NoUuid, 0)

HasHandleVariable(attr) == attr.kind \in {"value", "ccc", "descriptor"}

\* bt_gatt_service_register: the host numbers the attributes from the last
\* handle on.
HostHandles(d) ==
    LET last == IF d.start = 0 THEN FirstHandle - 1 ELSE d.handles[d.start]
    IN [i \in DOMAIN d.attrs |-> IF i <= d.start THEN d.handles[i] ELSE last + i - d.start]

\* Mutant: the difference follows the service that was published last.
LastServiceDifference(d) ==
    LET handles == HostHandles(d)
    IN [d EXCEPT !.services = @ + 1, !.start = Len(d.attrs), !.populating = FALSE,
                 !.handles = handles, !.pending = {}, !.diff = handles[d.start + 1],
                 !.given = [i \in DOMAIN d.given \cup d.pending |->
                               IF i \in d.pending THEN handles[i] ELSE d.given[i]]]

\* PublishService: the service that is populated goes to the host, and the
\* handles asked for since the last one are written.
PublishService(d) ==
    LET handles == HostHandles(d)
    IN [d EXCEPT !.services = @ + 1, !.start = Len(d.attrs), !.populating = FALSE,
                 !.handles = handles, !.pending = {}, !.diff = handles[1],
                 !.given = [i \in DOMAIN d.given \cup d.pending |->
                               IF i \in d.pending THEN handles[i] ELSE d.given[i]]]

ServicesFull == db.services >= MaxServicesCount - 1
AttributesFull(d) == Len(d.attrs) >= ServiceAttrMaxDepth - 1

\* ccc_count, which is kept and reset as the attributes are.
CccCount == Cardinality({i \in DOMAIN db.attrs : db.attrs[i].kind = "ccc"})

\* HAPPlatformBLEPeripheralManagerAddService.  Without room for the UUID the
\* service before it is published all the same.
AddService(uuid) ==
    /\ ~db.published
    /\ LET d == IF db.populating THEN PublishService(db) ELSE db
           type == GetBLEUUID(uuid)
       IN IF (db.populating /\ ServicesFull) \/ AttributesFull(d)
          THEN FatalError("database")
          ELSE /\ uuidBases' = type.bases
               /\ db' = IF type.index = 0 THEN d
                        ELSE [d EXCEPT !.attrs = Append(@, Attribute("service", uuid, type.index)),
                                       !.populating = TRUE]
               /\ UNCHANGED halted

\* HAPPlatformBLEPeripheralManagerAddCharacteristic: a declaration, the value
\* and, with events, the client's configuration.  The number of configurations
\* is held against half the attributes; the array has a place per service.
AddCharacteristic(uuid, event) ==
    /\ ~db.published /\ db.populating
    /\ LET type == GetBLEUUID(uuid)
           value == Len(db.attrs) + 2
           new == <<Fixed("declaration"), Attribute("value", uuid, type.index)>>
           configured == type.index # 0 /\ event
       IN IF \/ AttributesFull(db)
             \/ configured /\ (\/ value >= ServiceAttrMaxDepth
                               \/ CccCount = ServiceAttrMaxDepth \div 2)
          THEN FatalError("database")
          ELSE IF configured /\ CccCount >= MaxServicesCount THEN Overrun
          ELSE /\ uuidBases' = type.bases
               /\ db' = IF type.index = 0 THEN db
                        ELSE IF event
                        THEN [db EXCEPT !.attrs = @ \o new \o <<Fixed("ccc")>>,
                                        !.pending = @ \cup {value, value + 1}]
                        ELSE [db EXCEPT !.attrs = @ \o new, !.pending = @ \cup {value}]
               /\ UNCHANGED halted

\* HAPPlatformBLEPeripheralManagerAddDescriptor: here a full array is an answer.
AddDescriptor(uuid) ==
    /\ ~db.published /\ db.populating
    /\ Len(db.attrs) < ServiceAttrMaxDepth
    /\ LET type == GetBLEUUID(uuid)
       IN /\ uuidBases' = type.bases
          /\ db' = IF type.index = 0 THEN db
                   ELSE [db EXCEPT !.attrs = Append(@, Attribute("descriptor", uuid, type.index)),
                                   !.pending = @ \cup {Len(db.attrs) + 1}]
    /\ UNCHANGED halted

\* HAPPlatformBLEPeripheralManagerPublishServices.
PublishServices ==
    /\ ~db.published
    /\ IF db.populating /\ ServicesFull THEN FatalError("database")
       ELSE /\ db' = [(IF db.populating THEN PublishService(db) ELSE db)
                      EXCEPT !.published = TRUE]
            /\ UNCHANGED <<uuidBases, halted>>

\* HAPPlatformBLEPeripheralManagerRemoveAllServices; the ADK's copies of the
\* handles are of no more use.
RemoveAllServices ==
    /\ db.published
    /\ db' = [EmptyDatabase EXCEPT !.diff = db.diff]
    /\ UNCHANGED <<uuidBases, halted>>

\* HAPPlatformBLEDeinitialize, when the ADK stops Bluetooth; it does so when
\* the services are complete or not begun.
Deinitialize ==
    /\ db.published \/ db.attrs = <<>>
    /\ uuidBases' = Cleared(uuidBases)
    /\ UNCHANGED <<db, halted>>

-----------------------------------------------------------------------------
(* Properties.                                                             *)

\* A handle that the ADK got for an attribute leads back to that attribute,
\* for all services alike: what is indicated is the characteristic that was
\* meant ("We assume here that all services are built through the lib",
\* HAPPlatformBLEPeripheralManager.c:610, and the look-up at :1126).
HandlesLeadBack ==
    db.published =>
        \A i \in DOMAIN db.attrs : HasHandleVariable(db.attrs[i]) =>
            /\ i \in DOMAIN db.given
            /\ db.given[i] - db.diff + 1 = i

\* An attribute of a registered service shows the type it was added with,
\* although types share their memory and the memory is cleared and used again
\* (GetBLEUUID, HAPPlatformBLEPeripheralManager.c:475).
TypesKept ==
    \A i \in DOMAIN db.attrs :
        db.attrs[i].base # 0 => uuidBases.memory[db.attrs[i].base] = db.attrs[i].uuid

=============================================================================
