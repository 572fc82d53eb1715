------------------------- MODULE PeripheralManager -------------------------
(***************************************************************************)
(* The connection of a central with the accessory over Bluetooth LE:       *)
(* HAPPlatformBLEPeripheralManager.c, which the Bluetooth host calls with  *)
(* connections, reads, writes and confirmations, and which the ADK calls   *)
(* to publish services, to indicate and to disconnect.                     *)
(*                                                                         *)
(* The host calls from threads of its own.  The handlers hold the mutex or *)
(* do not block, and the threads are cooperative, so each handler is one   *)
(* action; an indication may wait for a buffer and is two.  What remains   *)
(* of the concurrency is the order of events: a link is gone before its    *)
(* "disconnected" event, an MTU exchange that the accessory asked for is   *)
(* answered some time later, or the indication is sent when the link that  *)
(* it was meant for is gone.                                               *)
(*                                                                         *)
(* The central is one that keeps to the ATT protocol: it reads a long      *)
(* value to its end, in order, and believes a response shorter than its    *)
(* MTU to be the last one.                                                 *)
(***************************************************************************)
EXTENDS GattDatabase

CONSTANTS
    MtuMin,         \* BLE_L2CAP_MTU_MIN
    Mtus,           \* MTUs that an exchange can end with
    MaxLength       \* bound: length of the ADK's values, within its buffer

ASSUME MtuAssumption ==
    /\ MtuMin \in Nat /\ MtuMin >= 3
    /\ \A m \in Mtus : m \in Nat /\ m >= MtuMin
    /\ MaxLength \in Nat

VARIABLES
    link,           \* what the controller knows: "down", "up" or "lost"
    connected,      \* conn # NULL: the host has told of the connection
    advertising,    \* the controller advertises
    attMtu,         \* the host's and the central's MTU
    exchange,       \* what became of bt_gatt_exchange_mtu in this connection
    mtu, secondClientMTU,
    gatt,           \* the pending operation: gatt
    indicationInProgress,
    sending,        \* bt_gatt_indicate waits for a buffer
    indicating,     \* the host waits for a confirmation
    client          \* the central's pending read and what became of its reads

connVars == <<link, connected, advertising, attMtu, exchange, mtu, secondClientMTU,
              gatt, indicationInProgress, sending, indicating, client>>
vars == <<dbVars, connVars>>

NoOperation == [operation |-> "None", handle |-> 0, offset |-> 0, numBytes |-> 0]
Disconnecting == [NoOperation EXCEPT !.operation = "Disconnecting"]

\* The central reads "handle", has "got" bytes of it.  Of its last response:
\* "unaware", it was sent after the central had exchanged the MTU itself and
\* without an answer to the accessory's exchange, "cut", it ended a read early.
\* "refused": a request did not fit the state of the accessory.
NoClient == [handle |-> 0, got |-> 0, unaware |-> FALSE, cut |-> FALSE, refused |-> FALSE]

InitConnection ==
    /\ link = "down"
    /\ connected = FALSE
    /\ advertising = FALSE
    /\ attMtu = MtuMin
    /\ exchange = "none"
    /\ mtu = 0
    /\ secondClientMTU = 0
    /\ gatt = NoOperation
    /\ indicationInProgress = FALSE
    /\ sending = FALSE
    /\ indicating = FALSE
    /\ client = NoClient

Init == InitDatabase /\ InitConnection

\* The handles of the ADK's attributes with a value.
Readable == {db.given[i] : i \in {j \in DOMAIN db.given : db.attrs[j].kind # "ccc"}}
Writable == {db.given[i] : i \in DOMAIN db.given}
Indicatable == {db.given[i] : i \in {j \in DOMAIN db.given :
                    j + 1 \in DOMAIN db.attrs /\ db.attrs[j + 1].kind = "ccc"}}

-----------------------------------------------------------------------------
(* Advertising, connection and disconnection.                              *)

\* HAPPlatformBLEPeripheralManagerStartAdvertising and StopAdvertising.  The
\* ADK advertises published services, and not while a central is connected.
StartAdvertising ==
    /\ db.published /\ ~connected
    /\ advertising' = TRUE
    /\ UNCHANGED <<dbVars, link, connected, attMtu, exchange, mtu, secondClientMTU, gatt,
                   indicationInProgress, sending, indicating, client>>

StopAdvertising ==
    /\ advertising' = FALSE
    /\ UNCHANGED <<dbVars, link, connected, attMtu, exchange, mtu, secondClientMTU, gatt,
                   indicationInProgress, sending, indicating, client>>

\* BLE_PLATFORM_CONNECTED.  The assertion that conn is NULL needs no guard: the
\* controller stops to advertise when a central connects, and the ADK starts
\* again without one, so nobody advertises in a connection.  The host may not
\* be able to ask for the exchange, which is only logged.
HandleConnected ==
    /\ advertising
    /\ link' = "up"
    /\ connected' = TRUE
    /\ advertising' = FALSE
    /\ mtu' = MtuMin
    /\ secondClientMTU' = 0
    /\ exchange' \in {"outstanding", "failed"}
    /\ UNCHANGED <<dbVars, attMtu, gatt, indicationInProgress, sending, indicating, client>>

\* The host tells of a connection that could not be made.
ConnectionFailed ==
    /\ advertising
    /\ FatalError("connection")
    /\ UNCHANGED connVars

\* The central leaves or goes out of reach, or bt_conn_disconnect takes
\* effect.
LinkLost ==
    /\ link = "up"
    /\ link' = "lost"
    /\ UNCHANGED <<dbVars, connected, advertising, attMtu, exchange, mtu, secondClientMTU,
                   gatt, indicationInProgress, sending, indicating, client>>

\* Mutant: the operation of the old connection is not forgotten.
OperationKept ==
    /\ link = "lost" /\ exchange # "outstanding" /\ ~indicating
    /\ link' = "down"
    /\ connected' = FALSE
    /\ exchange' = "none"
    /\ mtu' = 0
    /\ secondClientMTU' = 0
    /\ indicationInProgress' = FALSE
    /\ attMtu' = MtuMin
    /\ client' = NoClient
    /\ UNCHANGED <<dbVars, advertising, sending, indicating, gatt>>

\* BLE_PLATFORM_DISCONNECTED, after the host has ended the exchange and the
\* indication that were pending.
HandleDisconnected ==
    /\ link = "lost" /\ exchange # "outstanding" /\ ~indicating
    /\ link' = "down"
    /\ connected' = FALSE
    /\ exchange' = "none"
    /\ mtu' = 0
    /\ secondClientMTU' = 0
    /\ gatt' = NoOperation
    /\ indicationInProgress' = FALSE
    /\ attMtu' = MtuMin
    /\ client' = NoClient
    /\ UNCHANGED <<dbVars, advertising, sending, indicating>>

\* HAPPlatformBLEPeripheralManagerCancelCentralConnection as the ADK calls it;
\* the host then ends the link.
CancelCentralConnection ==
    /\ connected
    /\ gatt.operation # "Disconnecting"
    /\ gatt' = Disconnecting
    /\ UNCHANGED <<dbVars, link, connected, advertising, attMtu, exchange, mtu,
                   secondClientMTU, indicationInProgress, sending, indicating, client>>

-----------------------------------------------------------------------------
(* MTU.                                                                    *)

\* The central asks for an exchange itself: the host answers and nobody tells
\* the peripheral manager.  After the accessory's own exchange it changes
\* nothing, since both end with the smaller one of the two sides' MTUs.
CentralExchangesMtu ==
    /\ link = "up" /\ exchange # "answered"
    /\ attMtu = MtuMin
    /\ attMtu' \in Mtus
    /\ UNCHANGED <<dbVars, link, connected, advertising, exchange, mtu, secondClientMTU,
                   gatt, indicationInProgress, sending, indicating, client>>

\* GattsExchangeMTUParams: the answer to the accessory's own exchange, an
\* error if the central does not know the request or the link is lost.  An MTU
\* that the central's exchange has raised stays.  (No MTU of this build is
\* larger than the buffer of attribute values, so line 1162 caps none.)
GattsExchangeMTUParams(err) ==
    /\ exchange = "outstanding"
    /\ link = "lost" => err
    /\ exchange' = IF err THEN "failed" ELSE "answered"
    /\ IF err THEN UNCHANGED <<attMtu, mtu, secondClientMTU>>
       ELSE /\ attMtu' \in (IF attMtu = MtuMin THEN Mtus ELSE {attMtu})
            /\ IF mtu # MtuMin /\ mtu # attMtu'
               THEN secondClientMTU' = attMtu' /\ UNCHANGED mtu
               ELSE mtu' = attMtu' /\ UNCHANGED secondClientMTU
    /\ UNCHANGED <<dbVars, link, connected, advertising, gatt, indicationInProgress,
                   sending, indicating, client>>

-----------------------------------------------------------------------------
(* Reads and writes.                                                       *)

\* MacOS_bug: a read that was complete but for a spurious request.
Current ==
    IF secondClientMTU # 0 /\ gatt.operation = "Read" /\ gatt.offset = gatt.numBytes
    THEN NoOperation ELSE gatt

\* An error is answered by the end of the connection, unless that is under
\* way; the central's procedure ends.  A refusal counts if it was the state of
\* the accessory that did not fit, not the ADK that did not want to.
Refuse(reason) ==
    /\ gatt' = Disconnecting
    /\ client' = [client EXCEPT !.handle = 0, !.got = 0,
                                !.refused = @ \/ (reason = "state"
                                                  /\ Current.operation # "Disconnecting")]

\* What the ADK does with a request: a value or an acceptance, an error, or
\* the end of the connection while it handles the request.
Outcomes == {"ok", "error", "cancel"}

Lesser(m, n) == IF m < n THEN m ELSE n

\* Mutant: the response is sized as an indication.
IndicationSized(operation) ==
    LET sent == Lesser(mtu - 3, operation.numBytes - operation.offset)
        after == [operation EXCEPT !.offset = @ + sent]
    IN [sent |-> sent,
        gatt |-> IF after.offset = after.numBytes THEN NoOperation ELSE after]

\* Mutant: the response is as long as the MTU allows, whatever is left.
FilledResponse(operation) ==
    [sent |-> mtu - 1, gatt |-> [operation EXCEPT !.offset = @ + mtu - 1]]

\* The response of GattsAuthorizeRead, and what is left of the operation: a
\* response that fills the MTU is followed by another request, even if it
\* was the last byte, and so is one that fills the MTU of a second exchange.
Response(operation) ==
    LET sent == Lesser(mtu - 1, operation.numBytes - operation.offset)
        after == [operation EXCEPT !.offset = @ + sent]
        ambiguous == \/ sent = mtu - 1
                     \/ secondClientMTU # 0 /\ sent >= secondClientMTU - 1
    IN [sent |-> sent,
        gatt |-> IF after.offset = after.numBytes /\ ~ambiguous THEN NoOperation ELSE after]

\* The central believes a response that does not fill its MTU to be the last.
\* One that is longer than the ATT payload is cut by the host.
Respond(operation) ==
    LET response == Response(operation)
        arrived == Lesser(response.sent, attMtu - 1)
        got == operation.offset + arrived
        more == arrived = attMtu - 1
    IN /\ gatt' = response.gatt
       /\ client' = [client EXCEPT
              !.handle = IF more THEN operation.handle ELSE 0,
              !.got = IF more THEN got ELSE 0,
              !.unaware = attMtu # MtuMin /\ exchange # "answered",
              !.cut = ~more /\ got # operation.numBytes]

\* GattsAuthorizeRead, Read Request: the ADK's handler gives the value, an
\* error, or calls HAPPlatformBLEPeripheralManagerCancelCentralConnection.
ReadRequest(handle) ==
    /\ link = "up" /\ client.handle = 0
    /\ IF Current.operation # "None" THEN Refuse("state")
       ELSE \E outcome \in Outcomes :
               IF outcome = "ok"
               THEN \E length \in 0 .. MaxLength :
                       Respond([operation |-> "Read", handle |-> handle, offset |-> 0,
                                numBytes |-> length])
               ELSE Refuse("delegate")
    /\ UNCHANGED <<dbVars, link, connected, advertising, attMtu, exchange, mtu,
                   secondClientMTU, indicationInProgress, sending, indicating>>

\* GattsAuthorizeRead, Read Blob Request: it has to go on where the operation
\* stands.
ReadBlobRequest ==
    /\ link = "up" /\ client.handle # 0
    /\ IF \/ Current.operation # "Read"
          \/ Current.handle # client.handle
          \/ Current.offset # client.got
       THEN Refuse("state")
       ELSE Respond(Current)
    /\ UNCHANGED <<dbVars, link, connected, advertising, attMtu, exchange, mtu,
                   secondClientMTU, indicationInProgress, sending, indicating>>

\* GattsAuthorizeWrite and send_simple_write.  A prepared write changes
\* nothing before the host executes it.
WriteRequest(handle) ==
    /\ link = "up" /\ client.handle = 0
    /\ IF Current.operation # "None" THEN Refuse("state")
       ELSE \E outcome \in Outcomes :
               IF outcome = "ok" THEN gatt' = NoOperation /\ UNCHANGED client
               ELSE Refuse("delegate")
    /\ UNCHANGED <<dbVars, link, connected, advertising, attMtu, exchange, mtu,
                   secondClientMTU, indicationInProgress, sending, indicating>>

-----------------------------------------------------------------------------
(* Indications.                                                            *)

\* HAPPlatformBLEPeripheralManagerSendHandleValueIndication up to the call of
\* bt_gatt_indicate, which may have to wait for a buffer.  The ADK indicates
\* from one thread.
SendHandleValueIndication(handle) ==
    /\ connected /\ ~sending
    /\ ~indicationInProgress
    /\ gatt.operation # "Disconnecting"
    /\ sending' = TRUE
    /\ UNCHANGED <<dbVars, link, connected, advertising, attMtu, exchange, mtu,
                   secondClientMTU, gatt, indicationInProgress, indicating, client>>

\* The rest of it: the indication is sent and then flagged.  bt_gatt_indicate
\* fails on a link that is gone by now, and on any if there is no memory.
IndicationSent ==
    /\ sending
    /\ sending' = FALSE
    /\ \/ /\ link = "up"
          /\ indicationInProgress' = TRUE
          /\ indicating' = TRUE
          /\ UNCHANGED dbVars
       \/ /\ FatalError(IF link = "up" THEN "memory" ELSE "indication")
          /\ UNCHANGED <<indicationInProgress, indicating>>
    /\ UNCHANGED <<link, connected, advertising, attMtu, exchange, mtu, secondClientMTU,
                   gatt, client>>

\* Mutant: only a confirmation ends the indication.
ConfirmedOnly ==
    /\ indicating
    /\ indicating' = FALSE
    /\ indicationInProgress' = (link = "lost")
    /\ UNCHANGED <<dbVars, link, connected, advertising, attMtu, exchange, mtu,
                   secondClientMTU, gatt, sending, client>>

\* GattsIndicateValueCallback: the central has confirmed, or the link is lost.
\* The ADK is told, and may send the next one.
GattsIndicateValueCallback ==
    /\ indicating
    /\ indicating' = FALSE
    /\ indicationInProgress' = FALSE
    /\ UNCHANGED <<dbVars, link, connected, advertising, attMtu, exchange, mtu,
                   secondClientMTU, gatt, sending, client>>

-----------------------------------------------------------------------------

\* The ADK builds and removes the database while nobody is connected.
Database ==
    /\ ~connected /\ ~advertising
    /\ \/ \E uuid \in Uuids :
             \/ AddService(uuid) \/ AddDescriptor(uuid)
             \/ \E event \in BOOLEAN : AddCharacteristic(uuid, event)
       \/ PublishServices
       \/ RemoveAllServices
       \/ Deinitialize
    /\ UNCHANGED connVars

\* The restart after a panic.
Reboot ==
    /\ halted # "no"
    /\ db' = EmptyDatabase
    /\ uuidBases' = [memory |-> [i \in 1 .. NumUuidBases |-> BluetoothBase],
                     used |-> 0, firstRun |-> TRUE]
    /\ halted' = "no"
    /\ link' = "down"
    /\ connected' = FALSE
    /\ advertising' = FALSE
    /\ attMtu' = MtuMin
    /\ exchange' = "none"
    /\ mtu' = 0
    /\ secondClientMTU' = 0
    /\ gatt' = NoOperation
    /\ indicationInProgress' = FALSE
    /\ sending' = FALSE
    /\ indicating' = FALSE
    /\ client' = NoClient

Running ==
    \/ Database
    \/ StartAdvertising \/ StopAdvertising
    \/ HandleConnected \/ ConnectionFailed
    \/ LinkLost \/ HandleDisconnected \/ CancelCentralConnection
    \/ CentralExchangesMtu
    \/ \E err \in BOOLEAN : GattsExchangeMTUParams(err)
    \/ \E handle \in Readable : ReadRequest(handle)
    \/ ReadBlobRequest
    \/ \E handle \in Writable : WriteRequest(handle)
    \/ \E handle \in Indicatable : SendHandleValueIndication(handle)
    \/ IndicationSent
    \/ GattsIndicateValueCallback

Next == (halted = "no" /\ Running) \/ Reboot

Spec == Init /\ [][Next]_vars

-----------------------------------------------------------------------------
(* Properties.                                                             *)

TypeOK ==
    /\ link \in {"down", "up", "lost"}
    /\ connected \in BOOLEAN /\ advertising \in BOOLEAN
    /\ exchange \in {"none", "outstanding", "answered", "failed"}
    /\ indicationInProgress \in BOOLEAN /\ sending \in BOOLEAN /\ indicating \in BOOLEAN
    /\ attMtu \in Mtus \cup {MtuMin}
    /\ mtu \in Mtus \cup {0, MtuMin}
    /\ secondClientMTU \in Mtus \cup {0}
    /\ gatt.operation \in {"None", "Read", "Disconnecting"}
    /\ gatt.handle \in Nat
    /\ gatt.numBytes \in 0 .. MaxLength
    /\ gatt.offset \in 0 .. gatt.numBytes
    /\ client.got \in 0 .. MaxLength
    /\ halted \in {"no", "database", "overrun", "connection", "indication", "memory"}

\* A read gives the whole value, however many requests it takes.  The only
\* reads that may end early are those whose last response was sent while the
\* accessory did not know the central's MTU: the central had exchanged it
\* itself, and the accessory's own exchange was not answered yet, had failed,
\* or had not been asked for (GattsAuthorizeRead sizes a response to the MTU of
\* its own exchange, HAPPlatformBLEPeripheralManager.c:425).
ReadsGiveWholeValues == client.cut => client.unaware

\* A central that keeps to the protocol is not turned away: its next request
\* meets the state that the one before left, in the same connection and in the
\* next one ("Expecting additional ATT Read Blob Request to resolve length
\* ambiguity", HAPPlatformBLEPeripheralManager.c:441).  The only request that
\* may be refused is one after a response that was sent while the accessory
\* did not know the central's MTU, as above.
ConformingCentralServed == client.refused => client.unaware

\* The flag that holds back indications is set exactly while the host has one
\* to be confirmed; otherwise no event would reach the central any more
\* (indicationInProgress, HAPPlatformBLEPeripheralManager.c:1073 and :1139).
IndicationFlagged == halted = "no" => indicationInProgress = indicating

\* The end of a connection never stops the accessory ("Not sending indication
\* as the connection is being terminated",
\* HAPPlatformBLEPeripheralManager.c:1104).
TerminationTolerated == halted # "indication"

=============================================================================
