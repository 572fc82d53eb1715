---------------------- MODULE PeripheralManagerProofs ----------------------
(***************************************************************************)
(* Proofs about PeripheralManager and the GATT database under it, for any  *)
(* types, sizes of the arrays, MTUs and values.                            *)
(*                                                                         *)
(* DatabaseInv says how far the services are built: which attributes have  *)
(* their handles, which still wait for them, and that all are numbered     *)
(* without a gap.  ConnectionInv says what the accessory and the central   *)
(* know of each other's read: unless the last response was sent while the  *)
(* accessory did not know the central's MTU, both are at the same place of *)
(* the same value.                                                         *)
(***************************************************************************)
EXTENDS PeripheralManager, SequenceTheorems, FiniteSetTheorems, TLAPS

-----------------------------------------------------------------------------
(* The invariant of the connection.                                        *)

Operations ==
    [operation : {"None", "Read", "Disconnecting"}, handle : Nat, offset : Nat, numBytes : 0 .. MaxLength]

ClientShape ==
    /\ client = [handle |-> client.handle, got |-> client.got, unaware |-> client.unaware,
                 cut |-> client.cut, refused |-> client.refused]
    /\ client.handle \in Nat /\ client.got \in 0 .. MaxLength
    /\ client.unaware \in BOOLEAN /\ client.cut \in BOOLEAN /\ client.refused \in BOOLEAN

Exchanges == {"none", "outstanding", "answered", "failed"}

\* A connection's events come in order, and the accessory asks once for an
\* exchange of the MTU: it knows the central's MTU exactly if that is answered,
\* and there is never a second MTU to account for.
LinkInv ==
    /\ connected <=> link # "down"
    /\ advertising => ~connected
    /\ exchange = "none" <=> ~connected
    /\ connected => mtu = IF exchange = "answered" THEN attMtu ELSE MtuMin
    /\ secondClientMTU = 0
    /\ ~connected => gatt = NoOperation /\ client = NoClient

\* Between two reads nothing is left of an operation; in the middle of one both
\* sides are at the same place.  A central that was refused is on its way out.
ReadInv ==
    /\ ~client.unaware =>
          /\ client.handle = 0 => gatt.operation # "Read"
          /\ client.handle # 0 /\ gatt.operation # "Disconnecting" =>
                gatt.operation = "Read" /\ gatt.handle = client.handle /\ gatt.offset = client.got
    /\ client.refused => gatt.operation = "Disconnecting"

ConnectionInv ==
    /\ TypeOK /\ gatt \in Operations /\ ClientShape
    /\ LinkInv /\ ReadInv
    /\ ReadsGiveWholeValues /\ ConformingCentralServed /\ IndicationFlagged

-----------------------------------------------------------------------------
(* What the requests do to an operation.                                   *)

LEMMA OperationParts ==
    ASSUME NEW o \in Operations
    PROVE  /\ o = [operation |-> o.operation, handle |-> o.handle, offset |-> o.offset,
                   numBytes |-> o.numBytes]
           /\ o.operation \in {"None", "Read", "Disconnecting"} /\ o.handle \in Nat
           /\ o.offset \in Nat /\ o.numBytes \in 0 .. MaxLength
BY DEF Operations

LEMMA IdleOperations ==
    /\ NoOperation \in Operations /\ NoOperation.operation = "None"
    /\ NoOperation.handle = 0 /\ NoOperation.offset = 0 /\ NoOperation.numBytes = 0
    /\ Disconnecting \in Operations /\ Disconnecting.operation = "Disconnecting"
    /\ Disconnecting.handle = 0 /\ Disconnecting.offset = 0 /\ Disconnecting.numBytes = 0
BY MtuAssumption DEF Operations, NoOperation, Disconnecting

LEMMA NoClientParts ==
    /\ NoClient.handle = 0 /\ NoClient.got = 0 /\ NoClient.unaware = FALSE
    /\ NoClient.cut = FALSE /\ NoClient.refused = FALSE
BY DEF NoClient

\* What a response tells: how much is sent, what is left of the operation, and
\* what the central makes of it.
LEMMA ResponseShape ==
    ASSUME NEW o \in Operations, o.offset <= o.numBytes, secondClientMTU = 0,
           mtu \in Nat, mtu >= 3
    PROVE  /\ Response(o).sent \in 0 .. o.numBytes - o.offset
           /\ Response(o).sent <= mtu - 1
           /\ \/ /\ Response(o).gatt = NoOperation
                 /\ Response(o).sent = o.numBytes - o.offset /\ Response(o).sent < mtu - 1
              \/ /\ Response(o).gatt = [o EXCEPT !.offset = o.offset + Response(o).sent]
                 /\ Response(o).sent = mtu - 1
<1> DEFINE sent == Lesser(mtu - 1, o.numBytes - o.offset)
           after == [o EXCEPT !.offset = @ + sent]
           ambiguous == \/ sent = mtu - 1
                        \/ secondClientMTU # 0 /\ sent >= secondClientMTU - 1
<1>1. /\ Response(o).sent = sent
      /\ Response(o).gatt = IF after.offset = after.numBytes /\ ~ambiguous THEN NoOperation ELSE after
    BY DEF Response
<1>2. o.offset \in Nat /\ o.numBytes \in Nat
    BY OperationParts
<1>3. sent \in 0 .. o.numBytes - o.offset /\ sent <= mtu - 1
      /\ (sent = mtu - 1 \/ (sent = o.numBytes - o.offset /\ sent < mtu - 1))
    BY <1>2 DEF Lesser
<1>4. after = [o EXCEPT !.offset = o.offset + sent]
    OBVIOUS
<1>5. after.offset = o.offset + sent /\ after.numBytes = o.numBytes
    BY OperationParts
<1>6. ambiguous <=> sent = mtu - 1
    OBVIOUS
<1> HIDE DEF sent, after, ambiguous
<1>7. CASE sent = mtu - 1
    BY <1>1, <1>3, <1>4, <1>6, <1>7
<1>8. CASE sent = o.numBytes - o.offset /\ sent < mtu - 1
    <2>1. after.offset = after.numBytes /\ ~ambiguous
        BY <1>2, <1>5, <1>6, <1>8
    <2> QED BY <1>1, <1>3, <1>8, <2>1
<1> QED BY <1>3, <1>7, <1>8

\* The operation after a part of it was sent.
LEMMA AdvancedParts ==
    ASSUME NEW o \in Operations, NEW sent \in Nat, NEW p, p = [o EXCEPT !.offset = o.offset + sent]
    PROVE  /\ p \in Operations /\ p.operation = o.operation /\ p.handle = o.handle
           /\ p.offset = o.offset + sent /\ p.numBytes = o.numBytes
BY OperationParts DEF Operations

\* A boolean that becomes true when something happens.
LEMMA Either ==
    ASSUME NEW b \in BOOLEAN, NEW P \in BOOLEAN
    PROVE  \E c \in BOOLEAN : c = (b \/ P) /\ (b => c) /\ (P => c) /\ (c => b \/ P)
OBVIOUS

LEMMA RespondKeeps ==
    ASSUME ConnectionInv, connected, gatt.operation # "Disconnecting",
           NEW o \in Operations, o.operation = "Read", o.handle # 0,
           o.offset <= o.numBytes, Respond(o)
    PROVE  /\ gatt' \in Operations /\ gatt'.offset <= gatt'.numBytes
           /\ ClientShape' /\ ReadInv'
           /\ client'.cut => client'.unaware
           /\ client'.refused => client'.unaware
<1> DEFINE sent == Response(o).sent
           arrived == Lesser(sent, attMtu - 1)
           got == o.offset + arrived
           more == arrived = attMtu - 1
<1>1. mtu \in Nat /\ mtu >= 3 /\ attMtu \in Nat /\ attMtu >= 3 /\ secondClientMTU = 0
    <2>1. mtu \in Mtus \cup {MtuMin} /\ attMtu \in Mtus \cup {MtuMin} /\ secondClientMTU = 0
        BY DEF ConnectionInv, LinkInv, TypeOK
    <2> QED BY <2>1, MtuAssumption
<1>2. /\ sent \in 0 .. o.numBytes - o.offset /\ sent <= mtu - 1
      /\ \/ gatt' = NoOperation /\ sent = o.numBytes - o.offset /\ sent < mtu - 1
         \/ gatt' = [o EXCEPT !.offset = o.offset + sent] /\ sent = mtu - 1
    BY <1>1, ResponseShape DEF Respond
<1>3. o.offset \in Nat /\ o.numBytes \in 0 .. MaxLength /\ o.handle \in Nat /\ MaxLength \in Nat
    BY OperationParts, MtuAssumption
<1>4. gatt' \in Operations /\ gatt'.offset <= gatt'.numBytes
    BY <1>2, <1>3, IdleOperations, AdvancedParts
<1>5. /\ client' = [client EXCEPT
              !.handle = IF more THEN o.handle ELSE 0,
              !.got = IF more THEN got ELSE 0,
              !.unaware = (attMtu # MtuMin /\ exchange # "answered"),
              !.cut = (~more /\ got # o.numBytes)]
    BY DEF Respond
<1>6. arrived \in 0 .. sent /\ got \in 0 .. MaxLength /\ (sent <= attMtu - 1 => arrived = sent)
    BY <1>1, <1>2, <1>3 DEF Lesser
<1>7. PICK h \in Nat : h = IF more THEN o.handle ELSE 0
    BY <1>3
<1>8. PICK g \in 0 .. MaxLength : g = IF more THEN got ELSE 0
    BY <1>3, <1>6
<1>9. PICK r \in BOOLEAN : r = (attMtu # MtuMin /\ exchange # "answered")
    OBVIOUS
<1>10. PICK c \in BOOLEAN : c = (~more /\ got # o.numBytes)
    OBVIOUS
<1> HIDE DEF sent, arrived, got, more
<1>11. client' = [client EXCEPT !.handle = h, !.got = g, !.unaware = r, !.cut = c]
    BY <1>5, <1>7, <1>8, <1>9, <1>10, Zenon
<1>12. client' = [handle |-> h, got |-> g, unaware |-> r, cut |-> c, refused |-> client.refused]
    <2>1. client = [handle |-> client.handle, got |-> client.got, unaware |-> client.unaware,
                    cut |-> client.cut, refused |-> client.refused]
        BY DEF ConnectionInv, ClientShape
    <2> QED BY <1>11, <2>1
<1>13. client.refused \in BOOLEAN /\ client.cut \in BOOLEAN /\ client.unaware \in BOOLEAN
    BY Zenon DEF ConnectionInv, ClientShape
<1>14. /\ client'.handle = h /\ client'.got = g /\ client'.unaware = r /\ client'.cut = c
       /\ client'.refused = client.refused
    BY <1>12
<1>15. ClientShape'
    BY <1>7, <1>8, <1>12, <1>13, <1>14, Zenon DEF ClientShape
<1>16. ~client'.refused
    BY <1>13, <1>14, Zenon DEF ConnectionInv, ReadInv
<1>17. ~r => arrived = sent /\ (more <=> sent = mtu - 1)
    <2>1. mtu = attMtu => arrived = sent /\ (more <=> sent = mtu - 1)
        BY <1>1, <1>2, <1>6 DEF more
    <2>2. ~r => mtu = attMtu
        BY <1>9, Zenon DEF ConnectionInv, LinkInv
    <2> QED BY <2>1, <2>2, Zenon
<1>18. client'.cut => client'.unaware
    <2>1. ~r /\ ~more => got = o.numBytes
        BY <1>2, <1>3, <1>17 DEF got
    <2> QED BY <1>10, <1>14, <2>1, Zenon
<1>19. ReadInv'
    <2>1. ASSUME ~r, more
          PROVE  /\ h = o.handle /\ gatt'.operation = "Read" /\ gatt'.handle = o.handle
                 /\ gatt'.offset = g
        <3>1. gatt' = [o EXCEPT !.offset = o.offset + sent] /\ g = o.offset + sent /\ h = o.handle
            BY <1>2, <1>7, <1>8, <1>17, <2>1 DEF got
        <3>2. sent \in Nat
            BY <1>2, <1>3
        <3> QED BY <3>1, <3>2, AdvancedParts
    <2>2. ASSUME ~r, ~more
          PROVE  h = 0 /\ gatt'.operation = "None"
        BY <1>2, <1>7, <1>17, <2>2, IdleOperations
    <2> QED BY <1>14, <1>16, <2>1, <2>2 DEF ReadInv
<1> QED BY <1>4, <1>15, <1>16, <1>18, <1>19

\* A refusal leaves nothing of an operation, and the central counts it if the
\* state was not the one it had to find.
LEMMA RefuseKeeps ==
    ASSUME ConnectionInv, NEW reason, Refuse(reason),
           reason = "state" /\ Current.operation # "Disconnecting" => client.unaware
    PROVE  /\ gatt' \in Operations /\ gatt'.offset <= gatt'.numBytes
           /\ ClientShape' /\ ReadInv'
           /\ client'.cut => client'.unaware
           /\ client'.refused => client'.unaware
<1>1. PICK r \in BOOLEAN :
         r = (client.refused \/ (reason = "state" /\ Current.operation # "Disconnecting"))
    OBVIOUS
<1>2. client' = [client EXCEPT !.handle = 0, !.got = 0, !.refused = r]
    BY <1>1, Zenon DEF Refuse
<1>3. client' = [handle |-> 0, got |-> 0, unaware |-> client.unaware, cut |-> client.cut, refused |-> r]
    <2>1. client = [handle |-> client.handle, got |-> client.got, unaware |-> client.unaware,
                    cut |-> client.cut, refused |-> client.refused]
        BY DEF ConnectionInv, ClientShape
    <2> QED BY <1>2, <2>1
<1>4. client.cut \in BOOLEAN /\ client.unaware \in BOOLEAN
    BY Zenon DEF ConnectionInv, ClientShape
<1>5. /\ client'.handle = 0 /\ client'.got = 0 /\ client'.unaware = client.unaware
      /\ client'.cut = client.cut /\ client'.refused = r
    BY <1>3
<1>6. gatt' = Disconnecting
    BY DEF Refuse
<1>7. ClientShape'
    <2>1. 0 \in Nat /\ 0 \in 0 .. MaxLength
        BY MtuAssumption
    <2> QED BY <1>3, <1>4, <1>5, <2>1, Zenon DEF ClientShape
<1>8. (client.refused => client.unaware) /\ (client.cut => client.unaware)
    BY Zenon DEF ConnectionInv, ConformingCentralServed, ReadsGiveWholeValues
<1>9. (client'.refused => client'.unaware) /\ (client'.cut => client'.unaware)
    BY <1>1, <1>5, <1>8, Zenon
<1>10. ReadInv'
    BY <1>5, <1>6, IdleOperations DEF ReadInv
<1>11. gatt' \in Operations /\ gatt'.offset <= gatt'.numBytes
    BY <1>6, IdleOperations
<1> QED BY <1>7, <1>9, <1>10, <1>11

\* Whatever a request does it does to the operation and to the central.
LEMMA RequestKeeps ==
    ASSUME ConnectionInv, link = "up",
           UNCHANGED <<halted, link, connected, advertising, attMtu, exchange, mtu,
                       secondClientMTU, indicationInProgress, sending, indicating>>,
           gatt' \in Operations, gatt'.offset <= gatt'.numBytes,
           ClientShape', ReadInv',
           client'.cut => client'.unaware, client'.refused => client'.unaware
    PROVE  ConnectionInv'
<1>1. TypeOK'
    <2>1. /\ gatt'.operation \in {"None", "Read", "Disconnecting"} /\ gatt'.handle \in Nat
          /\ gatt'.numBytes \in 0 .. MaxLength /\ gatt'.offset \in 0 .. gatt'.numBytes
        BY OperationParts, MtuAssumption
    <2>2. client'.got \in 0 .. MaxLength
        BY Zenon DEF ClientShape
    <2> QED BY <2>1, <2>2, ZenonT(60) DEF ConnectionInv, TypeOK
<1>2. LinkInv'
    <2>1. connected
        BY Zenon DEF ConnectionInv, LinkInv
    <2> QED BY <2>1, Zenon DEF ConnectionInv, LinkInv
<1>3. IndicationFlagged'
    BY Zenon DEF ConnectionInv, IndicationFlagged
<1> QED BY <1>1, <1>2, <1>3, Zenon DEF ConnectionInv, ReadsGiveWholeValues, ConformingCentralServed

-----------------------------------------------------------------------------
(* The steps of the connection.                                            *)

\* There is never a second MTU, so an operation that is there is never taken
\* for one that is over (MacOS_bug).
LEMMA CurrentIsGatt ==
    ASSUME ConnectionInv
    PROVE  Current = gatt
BY DEF ConnectionInv, LinkInv, Current

LEMMA ReadRequestStep ==
    ASSUME ConnectionInv, NEW handle \in Nat \ {0}, ReadRequest(handle)
    PROVE  ConnectionInv'
<1>1. /\ link = "up" /\ client.handle = 0 /\ Current = gatt /\ connected
      /\ UNCHANGED <<halted, link, connected, advertising, attMtu, exchange, mtu,
                     secondClientMTU, indicationInProgress, sending, indicating>>
    BY CurrentIsGatt DEF ReadRequest, dbVars, ConnectionInv, LinkInv
<1>2. CASE gatt.operation # "None"
    <2>1. Refuse("state")
        BY <1>1, <1>2 DEF ReadRequest
    <2>2. gatt.operation # "Disconnecting" => client.unaware
        <3>1. gatt.operation \in {"None", "Read", "Disconnecting"}
            BY OperationParts DEF ConnectionInv
        <3> QED BY <1>1, <1>2, <3>1 DEF ConnectionInv, ReadInv
    <2> QED BY <1>1, <2>1, <2>2, RefuseKeeps, RequestKeeps
<1>3. ASSUME NEW length \in 0 .. MaxLength, gatt.operation = "None",
             Respond([operation |-> "Read", handle |-> handle, offset |-> 0, numBytes |-> length])
      PROVE  ConnectionInv'
    <2> DEFINE o == [operation |-> "Read", handle |-> handle, offset |-> 0, numBytes |-> length]
    <2>1. /\ o \in Operations /\ o.operation = "Read" /\ o.handle # 0 /\ o.offset <= o.numBytes
        BY MtuAssumption DEF Operations
    <2>2. Respond(o)
        BY <1>3
    <2>3. gatt.operation # "Disconnecting"
        BY <1>3
    <2> HIDE DEF o
    <2> QED BY <1>1, <2>1, <2>2, <2>3, RespondKeeps, RequestKeeps
<1>4. ASSUME Refuse("delegate") PROVE ConnectionInv'
    BY <1>1, <1>4, RefuseKeeps, RequestKeeps
<1> QED BY <1>1, <1>2, <1>3, <1>4 DEF ReadRequest

LEMMA ReadBlobRequestStep ==
    ASSUME ConnectionInv, ReadBlobRequest
    PROVE  ConnectionInv'
<1>1. /\ link = "up" /\ client.handle # 0 /\ Current = gatt /\ connected
      /\ UNCHANGED <<halted, link, connected, advertising, attMtu, exchange, mtu,
                     secondClientMTU, indicationInProgress, sending, indicating>>
    BY CurrentIsGatt DEF ReadBlobRequest, dbVars, ConnectionInv, LinkInv
<1>2. CASE gatt.operation # "Read" \/ gatt.handle # client.handle \/ gatt.offset # client.got
    <2>1. Refuse("state")
        BY <1>1, <1>2 DEF ReadBlobRequest
    <2>2. gatt.operation # "Disconnecting" => client.unaware
        BY <1>1, <1>2 DEF ConnectionInv, ReadInv
    <2> QED BY <1>1, <2>1, <2>2, RefuseKeeps, RequestKeeps
<1>3. CASE ~(gatt.operation # "Read" \/ gatt.handle # client.handle \/ gatt.offset # client.got)
    <2>1. Respond(gatt)
        BY <1>1, <1>3 DEF ReadBlobRequest
    <2>2. /\ gatt \in Operations /\ gatt.operation = "Read" /\ gatt.operation # "Disconnecting"
          /\ gatt.handle # 0 /\ gatt.offset <= gatt.numBytes
        BY <1>1, <1>3, MtuAssumption DEF ConnectionInv, TypeOK
    <2> QED BY <1>1, <2>1, <2>2, RespondKeeps, RequestKeeps
<1> QED BY <1>2, <1>3

LEMMA WriteRequestStep ==
    ASSUME ConnectionInv, NEW handle, WriteRequest(handle)
    PROVE  ConnectionInv'
<1>1. /\ link = "up" /\ client.handle = 0 /\ Current = gatt /\ connected
      /\ UNCHANGED <<halted, link, connected, advertising, attMtu, exchange, mtu,
                     secondClientMTU, indicationInProgress, sending, indicating>>
    BY CurrentIsGatt DEF WriteRequest, dbVars, ConnectionInv, LinkInv
<1>2. CASE gatt.operation # "None"
    <2>1. Refuse("state")
        BY <1>1, <1>2 DEF WriteRequest
    <2>2. gatt.operation # "Disconnecting" => client.unaware
        <3>1. gatt.operation \in {"None", "Read", "Disconnecting"}
            BY OperationParts DEF ConnectionInv
        <3> QED BY <1>1, <1>2, <3>1 DEF ConnectionInv, ReadInv
    <2> QED BY <1>1, <2>1, <2>2, RefuseKeeps, RequestKeeps
<1>3. ASSUME gatt.operation = "None", gatt' = NoOperation, UNCHANGED client PROVE ConnectionInv'
    <2>1. ClientShape' /\ (client'.cut => client'.unaware) /\ (client'.refused => client'.unaware)
        BY <1>3 DEF ConnectionInv, ClientShape, ReadsGiveWholeValues, ConformingCentralServed
    <2>2. ~client'.refused
        BY <1>3 DEF ConnectionInv, ReadInv
    <2>3. ReadInv' /\ gatt' \in Operations /\ gatt'.offset <= gatt'.numBytes
        BY <1>1, <1>3, <2>2, IdleOperations DEF ReadInv
    <2> QED BY <1>1, <2>1, <2>3, RequestKeeps
<1>4. ASSUME Refuse("delegate") PROVE ConnectionInv'
    BY <1>1, <1>4, RefuseKeeps, RequestKeeps
<1> QED BY <1>1, <1>2, <1>3, <1>4 DEF WriteRequest


\* What changes neither the operation nor the central keeps the invariant if it
\* keeps the order of events.
LEMMA EventKeeps ==
    ASSUME ConnectionInv, UNCHANGED <<gatt, client>>, LinkInv', IndicationFlagged',
           link' \in {"down", "up", "lost"}, connected' \in BOOLEAN, advertising' \in BOOLEAN,
           exchange' \in Exchanges, indicationInProgress' \in BOOLEAN, sending' \in BOOLEAN,
           indicating' \in BOOLEAN,
           attMtu' \in Mtus \cup {MtuMin}, mtu' \in Mtus \cup {0, MtuMin},
           halted' \in {"no", "database", "overrun", "connection", "indication", "memory"}
    PROVE  ConnectionInv'
<1>1. TypeOK'
    <2>1. /\ gatt'.operation \in {"None", "Read", "Disconnecting"} /\ gatt'.handle \in Nat
          /\ gatt'.numBytes \in 0 .. MaxLength /\ gatt'.offset \in 0 .. gatt'.numBytes
          /\ client'.got \in 0 .. MaxLength
        BY DEF ConnectionInv, TypeOK
    <2>2. secondClientMTU' \in Mtus \cup {0}
        BY DEF LinkInv
    <2> QED BY <2>1, <2>2, Zenon DEF TypeOK, Exchanges
<1>2. gatt' \in Operations /\ ClientShape' /\ ReadInv'
    BY Zenon DEF ConnectionInv, ClientShape, ReadInv
<1>3. ReadsGiveWholeValues' /\ ConformingCentralServed'
    BY Zenon DEF ConnectionInv, ReadsGiveWholeValues, ConformingCentralServed
<1> QED BY <1>1, <1>2, <1>3, Zenon DEF ConnectionInv

LEMMA ConnectionTyped ==
    ASSUME ConnectionInv
    PROVE  /\ TypeOK /\ LinkInv /\ IndicationFlagged
           /\ link \in {"down", "up", "lost"} /\ connected \in BOOLEAN /\ advertising \in BOOLEAN
           /\ exchange \in Exchanges /\ indicationInProgress \in BOOLEAN /\ sending \in BOOLEAN
           /\ indicating \in BOOLEAN
           /\ attMtu \in Mtus \cup {MtuMin} /\ mtu \in Mtus \cup {0, MtuMin}
           /\ halted \in {"no", "database", "overrun", "connection", "indication", "memory"}
BY Zenon DEF ConnectionInv, TypeOK, Exchanges

LEMMA AdvertisingStep ==
    ASSUME ConnectionInv, StartAdvertising \/ StopAdvertising
    PROVE  ConnectionInv'
<1>1. /\ UNCHANGED <<halted, link, connected, attMtu, exchange, mtu, secondClientMTU, gatt,
                     indicationInProgress, sending, indicating, client>>
      /\ advertising' \in BOOLEAN /\ (advertising' => ~connected)
    BY Zenon DEF StartAdvertising, StopAdvertising, dbVars
<1>2. LinkInv' /\ IndicationFlagged'
    BY <1>1, Zenon DEF ConnectionInv, LinkInv, IndicationFlagged
<1> QED BY <1>1, <1>2, ConnectionTyped, EventKeeps, Zenon

LEMMA HandleConnectedStep ==
    ASSUME ConnectionInv, HandleConnected
    PROVE  ConnectionInv'
<1>1. /\ link' = "up" /\ connected' = TRUE /\ advertising' = FALSE /\ mtu' = MtuMin
      /\ secondClientMTU' = 0 /\ exchange' \in {"outstanding", "failed"}
      /\ UNCHANGED <<halted, attMtu, gatt, indicationInProgress, sending, indicating, client>>
    BY Zenon DEF HandleConnected, dbVars
<1>2. LinkInv' /\ IndicationFlagged'
    BY <1>1 DEF ConnectionInv, LinkInv, IndicationFlagged
<1>3. /\ link' \in {"down", "up", "lost"} /\ mtu' \in Mtus \cup {0, MtuMin}
      /\ exchange' \in Exchanges
    BY <1>1 DEF Exchanges
<1> QED BY <1>1, <1>2, <1>3, ConnectionTyped, EventKeeps, Zenon

LEMMA ConnectionFailedStep ==
    ASSUME ConnectionInv, ConnectionFailed
    PROVE  ConnectionInv'
<1>1. UNCHANGED connVars /\ halted' = "connection"
    BY DEF ConnectionFailed, FatalError
<1>2. LinkInv' /\ IndicationFlagged'
    BY <1>1 DEF ConnectionInv, LinkInv, IndicationFlagged, connVars
<1> QED BY <1>1, <1>2, ConnectionTyped, EventKeeps DEF connVars

LEMMA LinkLostStep ==
    ASSUME ConnectionInv, LinkLost
    PROVE  ConnectionInv'
<1>1. /\ link = "up" /\ link' = "lost"
      /\ UNCHANGED <<halted, connected, advertising, attMtu, exchange, mtu, secondClientMTU,
                     gatt, indicationInProgress, sending, indicating, client>>
    BY DEF LinkLost, dbVars
<1>2. LinkInv' /\ IndicationFlagged'
    BY <1>1 DEF ConnectionInv, LinkInv, IndicationFlagged
<1> QED BY <1>1, <1>2, ConnectionTyped, EventKeeps

LEMMA CentralExchangesMtuStep ==
    ASSUME ConnectionInv, CentralExchangesMtu
    PROVE  ConnectionInv'
<1>1. /\ attMtu' \in Mtus /\ exchange # "answered"
      /\ UNCHANGED <<halted, link, connected, advertising, exchange, mtu, secondClientMTU,
                     gatt, indicationInProgress, sending, indicating, client>>
    BY DEF CentralExchangesMtu, dbVars
<1>2. LinkInv' /\ IndicationFlagged'
    BY <1>1, Zenon DEF ConnectionInv, LinkInv, IndicationFlagged
<1> QED BY <1>1, <1>2, ConnectionTyped, EventKeeps

LEMMA ExchangeStep ==
    ASSUME ConnectionInv, NEW err \in BOOLEAN, GattsExchangeMTUParams(err)
    PROVE  ConnectionInv'
<1>1. /\ exchange = "outstanding" /\ exchange' = (IF err THEN "failed" ELSE "answered")
      /\ UNCHANGED <<halted, link, connected, advertising, gatt, indicationInProgress, sending,
                     indicating, client>>
    BY DEF GattsExchangeMTUParams, dbVars
<1>2. connected /\ mtu = MtuMin /\ secondClientMTU = 0
    BY <1>1 DEF ConnectionInv, LinkInv
<1>3. /\ attMtu' \in Mtus \cup {MtuMin} /\ secondClientMTU' = 0
      /\ mtu' = IF err THEN MtuMin ELSE attMtu'
    <2>1. CASE err
        BY <1>2, <2>1, ConnectionTyped DEF GattsExchangeMTUParams
    <2>2. CASE ~err
        <3>1. attMtu' \in Mtus
            BY <2>2, ConnectionTyped DEF GattsExchangeMTUParams
        <3>2. mtu' = attMtu' /\ secondClientMTU' = secondClientMTU
            BY <1>2, <2>2 DEF GattsExchangeMTUParams
        <3> QED BY <1>2, <2>2, <3>1, <3>2
    <2> QED BY <2>1, <2>2
<1>4. LinkInv' /\ IndicationFlagged'
    BY <1>1, <1>2, <1>3 DEF ConnectionInv, LinkInv, IndicationFlagged
<1>5. mtu' \in Mtus \cup {0, MtuMin} /\ exchange' \in Exchanges
    BY <1>1, <1>3 DEF Exchanges
<1> QED BY <1>1, <1>3, <1>4, <1>5, ConnectionTyped, EventKeeps

LEMMA IndicationStep ==
    ASSUME ConnectionInv, NEW handle, SendHandleValueIndication(handle)
    PROVE  ConnectionInv'
<1>1. /\ sending' = TRUE
      /\ UNCHANGED <<halted, link, connected, advertising, attMtu, exchange, mtu, secondClientMTU,
                     gatt, indicationInProgress, indicating, client>>
    BY DEF SendHandleValueIndication, dbVars
<1>2. LinkInv' /\ IndicationFlagged'
    BY <1>1, Zenon DEF ConnectionInv, LinkInv, IndicationFlagged
<1> QED BY <1>1, <1>2, ConnectionTyped, EventKeeps, Zenon

LEMMA IndicationSentStep ==
    ASSUME ConnectionInv, IndicationSent
    PROVE  ConnectionInv'
<1>1. /\ sending' = FALSE
      /\ UNCHANGED <<link, connected, advertising, attMtu, exchange, mtu, secondClientMTU, gatt,
                     client>>
    BY DEF IndicationSent
<1>2. \/ indicationInProgress' = TRUE /\ indicating' = TRUE /\ halted' = halted
      \/ UNCHANGED <<indicationInProgress, indicating>> /\ halted' \in {"memory", "indication"}
    BY DEF IndicationSent, FatalError, dbVars
<1>3. LinkInv'
    BY <1>1, Zenon DEF ConnectionInv, LinkInv
<1>4. /\ IndicationFlagged' /\ indicationInProgress' \in BOOLEAN /\ indicating' \in BOOLEAN
      /\ halted' \in {"no", "database", "overrun", "connection", "indication", "memory"}
    <2>1. CASE indicationInProgress' = TRUE /\ indicating' = TRUE /\ halted' = halted
        BY <2>1, ConnectionTyped DEF IndicationFlagged
    <2>2. CASE /\ UNCHANGED <<indicationInProgress, indicating>>
               /\ halted' \in {"memory", "indication"}
        BY <2>2, ConnectionTyped DEF IndicationFlagged
    <2> QED BY <1>2, <2>1, <2>2
<1> QED BY <1>1, <1>3, <1>4, ConnectionTyped, EventKeeps, Zenon

LEMMA ConfirmationStep ==
    ASSUME ConnectionInv, GattsIndicateValueCallback
    PROVE  ConnectionInv'
<1>1. /\ indicating' = FALSE /\ indicationInProgress' = FALSE
      /\ UNCHANGED <<halted, link, connected, advertising, attMtu, exchange, mtu,
                     secondClientMTU, gatt, sending, client>>
    BY DEF GattsIndicateValueCallback, dbVars
<1>2. LinkInv' /\ IndicationFlagged'
    BY <1>1, Zenon DEF ConnectionInv, LinkInv, IndicationFlagged
<1> QED BY <1>1, <1>2, ConnectionTyped, EventKeeps, Zenon

\* The ADK cancels the connection: the operation is forgotten.
LEMMA CancelStep ==
    ASSUME ConnectionInv, CancelCentralConnection
    PROVE  ConnectionInv'
<1>1. /\ connected /\ gatt' = Disconnecting
      /\ UNCHANGED <<halted, link, connected, advertising, attMtu, exchange, mtu,
                     secondClientMTU, indicationInProgress, sending, indicating, client>>
    BY DEF CancelCentralConnection, dbVars
<1>2. TypeOK'
    <2>1. /\ gatt'.operation \in {"None", "Read", "Disconnecting"} /\ gatt'.handle \in Nat
          /\ gatt'.numBytes \in 0 .. MaxLength /\ gatt'.offset \in 0 .. gatt'.numBytes
        BY <1>1, IdleOperations, OperationParts, MtuAssumption
    <2>2. /\ secondClientMTU' \in Mtus \cup {0} /\ client'.got \in 0 .. MaxLength
        BY <1>1 DEF ConnectionInv, TypeOK
    <2> QED BY <1>1, <2>1, <2>2, ConnectionTyped, ZenonT(60) DEF TypeOK, Exchanges
<1>3. gatt' \in Operations /\ ReadInv'
    BY <1>1, IdleOperations DEF ReadInv
<1>4. LinkInv' /\ ClientShape'
    BY <1>1, Zenon DEF ConnectionInv, LinkInv, ClientShape
<1>5. ReadsGiveWholeValues' /\ ConformingCentralServed' /\ IndicationFlagged'
    BY <1>1, Zenon DEF ConnectionInv, ReadsGiveWholeValues, ConformingCentralServed, IndicationFlagged
<1> QED BY <1>2, <1>3, <1>4, <1>5 DEF ConnectionInv

\* Without a connection nothing is under way.
LEMMA Unconnected ==
    ASSUME link' = "down", connected' = FALSE, exchange' = "none", mtu' = 0, secondClientMTU' = 0,
           gatt' = NoOperation, client' = NoClient, attMtu' = MtuMin, advertising' \in BOOLEAN,
           indicationInProgress' = FALSE, sending' \in BOOLEAN, indicating' = FALSE,
           halted' \in {"no", "database", "overrun", "connection", "indication", "memory"}
    PROVE  ConnectionInv'
<1>1. TypeOK'
    <2>1. /\ gatt'.operation \in {"None", "Read", "Disconnecting"} /\ gatt'.handle \in Nat
          /\ gatt'.numBytes \in 0 .. MaxLength /\ gatt'.offset \in 0 .. gatt'.numBytes
          /\ client'.got \in 0 .. MaxLength
        BY IdleOperations, NoClientParts, MtuAssumption
    <2>2. mtu' \in Mtus \cup {0, MtuMin} /\ attMtu' \in Mtus \cup {MtuMin} /\ secondClientMTU' \in Mtus \cup {0}
        OBVIOUS
    <2> QED BY <2>1, <2>2 DEF TypeOK
<1>2. ClientShape'
    <2>1. 0 \in Nat /\ 0 \in 0 .. MaxLength
        BY MtuAssumption
    <2>2. client' = [handle |-> 0, got |-> 0, unaware |-> FALSE, cut |-> FALSE, refused |-> FALSE]
        BY DEF NoClient
    <2> QED BY <2>1, <2>2, NoClientParts, Zenon DEF ClientShape
<1>3. LinkInv' /\ ReadInv' /\ IndicationFlagged'
    BY IdleOperations, NoClientParts DEF LinkInv, ReadInv, IndicationFlagged
<1>4. ReadsGiveWholeValues' /\ ConformingCentralServed'
    BY NoClientParts DEF ReadsGiveWholeValues, ConformingCentralServed
<1> QED BY <1>1, <1>2, <1>3, <1>4, IdleOperations DEF ConnectionInv

LEMMA HandleDisconnectedStep ==
    ASSUME ConnectionInv, HandleDisconnected
    PROVE  ConnectionInv'
<1>1. /\ ~indicating /\ exchange' = "none"
      /\ link' = "down" /\ connected' = FALSE /\ mtu' = 0 /\ secondClientMTU' = 0
      /\ gatt' = NoOperation /\ indicationInProgress' = FALSE /\ attMtu' = MtuMin
      /\ client' = NoClient
      /\ UNCHANGED <<halted, advertising, sending, indicating>>
    BY DEF HandleDisconnected, dbVars
<1>2. indicating' = FALSE /\ sending' \in BOOLEAN
    BY <1>1, ConnectionTyped
<1> QED BY <1>1, <1>2, ConnectionTyped, Unconnected

-----------------------------------------------------------------------------
(* The invariant of the database.                                          *)

Kinds == {"service", "declaration", "value", "ccc", "descriptor"}
Attributes == [kind : Kinds, uuid : Uuids \cup {NoUuid}, base : 0 .. NumUuidBases]

DatabaseShape(d) ==
    d = [attrs |-> d.attrs, start |-> d.start, services |-> d.services,
         populating |-> d.populating, published |-> d.published, pending |-> d.pending,
         handles |-> d.handles, given |-> d.given, diff |-> d.diff]

BasesShape(bases) ==
    /\ bases = [memory |-> bases.memory, used |-> bases.used, firstRun |-> bases.firstRun]
    /\ bases.memory \in [1 .. NumUuidBases -> Uuids \cup {BluetoothBase}]
    /\ bases.used \in 0 .. NumUuidBases
    /\ bases.firstRun \in BOOLEAN

\* A type is where its attribute says, and as long as services are added that
\* place is in use.  No type is kept before the first run.
BasesInv(bases, d) ==
    /\ BasesShape(bases)
    /\ bases.firstRun => bases.used = 0
    /\ \A i \in DOMAIN d.attrs :
          /\ d.attrs[i].base # 0 => bases.memory[d.attrs[i].base] = d.attrs[i].uuid
          /\ ~d.published => d.attrs[i].base <= bases.used

Numbered(places) == [i \in places |-> FirstHandle + i - 1]
WithVariable(attrs) == {i \in DOMAIN attrs : HasHandleVariable(attrs[i])}

\* The host numbers all attributes without a gap, and the ones of the service
\* that is being built still wait for their handles.
HandlesInv(d) ==
    /\ DatabaseShape(d)
    /\ d.attrs \in Seq(Attributes) /\ d.start \in 0 .. Len(d.attrs)
    /\ d.populating \in BOOLEAN /\ d.published \in BOOLEAN
    /\ d.handles = Numbered(1 .. d.start)
    /\ d.populating => d.start < Len(d.attrs)
    /\ ~d.populating => d.start = Len(d.attrs) /\ d.pending = {}
    /\ d.published => ~d.populating
    /\ d.given = Numbered(DOMAIN d.given)
    /\ WithVariable(d.attrs) = DOMAIN d.given \cup d.pending
    /\ DOMAIN d.given # {} => d.diff = FirstHandle

DatabaseInv == HandlesInv(db) /\ BasesInv(uuidBases, db)

\* The host's numbers for a service follow those of the service before.
LEMMA HostNumbers ==
    ASSUME NEW d, HandlesInv(d), d.populating
    PROVE  HostHandles(d) = Numbered(DOMAIN d.attrs)
<1>1. /\ DOMAIN d.attrs = 1 .. Len(d.attrs) /\ Len(d.attrs) \in Nat /\ d.start \in 0 .. Len(d.attrs)
      /\ d.handles = Numbered(1 .. d.start) /\ FirstHandle \in Nat
    BY LenProperties, DatabaseAssumption DEF HandlesInv
<1>2. PICK last : last = IF d.start = 0 THEN FirstHandle - 1 ELSE d.handles[d.start]
    OBVIOUS
<1>3. last = FirstHandle + d.start - 1
    <2>1. CASE d.start = 0
        BY <1>1, <1>2, <2>1
    <2>2. CASE d.start # 0
        <3>1. d.start \in 1 .. d.start
            BY <1>1, <2>2
        <3>2. d.handles[d.start] = FirstHandle + d.start - 1
            BY <1>1, <3>1 DEF Numbered
        <3> QED BY <1>2, <2>2, <3>2
    <2> QED BY <2>1, <2>2
<1>4. HostHandles(d) = [i \in DOMAIN d.attrs |-> IF i <= d.start THEN d.handles[i] ELSE last + i - d.start]
    BY <1>2, Zenon DEF HostHandles
<1>5. ASSUME NEW i \in DOMAIN d.attrs
      PROVE  (IF i <= d.start THEN d.handles[i] ELSE last + i - d.start) = FirstHandle + i - 1
    <2>1. i \in Nat /\ i >= 1
        BY <1>1
    <2>2. CASE i <= d.start
        <3>1. i \in 1 .. d.start
            BY <1>1, <2>1, <2>2
        <3> QED BY <1>1, <2>2, <3>1 DEF Numbered
    <2>3. CASE ~(i <= d.start)
        BY <1>1, <1>3, <2>1, <2>3
    <2> QED BY <2>2, <2>3
<1>6. [i \in DOMAIN d.attrs |-> IF i <= d.start THEN d.handles[i] ELSE last + i - d.start]
          = [i \in DOMAIN d.attrs |-> FirstHandle + i - 1]
    BY <1>5, Zenon
<1> QED BY <1>4, <1>6 DEF Numbered

\* Registering a service leaves no attribute without its handle.
LEMMA PublishServiceKeeps ==
    ASSUME NEW d, HandlesInv(d), d.populating
    PROVE  /\ HandlesInv(PublishService(d)) /\ PublishService(d).attrs = d.attrs
           /\ ~PublishService(d).populating /\ PublishService(d).published = d.published
           /\ ~PublishService(d).published
<1> DEFINE handles == HostHandles(d)
           given == [i \in DOMAIN d.given \cup d.pending |->
                        IF i \in d.pending THEN handles[i] ELSE d.given[i]]
<1>1. /\ d = [attrs |-> d.attrs, start |-> d.start, services |-> d.services,
              populating |-> d.populating, published |-> d.published, pending |-> d.pending,
              handles |-> d.handles, given |-> d.given, diff |-> d.diff]
    BY DEF HandlesInv, DatabaseShape
<1>2. PublishService(d) =
          [d EXCEPT !.services = d.services + 1, !.start = Len(d.attrs), !.populating = FALSE,
                    !.handles = handles, !.pending = {}, !.diff = handles[1], !.given = given]
    BY Zenon DEF PublishService
<1> HIDE DEF given, handles
<1>3. PublishService(d) =
          [attrs |-> d.attrs, start |-> Len(d.attrs), services |-> d.services + 1,
           populating |-> FALSE, published |-> d.published, pending |-> {},
           handles |-> handles, given |-> given, diff |-> handles[1]]
    BY <1>1, <1>2
<1>4. /\ d.attrs \in Seq(Attributes) /\ d.published \in BOOLEAN /\ d.published = FALSE
      /\ d.given = Numbered(DOMAIN d.given) /\ WithVariable(d.attrs) = DOMAIN d.given \cup d.pending
      /\ d.start < Len(d.attrs) /\ d.start \in 0 .. Len(d.attrs)
    BY Zenon DEF HandlesInv
<1>5. Len(d.attrs) \in Nat /\ DOMAIN d.attrs = 1 .. Len(d.attrs) /\ 1 \in DOMAIN d.attrs
    BY <1>4, LenProperties
<1>6. handles = Numbered(DOMAIN d.attrs)
    BY HostNumbers DEF handles
<1>7. handles[1] = FirstHandle
    BY <1>5, <1>6, DatabaseAssumption DEF Numbered
<1>8. given = Numbered(DOMAIN d.given \cup d.pending) /\ DOMAIN given = DOMAIN d.given \cup d.pending
    <2>1. d.pending \subseteq DOMAIN d.attrs
        BY <1>4 DEF WithVariable
    <2>2. \A i \in d.pending : handles[i] = FirstHandle + i - 1
        BY <1>6, <2>1, Zenon DEF Numbered
    <2>3. \A i \in DOMAIN d.given : d.given[i] = FirstHandle + i - 1
        BY <1>4, Zenon DEF Numbered
    <2> QED BY <2>2, <2>3, Zenon DEF given, Numbered
<1>9. /\ PublishService(d).attrs = d.attrs /\ PublishService(d).start = Len(d.attrs)
      /\ PublishService(d).services = d.services + 1
      /\ PublishService(d).populating = FALSE /\ PublishService(d).published = FALSE
      /\ PublishService(d).pending = {} /\ PublishService(d).handles = handles
      /\ PublishService(d).given = given /\ PublishService(d).diff = handles[1]
    BY <1>3, <1>4
<1>10. DatabaseShape(PublishService(d))
    BY <1>3, <1>4, <1>9, Zenon DEF DatabaseShape
<1>11. PublishService(d).handles = Numbered(1 .. Len(d.attrs)) /\ Len(d.attrs) \in 0 .. Len(d.attrs)
    BY <1>5, <1>6, <1>9
<1>12. WithVariable(d.attrs) = DOMAIN given \cup {} /\ given = Numbered(DOMAIN given)
    BY <1>4, <1>8
<1> QED BY <1>4, <1>7, <1>9, <1>10, <1>11, <1>12, Zenon DEF HandlesInv

\* One attribute more.
IsAppended(new, attrs, a) ==
    /\ new \in Seq(Attributes) /\ Len(new) = Len(attrs) + 1
    /\ DOMAIN new = DOMAIN attrs \cup {Len(attrs) + 1}
    /\ \A i \in DOMAIN attrs : new[i] = attrs[i]
    /\ new[Len(attrs) + 1] = a
    /\ HasHandleVariable(a) => WithVariable(new) = WithVariable(attrs) \cup {Len(attrs) + 1}
    /\ ~HasHandleVariable(a) => WithVariable(new) = WithVariable(attrs)

LEMMA Appended ==
    ASSUME NEW attrs \in Seq(Attributes), NEW a \in Attributes
    PROVE  IsAppended(Append(attrs, a), attrs, a)
<1>0. PICK new : new = Append(attrs, a)
    OBVIOUS
<1>1. /\ new \in Seq(Attributes) /\ Len(new) = Len(attrs) + 1
      /\ \A i \in 1 .. Len(attrs) : new[i] = attrs[i]
      /\ new[Len(attrs) + 1] = a
    BY <1>0, AppendProperties
<1>2. /\ DOMAIN attrs = 1 .. Len(attrs) /\ Len(attrs) \in Nat
      /\ DOMAIN new = 1 .. Len(attrs) + 1
    BY <1>1, LenProperties
<1>3. DOMAIN new = DOMAIN attrs \cup {Len(attrs) + 1}
    BY <1>2
<1>4. \A i \in DOMAIN attrs : HasHandleVariable(new[i]) <=> HasHandleVariable(attrs[i])
    BY <1>1, <1>2 DEF HasHandleVariable
<1>5. HasHandleVariable(new[Len(attrs) + 1]) <=> HasHandleVariable(a)
    BY <1>1 DEF HasHandleVariable
<1>6. /\ HasHandleVariable(a) => WithVariable(new) = WithVariable(attrs) \cup {Len(attrs) + 1}
      /\ ~HasHandleVariable(a) => WithVariable(new) = WithVariable(attrs)
    BY <1>3, <1>4, <1>5, Zenon DEF WithVariable
<1>7. IsAppended(new, attrs, a)
    BY <1>1, <1>2, <1>3, <1>6 DEF IsAppended
<1> QED BY <1>0, <1>7, Zenon

\* Attributes that are added one after the other.
LEMMA TwoMore ==
    ASSUME NEW attrs \in Seq(Attributes), NEW a \in Attributes, NEW b \in Attributes
    PROVE  attrs \o <<a, b>> = Append(Append(attrs, a), b)
<1>1. Append(attrs, a) \in Seq(Attributes) /\ Append(Append(attrs, a), b) \in Seq(Attributes)
    BY AppendProperties
<1>2. <<a, b>> \in Seq(Attributes) /\ Len(<<a, b>>) = 2 /\ <<a, b>>[1] = a /\ <<a, b>>[2] = b
    OBVIOUS
<1>3. /\ attrs \o <<a, b>> \in Seq(Attributes) /\ Len(attrs \o <<a, b>>) = Len(attrs) + 2
      /\ \A i \in 1 .. Len(attrs) + 2 :
            (attrs \o <<a, b>>)[i] = IF i <= Len(attrs) THEN attrs[i] ELSE <<a, b>>[i - Len(attrs)]
    BY <1>2, ConcatProperties
<1>4. /\ Len(Append(Append(attrs, a), b)) = Len(attrs) + 2
      /\ \A i \in 1 .. Len(attrs) : Append(Append(attrs, a), b)[i] = attrs[i]
      /\ Append(Append(attrs, a), b)[Len(attrs) + 1] = a
      /\ Append(Append(attrs, a), b)[Len(attrs) + 2] = b
    <2>1. PICK n \in Nat : n = Len(attrs)
        BY LenProperties
    <2>2. /\ Len(Append(attrs, a)) = n + 1 /\ Append(attrs, a)[n + 1] = a
          /\ \A i \in 1 .. n : Append(attrs, a)[i] = attrs[i]
        BY <2>1, AppendProperties
    <2>3. /\ Len(Append(Append(attrs, a), b)) = n + 1 + 1 /\ Append(Append(attrs, a), b)[n + 1 + 1] = b
          /\ \A i \in 1 .. n + 1 : Append(Append(attrs, a), b)[i] = Append(attrs, a)[i]
        BY <1>1, <2>2, AppendProperties
    <2>4. n + 1 + 1 = n + 2 /\ n + 1 \in 1 .. n + 1 /\ \A i \in 1 .. n : i \in 1 .. n + 1
        OBVIOUS
    <2> QED BY <2>1, <2>2, <2>3, <2>4
<1>5. ASSUME NEW i \in 1 .. Len(attrs) + 2
      PROVE  (attrs \o <<a, b>>)[i] = Append(Append(attrs, a), b)[i]
    <2>1. Len(attrs) \in Nat
        BY LenProperties
    <2>2. i \in 1 .. Len(attrs) \/ i = Len(attrs) + 1 \/ i = Len(attrs) + 2
        BY <2>1
    <2>3. CASE i \in 1 .. Len(attrs)
        BY <1>3, <1>4, <2>1, <2>3
    <2>4. CASE i = Len(attrs) + 1
        BY <1>2, <1>3, <1>4, <2>1, <2>4
    <2>5. CASE i = Len(attrs) + 2
        BY <1>2, <1>3, <1>4, <2>1, <2>5
    <2> QED BY <2>2, <2>3, <2>4, <2>5
<1>6. \A s, t : s \in Seq(Attributes) /\ t \in Seq(Attributes) /\ Len(s) = Len(t)
                /\ (\A i \in 1 .. Len(s) : s[i] = t[i]) => s = t
    BY SeqEqual
<1> QED BY <1>1, <1>3, <1>4, <1>5, <1>6, Zenon

LEMMA OneMore ==
    ASSUME NEW attrs \in Seq(Attributes), NEW a \in Attributes
    PROVE  attrs \o <<a>> = Append(attrs, a)
OBVIOUS

-----------------------------------------------------------------------------
(* Types and their places.                                                 *)

LEMMA AttributeParts ==
    ASSUME NEW attrs \in Seq(Attributes), NEW i \in DOMAIN attrs
    PROVE  /\ attrs[i] \in Attributes /\ attrs[i].base \in 0 .. NumUuidBases
           /\ attrs[i].uuid \in Uuids \cup {NoUuid} /\ i \in Nat /\ i >= 1
<1>1. i \in 1 .. Len(attrs) /\ Len(attrs) \in Nat
    BY LenProperties
<1>2. attrs[i] \in Attributes
    BY <1>1, ElementOfSeq
<1> QED BY <1>1, <1>2 DEF Attributes

LEMMA MemoryTyped ==
    ASSUME NEW memory \in [1 .. NumUuidBases -> Uuids \cup {BluetoothBase}],
           NEW n \in 1 .. NumUuidBases, NEW uuid \in Uuids \cup {BluetoothBase}
    PROVE  /\ [memory EXCEPT ![n] = uuid] \in [1 .. NumUuidBases -> Uuids \cup {BluetoothBase}]
           /\ [memory EXCEPT ![n] = uuid][n] = uuid
           /\ \A i \in 1 .. NumUuidBases : i # n => [memory EXCEPT ![n] = uuid][i] = memory[i]
<1> DEFINE places == 1 .. NumUuidBases
           types == Uuids \cup {BluetoothBase}
<1>1. memory \in [places -> types] /\ n \in places /\ uuid \in types
    OBVIOUS
<1> HIDE DEF places, types
<1>2. /\ [memory EXCEPT ![n] = uuid] \in [places -> types]
      /\ [memory EXCEPT ![n] = uuid][n] = uuid
      /\ \A i \in places : i # n => [memory EXCEPT ![n] = uuid][i] = memory[i]
    BY <1>1
<1> QED BY <1>2 DEF places, types

\* Where a UUID is kept, and that no other one had to go for it.
LEMMA UuidKept ==
    ASSUME NEW uuid \in Uuids, NEW d, ~d.published, d.attrs \in Seq(Attributes),
           BasesInv(uuidBases, d), NEW bases, NEW index,
           bases = GetBLEUUID(uuid).bases, index = GetBLEUUID(uuid).index
    PROVE  /\ BasesInv(bases, d) /\ index \in 0 .. bases.used
           /\ index # 0 => bases.memory[index] = uuid
<1>0. \A i \in DOMAIN d.attrs : d.attrs[i].base \in 0 .. NumUuidBases
    BY AttributeParts
<1> DEFINE first == FirstRun(uuidBases)
           known == Known(first, uuid)
<1>1. /\ BasesShape(first) /\ ~first.firstRun /\ BasesInv(first, d)
    <2>1. CASE uuidBases.firstRun
        <3>1. uuidBases.used = 0 /\ BasesShape(uuidBases)
            BY <2>1 DEF BasesInv
        <3>3. first = [memory |-> [uuidBases.memory EXCEPT ![1] = BluetoothBase],
                       used |-> 1, firstRun |-> FALSE]
            BY <2>1, <3>1 DEF FirstRun
        <3> HIDE DEF first
        <3>4. BasesShape(first) /\ ~first.firstRun /\ first.used = 1
            <4>1. /\ first.memory = [uuidBases.memory EXCEPT ![1] = BluetoothBase]
                  /\ first.used = 1 /\ first.firstRun = FALSE
                BY <3>3
            <4>2. first.memory \in [1 .. NumUuidBases -> Uuids \cup {BluetoothBase}]
                <5>1. 1 \in 1 .. NumUuidBases
                    BY DatabaseAssumption
                <5>2. uuidBases.memory \in [1 .. NumUuidBases -> Uuids \cup {BluetoothBase}]
                    BY <3>1, Zenon DEF BasesShape
                <5>3. BluetoothBase \in Uuids \cup {BluetoothBase}
                    OBVIOUS
                <5>4. [uuidBases.memory EXCEPT ![1] = BluetoothBase]
                          \in [1 .. NumUuidBases -> Uuids \cup {BluetoothBase}]
                    BY <5>1, <5>2, <5>3, MemoryTyped
                <5> QED BY <4>1, <5>4, Zenon
            <4>3. 1 \in 0 .. NumUuidBases
                BY DatabaseAssumption
            <4>4. first = [memory |-> first.memory, used |-> first.used, firstRun |-> first.firstRun]
                BY <3>3
            <4> QED BY <4>1, <4>2, <4>3, <4>4 DEF BasesShape
        <3>5. ASSUME NEW i \in DOMAIN d.attrs PROVE d.attrs[i].base = 0
            <4>1. d.attrs[i].base \in 0 .. NumUuidBases /\ d.attrs[i].base <= uuidBases.used
                BY <1>0 DEF BasesInv
            <4> QED BY <3>1, <4>1
        <3>6. \A i \in DOMAIN d.attrs : d.attrs[i].base <= first.used
            BY <3>4, <3>5
        <3> QED BY <3>4, <3>5, <3>6, Zenon DEF BasesInv
    <2>2. CASE ~uuidBases.firstRun
        BY <2>2 DEF FirstRun, BasesInv
    <2> QED BY <2>1, <2>2
<1>2. /\ bases = IF known # {} THEN first
                 ELSE IF first.used >= NumUuidBases THEN first
                 ELSE [first EXCEPT !.memory[first.used + 1] = uuid, !.used = @ + 1]
      /\ index = IF known # {} THEN CHOOSE i \in known : TRUE
                 ELSE IF first.used >= NumUuidBases THEN 0
                 ELSE first.used + 1
    BY DEF GetBLEUUID
<1>3. known = {i \in 1 .. first.used : first.memory[i] = uuid}
    BY DEF Known
<1> HIDE DEF first, known
<1>4. first.used \in 0 .. NumUuidBases /\ NumUuidBases \in Nat
    BY <1>1, DatabaseAssumption DEF BasesShape
<1>5. CASE known # {}
    <2>1. index \in known /\ bases = first
        BY <1>2, <1>5
    <2>2. index \in 0 .. first.used /\ first.memory[index] = uuid
        BY <1>3, <1>4, <2>1
    <2> QED BY <1>1, <2>1, <2>2
<1>6. CASE known = {} /\ first.used >= NumUuidBases
    BY <1>1, <1>2, <1>4, <1>6
<1>7. CASE known = {} /\ ~(first.used >= NumUuidBases)
    <2>1. PICK n \in 1 .. NumUuidBases : n = first.used + 1
        BY <1>4, <1>7
    <2>2. index = n /\ bases = [first EXCEPT !.memory[n] = uuid, !.used = n]
        BY <1>2, <1>7, <2>1
    <2>3. /\ first = [memory |-> first.memory, used |-> first.used, firstRun |-> first.firstRun]
          /\ first.memory \in [1 .. NumUuidBases -> Uuids \cup {BluetoothBase}]
          /\ first.firstRun = FALSE
        BY <1>1, Zenon DEF BasesShape
    <2>4. PICK m : m = [first.memory EXCEPT ![n] = uuid]
        OBVIOUS
    <2>5. bases = [memory |-> m, used |-> n, firstRun |-> FALSE]
        BY <2>2, <2>3, <2>4
    <2>6. bases.memory = m /\ bases.used = n /\ bases.firstRun = FALSE
        BY <2>5
    <2>7. m \in [1 .. NumUuidBases -> Uuids \cup {BluetoothBase}] /\ m[n] = uuid
          /\ \A i \in 1 .. NumUuidBases : i # n => m[i] = first.memory[i]
        <3>1. uuid \in Uuids \cup {BluetoothBase}
            OBVIOUS
        <3>2. /\ [first.memory EXCEPT ![n] = uuid] \in [1 .. NumUuidBases -> Uuids \cup {BluetoothBase}]
              /\ [first.memory EXCEPT ![n] = uuid][n] = uuid
              /\ \A i \in 1 .. NumUuidBases : i # n => [first.memory EXCEPT ![n] = uuid][i] = first.memory[i]
            BY <2>3, <3>1, MemoryTyped
        <3> QED BY <2>4, <3>2
    <2>8. BasesShape(bases)
        <3>1. n \in 0 .. NumUuidBases
            OBVIOUS
        <3>2. bases = [memory |-> bases.memory, used |-> bases.used, firstRun |-> bases.firstRun]
            BY <2>5
        <3> QED BY <2>6, <2>7, <3>1, <3>2 DEF BasesShape
    <2>9. ASSUME NEW i \in DOMAIN d.attrs
          PROVE  /\ d.attrs[i].base # 0 => bases.memory[d.attrs[i].base] = d.attrs[i].uuid
                 /\ d.attrs[i].base <= bases.used
        <3>1. /\ d.attrs[i].base \in 0 .. NumUuidBases /\ d.attrs[i].base <= first.used
              /\ d.attrs[i].base # 0 => first.memory[d.attrs[i].base] = d.attrs[i].uuid
            BY <1>0, <1>1 DEF BasesInv
        <3>2. d.attrs[i].base <= n /\ d.attrs[i].base # n
            BY <1>4, <2>1, <3>1
        <3>3. d.attrs[i].base # 0 => d.attrs[i].base \in 1 .. NumUuidBases
            BY <3>1
        <3> QED BY <2>6, <2>7, <3>1, <3>2, <3>3
    <2>10. BasesInv(bases, d)
        BY <2>6, <2>8, <2>9, Zenon DEF BasesInv
    <2>11. n \in 0 .. n
        OBVIOUS
    <2> QED BY <2>2, <2>6, <2>7, <2>10, <2>11
<1> QED BY <1>5, <1>6, <1>7

-----------------------------------------------------------------------------
(* Building the database.                                                  *)

Grown(d, attrs, pending) ==
    [d EXCEPT !.attrs = attrs, !.populating = TRUE, !.pending = pending]

\* A service that grows: "pending" are the attributes that ask for a handle.
LEMMA Extended ==
    ASSUME NEW d, HandlesInv(d), ~d.published, NEW attrs \in Seq(Attributes),
           Len(attrs) > Len(d.attrs), NEW pending,
           WithVariable(attrs) = DOMAIN d.given \cup pending
    PROVE  /\ HandlesInv(Grown(d, attrs, pending)) /\ Grown(d, attrs, pending).attrs = attrs
           /\ ~Grown(d, attrs, pending).published
<1>0. PICK e : e = Grown(d, attrs, pending)
    OBVIOUS
<1>1. d = [attrs |-> d.attrs, start |-> d.start, services |-> d.services,
           populating |-> d.populating, published |-> d.published, pending |-> d.pending,
           handles |-> d.handles, given |-> d.given, diff |-> d.diff]
    BY DEF HandlesInv, DatabaseShape
<1>2. e = [attrs |-> attrs, start |-> d.start, services |-> d.services,
           populating |-> TRUE, published |-> d.published, pending |-> pending,
           handles |-> d.handles, given |-> d.given, diff |-> d.diff]
    BY <1>0, <1>1 DEF Grown
<1>3. /\ e.attrs = attrs /\ e.start = d.start /\ e.services = d.services /\ e.populating = TRUE
      /\ e.published = d.published /\ e.pending = pending /\ e.handles = d.handles
      /\ e.given = d.given /\ e.diff = d.diff
    BY <1>2
<1>4. DatabaseShape(e)
    BY <1>2, <1>3, Zenon DEF DatabaseShape
<1>5. d.start \in 0 .. Len(attrs) /\ d.start < Len(attrs)
    <2>1. Len(attrs) \in Nat /\ Len(d.attrs) \in Nat /\ d.start \in 0 .. Len(d.attrs)
        BY LenProperties DEF HandlesInv
    <2> QED BY <2>1
<1>6. /\ d.published = FALSE /\ d.handles = Numbered(1 .. d.start)
      /\ d.given = Numbered(DOMAIN d.given) /\ DOMAIN d.given # {} => d.diff = FirstHandle
    BY Zenon DEF HandlesInv
<1>7. HandlesInv(e)
    BY <1>3, <1>4, <1>5, <1>6, Zenon DEF HandlesInv
<1> QED BY <1>0, <1>3, <1>6, <1>7, Zenon

LEMMA NothingPending ==
    ASSUME NEW d, DatabaseShape(d), d.pending = {}, NEW attrs
    PROVE  [d EXCEPT !.attrs = attrs, !.populating = TRUE] = Grown(d, attrs, {})
<1> DEFINE start == d.start  services == d.services  published == d.published
           handles == d.handles  given == d.given  diff == d.diff  old == d.attrs  p == d.populating
<1>1. d = [attrs |-> old, start |-> start, services |-> services, populating |-> p,
           published |-> published, pending |-> {}, handles |-> handles, given |-> given, diff |-> diff]
    BY Zenon DEF DatabaseShape
<1> HIDE DEF start, services, published, handles, given, diff, old, p
<1> QED BY <1>1 DEF Grown

\* The types of a database that grows: each attribute was there, has a fixed
\* type or one that is kept.
LEMMA TypesExtended ==
    ASSUME NEW bases, NEW d, BasesInv(bases, d), ~d.published, NEW e,
           \A i \in DOMAIN e.attrs :
               \/ i \in DOMAIN d.attrs /\ e.attrs[i] = d.attrs[i]
               \/ e.attrs[i].base = 0
               \/ /\ e.attrs[i].base \in 0 .. bases.used
                  /\ bases.memory[e.attrs[i].base] = e.attrs[i].uuid
    PROVE  BasesInv(bases, e)
<1>1. bases.used \in Nat
    <2>1. bases.used \in 0 .. NumUuidBases
        BY Zenon DEF BasesInv, BasesShape
    <2> QED BY <2>1
<1>2. ASSUME NEW i \in DOMAIN e.attrs
      PROVE  /\ e.attrs[i].base # 0 => bases.memory[e.attrs[i].base] = e.attrs[i].uuid
             /\ e.attrs[i].base <= bases.used
    <2>1. CASE i \in DOMAIN d.attrs /\ e.attrs[i] = d.attrs[i]
        BY <2>1 DEF BasesInv
    <2>2. CASE e.attrs[i].base = 0
        BY <1>1, <2>2
    <2>3. CASE e.attrs[i].base \in 0 .. bases.used /\ bases.memory[e.attrs[i].base] = e.attrs[i].uuid
        BY <1>1, <2>3
    <2> QED BY <2>1, <2>2, <2>3
<1>3. BasesShape(bases) /\ (bases.firstRun => bases.used = 0)
    BY Zenon DEF BasesInv
<1> QED BY <1>2, <1>3, Zenon DEF BasesInv

\* The places of the types do not change with the rest of a database.
LEMMA TypesStay ==
    ASSUME NEW bases, NEW d, BasesInv(bases, d), ~d.published, NEW e, e.attrs = d.attrs
    PROVE  BasesInv(bases, e)
<1>1. \A i \in DOMAIN e.attrs : i \in DOMAIN d.attrs /\ e.attrs[i] = d.attrs[i]
    BY Zenon
<1> QED BY <1>1, TypesExtended

\* What the host and the ADK make of an attribute.
LEMMA NewAttributes ==
    /\ \A uuid \in Uuids, index \in 0 .. NumUuidBases :
          /\ Attribute("service", uuid, index) \in Attributes
          /\ Attribute("value", uuid, index) \in Attributes
          /\ Attribute("descriptor", uuid, index) \in Attributes
          /\ ~HasHandleVariable(Attribute("service", uuid, index))
          /\ HasHandleVariable(Attribute("value", uuid, index))
          /\ HasHandleVariable(Attribute("descriptor", uuid, index))
    /\ \A kind, uuid, index : /\ Attribute(kind, uuid, index).base = index
                             /\ Attribute(kind, uuid, index).uuid = uuid
    /\ Fixed("declaration") \in Attributes /\ ~HasHandleVariable(Fixed("declaration"))
    /\ Fixed("ccc") \in Attributes /\ HasHandleVariable(Fixed("ccc"))
    /\ Fixed("declaration").base = 0 /\ Fixed("ccc").base = 0
<1>1. 0 \in 0 .. NumUuidBases
    BY DatabaseAssumption
<1> QED BY <1>1 DEF Attributes, Attribute, Fixed, Kinds, HasHandleVariable

LEMMA FatalErrorStep ==
    ASSUME DatabaseInv, NEW reason, FatalError(reason) \/ Overrun
    PROVE  DatabaseInv'
BY Zenon DEF FatalError, Overrun, DatabaseInv

LEMMA AddServiceStep ==
    ASSUME DatabaseInv, NEW uuid \in Uuids, AddService(uuid)
    PROVE  DatabaseInv'
<1>1. PICK d : d = IF db.populating THEN PublishService(db) ELSE db
    OBVIOUS
<1>2. PICK bases, index : bases = GetBLEUUID(uuid).bases /\ index = GetBLEUUID(uuid).index
    OBVIOUS
<1>3. ~db.published /\ HandlesInv(db) /\ BasesInv(uuidBases, db)
    BY DEF AddService, DatabaseInv
<1>4. /\ HandlesInv(d) /\ d.attrs = db.attrs /\ ~d.published /\ ~d.populating
    BY <1>1, <1>3, PublishServiceKeeps, Zenon
<1>5. CASE FatalError("database")
    BY <1>5, FatalErrorStep
<1>6. CASE ~FatalError("database")
    <2>1. /\ uuidBases' = bases
          /\ db' = IF index = 0 THEN d
                   ELSE [d EXCEPT !.attrs = Append(@, Attribute("service", uuid, index)), !.populating = TRUE]
        BY <1>1, <1>2, <1>6 DEF AddService
    <2>2. d.attrs \in Seq(Attributes) /\ WithVariable(d.attrs) = DOMAIN d.given \cup {} /\ d.pending = {}
        BY <1>4, Zenon DEF HandlesInv
    <2>3. BasesInv(uuidBases, d)
        BY <1>3, <1>4, TypesStay
    <2>4. /\ BasesInv(bases, d) /\ index \in 0 .. bases.used
          /\ index # 0 => bases.memory[index] = uuid
        BY <1>2, <1>4, <2>2, <2>3, UuidKept
    <2>5. CASE index = 0
        BY <1>4, <2>1, <2>4, <2>5 DEF DatabaseInv
    <2>6. CASE index # 0
        <3> DEFINE a == Attribute("service", uuid, index)
        <3>1. PICK attrs : attrs = Append(d.attrs, a)
            OBVIOUS
        <3>2. a \in Attributes /\ ~HasHandleVariable(a) /\ a.base = index /\ a.uuid = uuid
            <4>1. index \in 0 .. NumUuidBases
                <5>1. bases.used \in 0 .. NumUuidBases
                    BY <2>4, Zenon DEF BasesInv, BasesShape
                <5> QED BY <2>4, <5>1, DatabaseAssumption
            <4> QED BY <4>1, NewAttributes
        <3>3. db' = [d EXCEPT !.attrs = attrs, !.populating = TRUE]
            BY <2>1, <2>6, <3>1
        <3> HIDE DEF a
        <3>4. db' = Grown(d, attrs, {})
            BY <1>4, <2>2, <3>3, NothingPending DEF HandlesInv
        <3>5. /\ attrs \in Seq(Attributes) /\ Len(attrs) > Len(d.attrs)
              /\ DOMAIN attrs = DOMAIN d.attrs \cup {Len(d.attrs) + 1}
              /\ \A i \in DOMAIN d.attrs : attrs[i] = d.attrs[i]
              /\ attrs[Len(d.attrs) + 1] = a
              /\ WithVariable(attrs) = DOMAIN d.given \cup {}
            <4>1. /\ attrs \in Seq(Attributes) /\ Len(attrs) = Len(d.attrs) + 1
                  /\ DOMAIN attrs = DOMAIN d.attrs \cup {Len(d.attrs) + 1}
                  /\ \A i \in DOMAIN d.attrs : attrs[i] = d.attrs[i]
                  /\ attrs[Len(d.attrs) + 1] = a
                  /\ WithVariable(attrs) = WithVariable(d.attrs)
                <5>1. IsAppended(attrs, d.attrs, a)
                    BY <2>2, <3>1, <3>2, Appended, Zenon
                <5> QED BY <3>2, <5>1 DEF IsAppended
            <4>2. Len(d.attrs) \in Nat
                BY <2>2, LenProperties
            <4>3. Len(attrs) > Len(d.attrs)
                BY <4>1, <4>2
            <4> QED BY <2>2, <4>1, <4>3, Zenon
        <3>6. HandlesInv(db') /\ db'.attrs = attrs
            BY <1>4, <3>4, <3>5, Extended, ZenonT(30)
        <3>7. BasesInv(bases, db')
            BY <1>4, <2>4, <2>6, <3>2, <3>5, <3>6, TypesExtended
        <3> QED BY <2>1, <3>6, <3>7 DEF DatabaseInv
    <2> QED BY <2>5, <2>6
<1> QED BY <1>5, <1>6

With(d, attrs, pending) ==
    [d EXCEPT !.attrs = attrs, !.pending = pending]

LEMMA WithParts ==
    ASSUME NEW d, DatabaseShape(d), NEW attrs, NEW pending
    PROVE  With(d, attrs, pending).attrs = attrs /\ With(d, attrs, pending).populating = d.populating
<1>1. d = [attrs |-> d.attrs, start |-> d.start, services |-> d.services,
           populating |-> d.populating, published |-> d.published, pending |-> d.pending,
           handles |-> d.handles, given |-> d.given, diff |-> d.diff]
    BY DEF DatabaseShape
<1> QED BY <1>1 DEF With

LEMMA AlreadyPopulating ==
    ASSUME NEW d, DatabaseShape(d), d.populating = TRUE, NEW attrs, NEW pending
    PROVE  With(d, attrs, pending) = Grown(d, attrs, pending)
<1> DEFINE start == d.start  services == d.services  published == d.published
           handles == d.handles  given == d.given  diff == d.diff  old == d.attrs  p == d.pending
<1>1. d = [attrs |-> old, start |-> start, services |-> services, populating |-> TRUE,
           published |-> published, pending |-> p, handles |-> handles, given |-> given, diff |-> diff]
    BY Zenon DEF DatabaseShape
<1> HIDE DEF start, services, published, handles, given, diff, old, p
<1> QED BY <1>1 DEF Grown, With

\* A service that gets more attributes, with their types and the handles that
\* they ask for.
LEMMA ServiceGrows ==
    ASSUME DatabaseInv, ~db.published, db.populating, NEW attrs \in Seq(Attributes),
           Len(attrs) > Len(db.attrs), NEW pending,
           WithVariable(attrs) = DOMAIN db.given \cup pending,
           db' = With(db, attrs, pending),
           BasesInv(uuidBases', db),
           \A i \in DOMAIN attrs :
               \/ i \in DOMAIN db.attrs /\ attrs[i] = db.attrs[i]
               \/ attrs[i].base = 0
               \/ /\ attrs[i].base \in 0 .. uuidBases'.used
                  /\ uuidBases'.memory[attrs[i].base] = attrs[i].uuid
    PROVE  DatabaseInv'
<1>1. HandlesInv(db) /\ DatabaseShape(db) /\ db.populating = TRUE
    <2>1. HandlesInv(db) /\ DatabaseShape(db) /\ db.populating \in BOOLEAN
        BY Zenon DEF DatabaseInv, HandlesInv
    <2> QED BY <2>1
<1>2. PICK e : e = Grown(db, attrs, pending)
    OBVIOUS
<1>3. db' = e
    BY <1>1, <1>2, AlreadyPopulating
<1>4. HandlesInv(e) /\ e.attrs = attrs
    BY <1>1, <1>2, Extended
<1>5. BasesInv(uuidBases', e)
    BY <1>4, TypesExtended
<1> QED BY <1>3, <1>4, <1>5, Zenon DEF DatabaseInv

\* The type of a new attribute, if there was room for it.
LEMMA TypeForAttribute ==
    ASSUME DatabaseInv, ~db.published, NEW uuid \in Uuids, NEW bases, NEW index,
           bases = GetBLEUUID(uuid).bases, index = GetBLEUUID(uuid).index
    PROVE  /\ BasesInv(bases, db) /\ index \in 0 .. bases.used /\ index \in 0 .. NumUuidBases
           /\ index # 0 => bases.memory[index] = uuid
<1>1. db.attrs \in Seq(Attributes) /\ BasesInv(uuidBases, db)
    BY Zenon DEF DatabaseInv, HandlesInv
<1>2. /\ BasesInv(bases, db) /\ index \in 0 .. bases.used
      /\ index # 0 => bases.memory[index] = uuid
    BY <1>1, UuidKept
<1>3. bases.used \in 0 .. NumUuidBases
    BY <1>2, Zenon DEF BasesInv, BasesShape
<1> QED BY <1>2, <1>3, DatabaseAssumption

LEMMA AddDescriptorStep ==
    ASSUME DatabaseInv, NEW uuid \in Uuids, AddDescriptor(uuid)
    PROVE  DatabaseInv'
<1>1. PICK bases, index : bases = GetBLEUUID(uuid).bases /\ index = GetBLEUUID(uuid).index
    OBVIOUS
<1>2. ~db.published /\ db.populating
    BY DEF AddDescriptor
<1>3. /\ BasesInv(bases, db) /\ index \in 0 .. bases.used /\ index \in 0 .. NumUuidBases
      /\ index # 0 => bases.memory[index] = uuid
    BY <1>1, <1>2, TypeForAttribute
<1> DEFINE a == Attribute("descriptor", uuid, index)
<1>4. PICK attrs, pending : attrs = Append(db.attrs, a) /\ pending = db.pending \cup {Len(db.attrs) + 1}
    OBVIOUS
<1>5. /\ uuidBases' = bases
      /\ db' = IF index = 0 THEN db ELSE With(db, attrs, pending)
    BY <1>1, <1>4 DEF AddDescriptor, With
<1>6. a \in Attributes /\ HasHandleVariable(a) /\ a.base = index /\ a.uuid = uuid
    BY <1>3, NewAttributes
<1> HIDE DEF a
<1>7. CASE index = 0
    BY <1>3, <1>5, <1>7 DEF DatabaseInv
<1>8. CASE index # 0
    <2>1. db.attrs \in Seq(Attributes) /\ WithVariable(db.attrs) = DOMAIN db.given \cup db.pending
        BY Zenon DEF DatabaseInv, HandlesInv
    <2>2. IsAppended(attrs, db.attrs, a)
        BY <1>4, <1>6, <2>1, Appended, Zenon
    <2>3. WithVariable(attrs) = DOMAIN db.given \cup pending
        BY <1>4, <1>6, <2>1, <2>2, Zenon DEF IsAppended
    <2>4. attrs \in Seq(Attributes) /\ Len(attrs) = Len(db.attrs) + 1 /\ Len(db.attrs) \in Nat
        BY <2>1, <2>2, LenProperties DEF IsAppended
    <2>5. Len(attrs) > Len(db.attrs)
        BY <2>4
    <2>6. ASSUME NEW i \in DOMAIN attrs
          PROVE  \/ i \in DOMAIN db.attrs /\ attrs[i] = db.attrs[i]
                 \/ attrs[i].base = 0
                 \/ attrs[i].base \in 0 .. bases.used /\ bases.memory[attrs[i].base] = attrs[i].uuid
        BY <1>3, <1>6, <1>8, <2>2, Zenon DEF IsAppended
    <2> QED BY <1>2, <1>3, <1>5, <1>8, <2>3, <2>4, <2>5, <2>6, ServiceGrows
<1> QED BY <1>7, <1>8

\* The attributes of a characteristic, without and with the client's
\* configuration.
IsCharacteristic(new, all, attrs, v, n) ==
    /\ new \in Seq(Attributes) /\ Len(new) = n + 2
    /\ WithVariable(new) = WithVariable(attrs) \cup {n + 2}
    /\ \A i \in DOMAIN new :
          (i \in DOMAIN attrs /\ new[i] = attrs[i]) \/ new[i].base = 0 \/ new[i] = v
    /\ all \in Seq(Attributes) /\ Len(all) = n + 3
    /\ WithVariable(all) = WithVariable(attrs) \cup {n + 2, n + 3}
    /\ \A i \in DOMAIN all :
          (i \in DOMAIN attrs /\ all[i] = attrs[i]) \/ all[i].base = 0 \/ all[i] = v

LEMMA CharacteristicAttributes ==
    ASSUME NEW attrs \in Seq(Attributes), NEW v \in Attributes, HasHandleVariable(v),
           NEW n \in Nat, n = Len(attrs), NEW new, NEW all,
           new = attrs \o <<Fixed("declaration"), v>>, all = new \o <<Fixed("ccc")>>
    PROVE  IsCharacteristic(new, all, attrs, v, n)
<1> DEFINE declaration == Fixed("declaration")  ccc == Fixed("ccc")
<1>1. /\ declaration \in Attributes /\ ~HasHandleVariable(declaration) /\ declaration.base = 0
      /\ ccc \in Attributes /\ HasHandleVariable(ccc) /\ ccc.base = 0
    BY NewAttributes
<1>2. new = attrs \o <<declaration, v>> /\ all = new \o <<ccc>>
    OBVIOUS
<1> HIDE DEF declaration, ccc
<1>3. PICK one : one = Append(attrs, declaration)
    OBVIOUS
<1>4. IsAppended(one, attrs, declaration)
    BY <1>1, <1>3, Appended, Zenon
<1>5. one \in Seq(Attributes) /\ Len(one) = n + 1
    BY <1>4 DEF IsAppended
<1>6. new = Append(one, v)
    BY <1>1, <1>2, <1>3, TwoMore
<1>7. IsAppended(new, one, v)
    BY <1>5, <1>6, Appended, Zenon
<1>8. new \in Seq(Attributes) /\ Len(new) = n + 2
    BY <1>5, <1>7 DEF IsAppended
<1>9. all = Append(new, ccc)
    BY <1>1, <1>2, <1>8, OneMore
<1>10. IsAppended(all, new, ccc)
    BY <1>1, <1>8, <1>9, Appended, Zenon
<1>11. all \in Seq(Attributes) /\ Len(all) = n + 3
    BY <1>8, <1>10 DEF IsAppended
<1>12. Len(one) + 1 = n + 2 /\ Len(new) + 1 = n + 3
    BY <1>5, <1>8
<1>13. WithVariable(new) = WithVariable(attrs) \cup {n + 2}
    <2>1. WithVariable(one) = WithVariable(attrs)
        BY <1>1, <1>4, Zenon DEF IsAppended
    <2>2. WithVariable(new) = WithVariable(one) \cup {Len(one) + 1}
        BY <1>7, Zenon DEF IsAppended
    <2> QED BY <1>12, <2>1, <2>2, Zenon
<1>14. WithVariable(all) = WithVariable(attrs) \cup {n + 2, n + 3}
    <2>1. WithVariable(all) = WithVariable(new) \cup {Len(new) + 1}
        BY <1>1, <1>10, Zenon DEF IsAppended
    <2> QED BY <1>12, <1>13, <2>1, Zenon
<1>15. ASSUME NEW i \in DOMAIN new
       PROVE  (i \in DOMAIN attrs /\ new[i] = attrs[i]) \/ new[i].base = 0 \/ new[i] = v
    BY <1>1, <1>4, <1>7, Zenon DEF IsAppended
<1>16. ASSUME NEW i \in DOMAIN all
       PROVE  (i \in DOMAIN attrs /\ all[i] = attrs[i]) \/ all[i].base = 0 \/ all[i] = v
    BY <1>1, <1>10, <1>15, Zenon DEF IsAppended
<1> QED BY <1>8, <1>11, <1>13, <1>14, <1>15, <1>16, Zenon DEF IsCharacteristic

LEMMA AddCharacteristicStep ==
    ASSUME DatabaseInv, NEW uuid \in Uuids, NEW event \in BOOLEAN, AddCharacteristic(uuid, event)
    PROVE  DatabaseInv'
<1>1. PICK bases, index : bases = GetBLEUUID(uuid).bases /\ index = GetBLEUUID(uuid).index
    OBVIOUS
<1>2. ~db.published /\ db.populating
    BY DEF AddCharacteristic
<1>3. /\ BasesInv(bases, db) /\ index \in 0 .. bases.used /\ index \in 0 .. NumUuidBases
      /\ index # 0 => bases.memory[index] = uuid
    BY <1>1, <1>2, TypeForAttribute
<1>4. db.attrs \in Seq(Attributes) /\ WithVariable(db.attrs) = DOMAIN db.given \cup db.pending
    BY Zenon DEF DatabaseInv, HandlesInv
<1>5. PICK n \in Nat : n = Len(db.attrs)
    BY <1>4, LenProperties
<1>6. PICK v : v = Attribute("value", uuid, index)
    OBVIOUS
<1>7. v \in Attributes /\ HasHandleVariable(v) /\ v.base = index /\ v.uuid = uuid
    BY <1>3, <1>6, NewAttributes
<1>8. PICK new, all : new = db.attrs \o <<Fixed("declaration"), v>> /\ all = new \o <<Fixed("ccc")>>
    OBVIOUS
<1>9. PICK one, two : one = db.pending \cup {n + 2} /\ two = db.pending \cup {n + 2, n + 3}
    OBVIOUS
<1>10. CASE FatalError("database") \/ Overrun
    BY <1>10, FatalErrorStep
<1>11. CASE ~(FatalError("database") \/ Overrun)
    <2>1. /\ uuidBases' = bases
          /\ db' = IF index = 0 THEN db
                   ELSE IF event THEN With(db, all, two) ELSE With(db, new, one)
        <3>1. Len(db.attrs) + 2 = n + 2 /\ Len(db.attrs) + 2 + 1 = n + 3
            BY <1>5
        <3>2. /\ uuidBases' = bases
              /\ db' = IF index = 0 THEN db
                       ELSE IF event
                       THEN [db EXCEPT !.attrs = db.attrs \o <<Fixed("declaration"), Attribute("value", uuid, index)>>
                                                         \o <<Fixed("ccc")>>,
                                       !.pending = db.pending \cup {Len(db.attrs) + 2, Len(db.attrs) + 2 + 1}]
                       ELSE [db EXCEPT !.attrs = db.attrs \o <<Fixed("declaration"), Attribute("value", uuid, index)>>,
                                       !.pending = db.pending \cup {Len(db.attrs) + 2}]
            BY <1>1, <1>11, Zenon DEF AddCharacteristic
        <3>3. /\ [db EXCEPT !.attrs = db.attrs \o <<Fixed("declaration"), Attribute("value", uuid, index)>>
                                           \o <<Fixed("ccc")>>,
                            !.pending = db.pending \cup {Len(db.attrs) + 2, Len(db.attrs) + 2 + 1}]
                    = With(db, all, two)
              /\ [db EXCEPT !.attrs = db.attrs \o <<Fixed("declaration"), Attribute("value", uuid, index)>>,
                            !.pending = db.pending \cup {Len(db.attrs) + 2}]
                    = With(db, new, one)
            BY <1>6, <1>8, <1>9, <3>1, Zenon DEF With
        <3> QED BY <3>2, <3>3, Zenon
    <2>2. IsCharacteristic(new, all, db.attrs, v, n)
        BY <1>4, <1>5, <1>7, <1>8, CharacteristicAttributes
    <2>3. WithVariable(new) = DOMAIN db.given \cup one /\ WithVariable(all) = DOMAIN db.given \cup two
        BY <1>4, <1>9, <2>2, Zenon DEF IsCharacteristic
    <2>4. /\ new \in Seq(Attributes) /\ Len(new) > Len(db.attrs)
          /\ all \in Seq(Attributes) /\ Len(all) > Len(db.attrs)
        BY <1>5, <2>2 DEF IsCharacteristic
    <2>5. CASE index = 0
        BY <1>3, <2>1, <2>5 DEF DatabaseInv
    <2>6. CASE index # 0 /\ event
        <3>1. ASSUME NEW i \in DOMAIN all
              PROVE  \/ i \in DOMAIN db.attrs /\ all[i] = db.attrs[i]
                     \/ all[i].base = 0
                     \/ all[i].base \in 0 .. bases.used /\ bases.memory[all[i].base] = all[i].uuid
            BY <1>3, <1>7, <2>2, <2>6, Zenon DEF IsCharacteristic
        <3> QED BY <1>2, <1>3, <2>1, <2>3, <2>4, <2>6, <3>1, ServiceGrows
    <2>7. CASE index # 0 /\ ~event
        <3>1. ASSUME NEW i \in DOMAIN new
              PROVE  \/ i \in DOMAIN db.attrs /\ new[i] = db.attrs[i]
                     \/ new[i].base = 0
                     \/ new[i].base \in 0 .. bases.used /\ bases.memory[new[i].base] = new[i].uuid
            BY <1>3, <1>7, <2>2, <2>7, Zenon DEF IsCharacteristic
        <3> QED BY <1>2, <1>3, <2>1, <2>3, <2>4, <2>7, <3>1, ServiceGrows
    <2> QED BY <2>5, <2>6, <2>7
<1> QED BY <1>10, <1>11

LEMMA PublishServicesStep ==
    ASSUME DatabaseInv, PublishServices
    PROVE  DatabaseInv'
<1>1. PICK d : d = IF db.populating THEN PublishService(db) ELSE db
    OBVIOUS
<1>2. ~db.published /\ HandlesInv(db) /\ BasesInv(uuidBases, db)
    BY DEF PublishServices, DatabaseInv
<1>3. HandlesInv(d) /\ d.attrs = db.attrs /\ ~d.published /\ ~d.populating
    BY <1>1, <1>2, PublishServiceKeeps, Zenon
<1>4. CASE FatalError("database")
    BY <1>4, FatalErrorStep
<1>5. CASE ~FatalError("database")
    <2>1. db' = [d EXCEPT !.published = TRUE] /\ uuidBases' = uuidBases
        BY <1>1, <1>5 DEF PublishServices
    <2>2. PICK e : e = [d EXCEPT !.published = TRUE]
        OBVIOUS
    <2>3. /\ d = [attrs |-> d.attrs, start |-> d.start, services |-> d.services,
                  populating |-> d.populating, published |-> d.published, pending |-> d.pending,
                  handles |-> d.handles, given |-> d.given, diff |-> d.diff]
          /\ d.populating = FALSE
        BY <1>3, Zenon DEF HandlesInv, DatabaseShape
    <2>4. e = [attrs |-> d.attrs, start |-> d.start, services |-> d.services,
               populating |-> FALSE, published |-> TRUE, pending |-> d.pending,
               handles |-> d.handles, given |-> d.given, diff |-> d.diff]
        BY <2>2, <2>3
    <2>5. /\ e.attrs = d.attrs /\ e.start = d.start /\ e.services = d.services
          /\ e.populating = FALSE /\ e.published = TRUE /\ e.pending = d.pending
          /\ e.handles = d.handles /\ e.given = d.given /\ e.diff = d.diff
        BY <2>4
    <2>6. HandlesInv(e)
        <3>1. DatabaseShape(e)
            BY <2>4, <2>5, Zenon DEF DatabaseShape
        <3> QED BY <1>3, <2>5, <3>1, Zenon DEF HandlesInv
    <2>7. BasesInv(uuidBases, e)
        BY <1>2, <1>3, <2>5, TypesStay
    <2> QED BY <2>1, <2>2, <2>6, <2>7, Zenon DEF DatabaseInv
<1> QED BY <1>4, <1>5

\* Without a service there is nothing to number.
LEMMA EmptyHandles ==
    ASSUME NEW d, NEW diff, d = [EmptyDatabase EXCEPT !.diff = diff]
    PROVE  HandlesInv(d) /\ d.attrs = <<>>
<1>1. d = [attrs |-> <<>>, start |-> 0, services |-> 0, populating |-> FALSE, published |-> FALSE,
           pending |-> {}, handles |-> <<>>, given |-> <<>>, diff |-> diff]
    BY DEF EmptyDatabase
<1>2. /\ d.attrs = <<>> /\ d.start = 0 /\ d.services = 0 /\ d.populating = FALSE
      /\ d.published = FALSE /\ d.pending = {} /\ d.handles = <<>> /\ d.given = <<>> /\ d.diff = diff
    BY <1>1
<1>3. DatabaseShape(d)
    BY <1>1, <1>2, Zenon DEF DatabaseShape
<1>4. /\ <<>> \in Seq(Attributes) /\ Len(<<>>) = 0 /\ DOMAIN <<>> = {} /\ 1 .. 0 = {}
      /\ 0 \in 0 .. 0
    OBVIOUS
<1>5. <<>> = Numbered({})
    BY DEF Numbered
<1>6. WithVariable(<<>>) = {}
    BY <1>4 DEF WithVariable
<1> QED BY <1>2, <1>3, <1>4, <1>5, <1>6, Zenon DEF HandlesInv

LEMMA NoTypes ==
    ASSUME NEW bases, BasesShape(bases), bases.firstRun => bases.used = 0, NEW d, d.attrs = <<>>
    PROVE  BasesInv(bases, d)
<1>1. DOMAIN d.attrs = {}
    OBVIOUS
<1> QED BY <1>1, Zenon DEF BasesInv

LEMMA RemoveAllServicesStep ==
    ASSUME DatabaseInv, RemoveAllServices
    PROVE  DatabaseInv'
<1>1. db' = [EmptyDatabase EXCEPT !.diff = db.diff] /\ uuidBases' = uuidBases
    BY DEF RemoveAllServices
<1>2. HandlesInv(db') /\ db'.attrs = <<>>
    BY <1>1, EmptyHandles
<1>3. BasesShape(uuidBases) /\ (uuidBases.firstRun => uuidBases.used = 0)
    BY Zenon DEF DatabaseInv, BasesInv
<1>4. BasesInv(uuidBases, db')
    BY <1>2, <1>3, NoTypes
<1> QED BY <1>1, <1>2, <1>4, Zenon DEF DatabaseInv

\* The places are free again only when no service is added that relies on
\* their number.
LEMMA DeinitializeStep ==
    ASSUME DatabaseInv, Deinitialize
    PROVE  DatabaseInv'
<1>1. PICK bases : bases = [uuidBases EXCEPT !.used = 0]
    OBVIOUS
<1>2. db' = db /\ uuidBases' = bases /\ (db.published \/ db.attrs = <<>>)
    BY <1>1 DEF Deinitialize, Cleared
<1>3. BasesInv(uuidBases, db) /\ BasesShape(uuidBases) /\ HandlesInv(db)
    BY Zenon DEF DatabaseInv, BasesInv
<1>4. /\ BasesShape(bases) /\ bases.used = 0 /\ bases.memory = uuidBases.memory
      /\ bases.firstRun = uuidBases.firstRun
    <2>1. uuidBases = [memory |-> uuidBases.memory, used |-> uuidBases.used, firstRun |-> uuidBases.firstRun]
        BY <1>3, Zenon DEF BasesShape
    <2>2. bases = [memory |-> uuidBases.memory, used |-> 0, firstRun |-> uuidBases.firstRun]
        BY <1>1, <2>1
    <2>3. bases.memory = uuidBases.memory /\ bases.used = 0 /\ bases.firstRun = uuidBases.firstRun
        BY <2>2
    <2>4. 0 \in 0 .. NumUuidBases
        BY DatabaseAssumption
    <2> QED BY <1>3, <2>2, <2>3, <2>4, Zenon DEF BasesShape
<1>5. CASE db.published
    BY <1>2, <1>3, <1>4, <1>5, Zenon DEF DatabaseInv, BasesInv
<1>6. CASE db.attrs = <<>>
    <2>1. BasesInv(bases, db)
        BY <1>4, <1>6, NoTypes
    <2> QED BY <1>2, <1>3, <2>1, Zenon DEF DatabaseInv
<1> QED BY <1>2, <1>5, <1>6

\* A start, the first one or the one after a panic.
LEMMA FreshDatabase ==
    ASSUME NEW d, d = EmptyDatabase, NEW bases,
           bases = [memory |-> [i \in 1 .. NumUuidBases |-> BluetoothBase],
                    used |-> 0, firstRun |-> TRUE]
    PROVE  HandlesInv(d) /\ BasesInv(bases, d)
<1>1. HandlesInv(d) /\ d.attrs = <<>>
    <2>1. d = [EmptyDatabase EXCEPT !.diff = 0]
        BY DEF EmptyDatabase
    <2> QED BY <2>1, EmptyHandles
<1>2. PICK memory : memory = [i \in 1 .. NumUuidBases |-> BluetoothBase]
    OBVIOUS
<1>3. bases = [memory |-> memory, used |-> 0, firstRun |-> TRUE]
    BY <1>2
<1>4. bases.memory = memory /\ bases.used = 0 /\ bases.firstRun = TRUE
    BY <1>3
<1>5. BasesShape(bases)
    <2>1. memory \in [1 .. NumUuidBases -> Uuids \cup {BluetoothBase}] /\ 0 \in 0 .. NumUuidBases
        BY <1>2, DatabaseAssumption
    <2> QED BY <1>3, <1>4, <2>1, Zenon DEF BasesShape
<1>6. BasesInv(bases, d)
    BY <1>1, <1>4, <1>5, NoTypes
<1> QED BY <1>1, <1>6

-----------------------------------------------------------------------------
(* The clients' configurations.  A characteristic with events takes three  *)
(* attributes, and each service one more, so their number is bounded by    *)
(* the attributes long before it is compared with half of them.            *)

Configurations(attrs) == {i \in DOMAIN attrs : attrs[i].kind = "ccc"}

ConfigurationsInv(d) ==
    /\ 3 * Cardinality(Configurations(d.attrs)) <= Len(d.attrs)
    /\ d.populating => 3 * Cardinality(Configurations(d.attrs)) < Len(d.attrs)

LEMMA FiniteConfigurations ==
    ASSUME NEW attrs \in Seq(Attributes)
    PROVE  /\ IsFiniteSet(Configurations(attrs)) /\ Cardinality(Configurations(attrs)) \in Nat
           /\ Len(attrs) \in Nat
<1>1. DOMAIN attrs = 1 .. Len(attrs) /\ Len(attrs) \in Nat
    BY LenProperties
<1>2. IsFiniteSet(1 .. Len(attrs))
    BY <1>1, FS_Interval
<1>3. Configurations(attrs) \in SUBSET (1 .. Len(attrs))
    BY <1>1 DEF Configurations
<1>4. IsFiniteSet(Configurations(attrs))
    BY <1>2, <1>3, FS_Subset
<1> QED BY <1>1, <1>4, FS_CardinalityType

\* One more attribute, and one more configuration only if it is one.
OneMoreThan(new, attrs, a) ==
    /\ new \in Seq(Attributes) /\ Len(new) = Len(attrs) + 1 /\ Len(attrs) \in Nat
    /\ Cardinality(Configurations(attrs)) \in Nat
    /\ Cardinality(Configurations(new)) =
          Cardinality(Configurations(attrs)) + (IF a.kind = "ccc" THEN 1 ELSE 0)

LEMMA ConfigurationsGrow ==
    ASSUME NEW attrs \in Seq(Attributes), NEW a \in Attributes, NEW new, new = Append(attrs, a)
    PROVE  OneMoreThan(new, attrs, a)
<1>1. /\ new \in Seq(Attributes) /\ Len(new) = Len(attrs) + 1
      /\ DOMAIN new = DOMAIN attrs \cup {Len(attrs) + 1}
      /\ \A i \in DOMAIN attrs : new[i] = attrs[i]
      /\ new[Len(attrs) + 1] = a
    <2>1. IsAppended(new, attrs, a)
        BY Appended
    <2> QED BY <2>1 DEF IsAppended
<1>2. Len(attrs) + 1 \notin Configurations(attrs)
    <2>1. DOMAIN attrs = 1 .. Len(attrs) /\ Len(attrs) \in Nat
        BY LenProperties
    <2> QED BY <2>1 DEF Configurations
<1>3. /\ IsFiniteSet(Configurations(attrs)) /\ Cardinality(Configurations(attrs)) \in Nat
      /\ Len(attrs) \in Nat
    BY FiniteConfigurations
<1>4. CASE a.kind = "ccc"
    <2>1. Configurations(new) = Configurations(attrs) \cup {Len(attrs) + 1}
        BY <1>1, <1>4, Zenon DEF Configurations
    <2>2. Cardinality(Configurations(new)) = Cardinality(Configurations(attrs)) + 1
        BY <1>2, <1>3, <2>1, FS_AddElement
    <2> QED BY <1>1, <1>3, <1>4, <2>2 DEF OneMoreThan
<1>5. CASE a.kind # "ccc"
    <2>1. Configurations(new) = Configurations(attrs)
        BY <1>1, <1>5, Zenon DEF Configurations
    <2> QED BY <1>1, <1>3, <1>5, <2>1 DEF OneMoreThan
<1> QED BY <1>4, <1>5

LEMMA KindsOfAttributes ==
    ASSUME NEW kind, NEW uuid, NEW base
    PROVE  Attribute(kind, uuid, base).kind = kind /\ Fixed(kind).kind = kind
BY DEF Attribute, Fixed

LEMMA AddServiceConfigurations ==
    ASSUME DatabaseInv, ConfigurationsInv(db), NEW uuid \in Uuids, AddService(uuid)
    PROVE  ConfigurationsInv(db') /\ (halted' = halted \/ halted' = "database")
<1>1. PICK d : d = IF db.populating THEN PublishService(db) ELSE db
    OBVIOUS
<1>2. PICK index : index = GetBLEUUID(uuid).index
    OBVIOUS
<1>3. d.attrs = db.attrs /\ ~d.populating /\ HandlesInv(d)
    BY <1>1, PublishServiceKeeps, Zenon DEF DatabaseInv
<1>4. CASE FatalError("database")
    BY <1>4 DEF FatalError
<1>5. CASE ~FatalError("database")
    <2>1. /\ halted' = halted
          /\ db' = IF index = 0 THEN d
                   ELSE [d EXCEPT !.attrs = Append(@, Attribute("service", uuid, index)),
                                  !.populating = TRUE]
        BY <1>1, <1>2, <1>5 DEF AddService
    <2>2. CASE index = 0
        BY <1>3, <2>1, <2>2, Zenon DEF ConfigurationsInv
    <2>3. CASE index # 0
        <3>1. PICK a : a = Attribute("service", uuid, index)
            OBVIOUS
        <3>2. PICK attrs : attrs = Append(d.attrs, a)
            OBVIOUS
        <3>3. db'.attrs = attrs
            <4>1. d = [attrs |-> d.attrs, start |-> d.start, services |-> d.services,
                       populating |-> d.populating, published |-> d.published,
                       pending |-> d.pending, handles |-> d.handles, given |-> d.given,
                       diff |-> d.diff]
                BY <1>3, Zenon DEF HandlesInv, DatabaseShape
            <4>2. db' = [d EXCEPT !.attrs = attrs, !.populating = TRUE]
                BY <2>1, <2>3, <3>1, <3>2
            <4> QED BY <4>1, <4>2
        <3>4. a \in Attributes /\ a.kind = "service"
            <4>1. ~db.published /\ BasesInv(uuidBases, db) /\ db.attrs \in Seq(Attributes)
                BY Zenon DEF AddService, DatabaseInv, HandlesInv
            <4>2. index \in 0 .. NumUuidBases
                BY <1>2, <4>1, TypeForAttribute
            <4> QED BY <3>1, <4>2, NewAttributes, KindsOfAttributes
        <3>5. d.attrs \in Seq(Attributes)
            BY <1>3, Zenon DEF HandlesInv
        <3>6. OneMoreThan(attrs, db.attrs, a)
            BY <1>3, <3>2, <3>4, <3>5, ConfigurationsGrow, Zenon
        <3>7. ConfigurationsInv(db')
            BY <3>3, <3>4, <3>6 DEF OneMoreThan, ConfigurationsInv
        <3> QED BY <2>1, <3>7
    <2> QED BY <2>2, <2>3
<1> QED BY <1>4, <1>5

LEMMA AddDescriptorConfigurations ==
    ASSUME DatabaseInv, ConfigurationsInv(db), NEW uuid \in Uuids, AddDescriptor(uuid)
    PROVE  ConfigurationsInv(db') /\ halted' = halted
<1>1. PICK index : index = GetBLEUUID(uuid).index
    OBVIOUS
<1>2. PICK a : a = Attribute("descriptor", uuid, index)
    OBVIOUS
<1>3. PICK attrs : attrs = Append(db.attrs, a)
    OBVIOUS
<1>4. PICK pending : pending = db.pending \cup {Len(db.attrs) + 1}
    OBVIOUS
<1>5. /\ ~db.published /\ halted' = halted
      /\ db' = IF index = 0 THEN db ELSE With(db, attrs, pending)
    BY <1>1, <1>2, <1>3, <1>4 DEF AddDescriptor, With
<1>6. CASE index = 0
    BY <1>5, <1>6 DEF ConfigurationsInv
<1>7. CASE index # 0
    <2>1. index \in 0 .. NumUuidBases
        BY <1>1, <1>5, TypeForAttribute
    <2>2. a \in Attributes /\ a.kind = "descriptor"
        BY <1>2, <2>1, NewAttributes, KindsOfAttributes
    <2>3. db.attrs \in Seq(Attributes)
        BY Zenon DEF DatabaseInv, HandlesInv
    <2>4. OneMoreThan(attrs, db.attrs, a)
        BY <1>3, <2>2, <2>3, ConfigurationsGrow, Zenon
    <2>5. db'.attrs = attrs /\ db'.populating = db.populating
        BY <1>5, <1>7, WithParts DEF DatabaseInv, HandlesInv
    <2>6. ConfigurationsInv(db')
        BY <2>2, <2>4, <2>5 DEF OneMoreThan, ConfigurationsInv
    <2> QED BY <1>5, <2>6
<1> QED BY <1>6, <1>7

\* A characteristic with events finds a place for its configuration if there
\* are as many services as a third of the attributes.
LEMMA AddCharacteristicConfigurations ==
    ASSUME DatabaseInv, ConfigurationsInv(db), ServiceAttrMaxDepth <= 3 * (MaxServicesCount + 1),
           NEW uuid \in Uuids, NEW event \in BOOLEAN, AddCharacteristic(uuid, event)
    PROVE  ConfigurationsInv(db') /\ (halted' = halted \/ halted' = "database")
<1>1. PICK index : index = GetBLEUUID(uuid).index
    OBVIOUS
<1>2. PICK n \in Nat : n = Len(db.attrs)
    BY LenProperties DEF DatabaseInv, HandlesInv
<1>3. PICK v : v = Attribute("value", uuid, index)
    OBVIOUS
<1>4. PICK new, all : new = db.attrs \o <<Fixed("declaration"), v>> /\ all = new \o <<Fixed("ccc")>>
    OBVIOUS
<1>5. PICK one, two : one = db.pending \cup {n + 2} /\ two = db.pending \cup {n + 2, n + 3}
    OBVIOUS
<1>6. ~db.published /\ db.populating
    BY DEF AddCharacteristic
<1>7. db.attrs \in Seq(Attributes) /\ DatabaseShape(db)
    BY Zenon DEF DatabaseInv, HandlesInv
<1>8. PICK c \in Nat : c = Cardinality(Configurations(db.attrs))
    BY <1>7, FiniteConfigurations
<1>9. 3 * c < n
    BY <1>2, <1>6, <1>8 DEF ConfigurationsInv
<1>10. CASE FatalError("database")
    BY <1>10 DEF FatalError
<1>11. CASE ~FatalError("database")
    <2>1. ~(index # 0 /\ event /\ CccCount >= MaxServicesCount)
        <3>1. SUFFICES ASSUME index # 0, event, CccCount >= MaxServicesCount
                       PROVE  FALSE
            OBVIOUS
        <3>2. ~(n + 2 >= ServiceAttrMaxDepth)
            BY <1>1, <1>2, <1>11, <3>1 DEF AddCharacteristic
        <3>3. c >= MaxServicesCount
            BY <1>8, <3>1 DEF CccCount, Configurations
        <3> QED BY <1>9, <3>2, <3>3, DatabaseAssumption
    <2>2. /\ halted' = halted
          /\ db' = IF index = 0 THEN db
                   ELSE IF event THEN With(db, all, two) ELSE With(db, new, one)
        <3>1. Len(db.attrs) + 2 = n + 2 /\ Len(db.attrs) + 2 + 1 = n + 3
            BY <1>2
        <3>2. /\ halted' = halted
              /\ db' = IF index = 0 THEN db
                       ELSE IF event
                       THEN [db EXCEPT !.attrs = db.attrs \o <<Fixed("declaration"), Attribute("value", uuid, index)>>
                                                         \o <<Fixed("ccc")>>,
                                       !.pending = db.pending \cup {Len(db.attrs) + 2, Len(db.attrs) + 2 + 1}]
                       ELSE [db EXCEPT !.attrs = db.attrs \o <<Fixed("declaration"), Attribute("value", uuid, index)>>,
                                       !.pending = db.pending \cup {Len(db.attrs) + 2}]
            BY <1>1, <1>11, <2>1, Zenon DEF AddCharacteristic
        <3>3. /\ [db EXCEPT !.attrs = db.attrs \o <<Fixed("declaration"), Attribute("value", uuid, index)>>
                                           \o <<Fixed("ccc")>>,
                            !.pending = db.pending \cup {Len(db.attrs) + 2, Len(db.attrs) + 2 + 1}]
                    = With(db, all, two)
              /\ [db EXCEPT !.attrs = db.attrs \o <<Fixed("declaration"), Attribute("value", uuid, index)>>,
                            !.pending = db.pending \cup {Len(db.attrs) + 2}]
                    = With(db, new, one)
            BY <1>3, <1>4, <1>5, <3>1, Zenon DEF With
        <3> QED BY <3>2, <3>3, Zenon
    <2>3. CASE index = 0
        BY <2>2, <2>3 DEF ConfigurationsInv
    <2>4. ASSUME index # 0
          PROVE  /\ Len(new) = n + 2 /\ Cardinality(Configurations(new)) = c
                 /\ Len(all) = n + 3 /\ Cardinality(Configurations(all)) = c + 1
        <3>1. index \in 0 .. NumUuidBases
            BY <1>1, <1>6, TypeForAttribute
        <3>2. PICK declaration, ccc : declaration = Fixed("declaration") /\ ccc = Fixed("ccc")
            OBVIOUS
        <3>3. /\ v \in Attributes /\ declaration \in Attributes /\ ccc \in Attributes
              /\ v.kind = "value" /\ declaration.kind = "declaration" /\ ccc.kind = "ccc"
            BY <1>3, <3>1, <3>2, NewAttributes, KindsOfAttributes
        <3>4. PICK first : first = Append(db.attrs, declaration)
            OBVIOUS
        <3>5. /\ first \in Seq(Attributes) /\ Len(first) = n + 1
              /\ Cardinality(Configurations(first)) = c
            <4>1. OneMoreThan(first, db.attrs, declaration)
                BY <1>7, <3>3, <3>4, ConfigurationsGrow, Zenon
            <4> QED BY <1>2, <1>8, <3>3, <4>1 DEF OneMoreThan
        <3>6. new = Append(first, v)
            BY <1>4, <1>7, <3>2, <3>3, <3>4, TwoMore
        <3>7. /\ new \in Seq(Attributes) /\ Len(new) = n + 2
              /\ Cardinality(Configurations(new)) = c
            <4>1. OneMoreThan(new, first, v)
                BY <3>3, <3>5, <3>6, ConfigurationsGrow, Zenon
            <4> QED BY <3>3, <3>5, <4>1 DEF OneMoreThan
        <3>8. all = Append(new, ccc)
            BY <1>4, <3>2, <3>3, <3>7, OneMore
        <3>9. OneMoreThan(all, new, ccc)
            BY <3>3, <3>7, <3>8, ConfigurationsGrow, Zenon
        <3> QED BY <3>3, <3>7, <3>9 DEF OneMoreThan
    <2>5. CASE index # 0 /\ event
        <3>1. db'.attrs = all /\ db'.populating = db.populating
            BY <1>7, <2>2, <2>5, WithParts
        <3> QED BY <1>9, <2>2, <2>4, <2>5, <3>1 DEF ConfigurationsInv
    <2>6. CASE index # 0 /\ ~event
        <3>1. db'.attrs = new /\ db'.populating = db.populating
            BY <1>7, <2>2, <2>6, WithParts
        <3> QED BY <1>9, <2>2, <2>4, <2>6, <3>1 DEF ConfigurationsInv
    <2> QED BY <2>3, <2>5, <2>6
<1> QED BY <1>10, <1>11

LEMMA NoConfigurations ==
    ASSUME NEW d, d.attrs = <<>>, d.populating = FALSE
    PROVE  ConfigurationsInv(d)
<1>1. Configurations(<<>>) = {}
    BY DEF Configurations
<1>2. Cardinality({}) = 0
    BY FS_EmptySet
<1>3. 3 * 0 <= 0 /\ Len(<<>>) = 0
    OBVIOUS
<1> QED BY <1>1, <1>2, <1>3, Zenon DEF ConfigurationsInv

\* The other operations on the database add no attribute.
LEMMA DatabaseConfigurations ==
    ASSUME DatabaseInv, ConfigurationsInv(db), ServiceAttrMaxDepth <= 3 * (MaxServicesCount + 1),
           Database
    PROVE  ConfigurationsInv(db') /\ (halted' = halted \/ halted' = "database")
<1>1. CASE PublishServices
    <2>1. CASE FatalError("database")
        BY <2>1 DEF FatalError
    <2>2. CASE ~FatalError("database")
        <3>1. PICK d : d = IF db.populating THEN PublishService(db) ELSE db
            OBVIOUS
        <3>2. halted' = halted /\ db' = [d EXCEPT !.published = TRUE]
            BY <1>1, <2>2, <3>1 DEF PublishServices
        <3>3. d.attrs = db.attrs /\ ~d.populating /\ HandlesInv(d)
            BY <3>1, PublishServiceKeeps, Zenon DEF DatabaseInv
        <3>4. db'.attrs = db.attrs /\ db'.populating = d.populating
            <4>1. d = [attrs |-> d.attrs, start |-> d.start, services |-> d.services,
                       populating |-> d.populating, published |-> d.published,
                       pending |-> d.pending, handles |-> d.handles, given |-> d.given,
                       diff |-> d.diff]
                BY <3>3, Zenon DEF HandlesInv, DatabaseShape
            <4> QED BY <3>2, <3>3, <4>1
        <3> QED BY <3>2, <3>3, <3>4, Zenon DEF ConfigurationsInv
    <2> QED BY <2>1, <2>2
<1>2. CASE RemoveAllServices
    <2>1. /\ halted' = halted
          /\ db' = [attrs |-> <<>>, start |-> 0, services |-> 0, populating |-> FALSE,
                    published |-> FALSE, pending |-> {}, handles |-> <<>>, given |-> <<>>,
                    diff |-> db.diff]
        BY <1>2 DEF RemoveAllServices, EmptyDatabase
    <2>2. db'.attrs = <<>> /\ db'.populating = FALSE
        BY <2>1
    <2> QED BY <2>1, <2>2, NoConfigurations
<1>3. CASE Deinitialize
    BY <1>3 DEF Deinitialize, ConfigurationsInv
<1> QED BY <1>1, <1>2, <1>3, AddServiceConfigurations, AddDescriptorConfigurations,
        AddCharacteristicConfigurations, Zenon DEF Database

-----------------------------------------------------------------------------
(* The invariant of both.                                                  *)

PeripheralInv == DatabaseInv /\ ConnectionInv

\* What the ADK reads, writes and indicates has a handle of the host's.
LEMMA GivenHandles ==
    ASSUME HandlesInv(db), NEW i \in DOMAIN db.given
    PROVE  db.given[i] = FirstHandle + i - 1 /\ db.given[i] \in Nat \ {0} /\ db.diff = FirstHandle
<1>1. /\ db.given = Numbered(DOMAIN db.given) /\ db.attrs \in Seq(Attributes)
      /\ WithVariable(db.attrs) = DOMAIN db.given \cup db.pending
      /\ DOMAIN db.given # {} => db.diff = FirstHandle
    BY Zenon DEF HandlesInv
<1>2. i \in Nat /\ i >= 1
    <2>1. i \in DOMAIN db.attrs
        BY <1>1, Zenon DEF WithVariable
    <2> QED BY <1>1, <2>1, AttributeParts
<1>3. db.given[i] = FirstHandle + i - 1
    BY <1>1, Zenon DEF Numbered
<1> QED BY <1>1, <1>2, <1>3, DatabaseAssumption

LEMMA LeadBack ==
    ASSUME HandlesInv(db)
    PROVE  HandlesLeadBack
<1> SUFFICES ASSUME db.published, NEW i \in DOMAIN db.attrs, HasHandleVariable(db.attrs[i])
             PROVE  i \in DOMAIN db.given /\ db.given[i] - db.diff + 1 = i
    BY DEF HandlesLeadBack
<1>1. /\ db.pending = {} /\ WithVariable(db.attrs) = DOMAIN db.given \cup db.pending
      /\ db.attrs \in Seq(Attributes)
    BY Zenon DEF HandlesInv
<1>2. i \in DOMAIN db.given
    BY <1>1, Zenon DEF WithVariable
<1>3. i \in Nat
    BY <1>1, AttributeParts
<1> QED BY <1>2, <1>3, GivenHandles, DatabaseAssumption

LEMMA InitPeripheral ==
    ASSUME Init
    PROVE  PeripheralInv
<1>1. DatabaseInv
    BY FreshDatabase DEF Init, InitDatabase, DatabaseInv
<1>2. TypeOK
    <2>1. /\ gatt.operation \in {"None", "Read", "Disconnecting"} /\ gatt.handle \in Nat
          /\ gatt.numBytes \in 0 .. MaxLength /\ gatt.offset \in 0 .. gatt.numBytes
          /\ client.got \in 0 .. MaxLength
        BY IdleOperations, NoClientParts, MtuAssumption DEF Init, InitConnection
    <2> QED BY <2>1 DEF Init, InitConnection, InitDatabase, TypeOK
<1>3. ClientShape
    <2>1. 0 \in Nat /\ 0 \in 0 .. MaxLength
        BY MtuAssumption
    <2>2. client = [handle |-> 0, got |-> 0, unaware |-> FALSE, cut |-> FALSE, refused |-> FALSE]
          /\ client = NoClient
        BY DEF NoClient, Init, InitConnection
    <2> QED BY <2>1, <2>2, NoClientParts, Zenon DEF ClientShape
<1>4. LinkInv /\ ReadInv /\ IndicationFlagged /\ ReadsGiveWholeValues /\ ConformingCentralServed
    BY IdleOperations, NoClientParts DEF Init, InitConnection, LinkInv, ReadInv, IndicationFlagged,
        ReadsGiveWholeValues, ConformingCentralServed
<1>5. gatt \in Operations
    BY IdleOperations DEF Init, InitConnection
<1> QED BY <1>1, <1>2, <1>3, <1>4, <1>5, Zenon DEF PeripheralInv, ConnectionInv

LEMMA RebootStep ==
    ASSUME PeripheralInv, Reboot
    PROVE  PeripheralInv'
<1>1. DatabaseInv'
    BY FreshDatabase DEF Reboot, DatabaseInv
<1>2. ConnectionInv'
    BY Unconnected DEF Reboot
<1> QED BY <1>1, <1>2 DEF PeripheralInv

\* Building the database touches no connection, except that the accessory
\* may stop.
LEMMA DatabaseStep ==
    ASSUME PeripheralInv, Database
    PROVE  PeripheralInv'
<1>1. DatabaseInv /\ ConnectionInv
    BY DEF PeripheralInv
<1>2. DatabaseInv'
    BY <1>1, AddServiceStep, AddDescriptorStep, AddCharacteristicStep, PublishServicesStep,
        RemoveAllServicesStep, DeinitializeStep, Zenon DEF Database
<1>3. UNCHANGED connVars
    BY DEF Database
<1>4. halted' = halted \/ halted' = "database" \/ halted' = "overrun"
    BY DEF Database, AddService, AddDescriptor, AddCharacteristic, PublishServices,
        RemoveAllServices, Deinitialize, FatalError, Overrun
<1>5. halted' \in {"no", "database", "overrun", "connection", "indication", "memory"}
    BY <1>1, <1>4, ConnectionTyped
<1>6. LinkInv'
    BY <1>1, <1>3, Zenon DEF connVars, ConnectionInv, LinkInv
<1>7. IndicationFlagged'
    BY <1>1, <1>3, <1>4 DEF connVars, ConnectionInv, IndicationFlagged
<1>8. ConnectionInv'
    BY <1>1, <1>3, <1>5, <1>6, <1>7, ConnectionTyped, EventKeeps DEF connVars
<1> QED BY <1>2, <1>8 DEF PeripheralInv

\* No event of the connection touches the database.
LEMMA DatabaseStays ==
    ASSUME DatabaseInv, UNCHANGED <<db, uuidBases>>
    PROVE  DatabaseInv'
BY Zenon DEF DatabaseInv

LEMMA ConnectionLeavesDatabase ==
    ASSUME \/ StartAdvertising \/ StopAdvertising \/ HandleConnected \/ ConnectionFailed
           \/ LinkLost \/ HandleDisconnected \/ CancelCentralConnection \/ CentralExchangesMtu
           \/ \E err \in BOOLEAN : GattsExchangeMTUParams(err)
           \/ \E handle \in Readable : ReadRequest(handle)
           \/ ReadBlobRequest
           \/ \E handle \in Writable : WriteRequest(handle)
           \/ \E handle \in Indicatable : SendHandleValueIndication(handle)
           \/ IndicationSent \/ GattsIndicateValueCallback
    PROVE  UNCHANGED <<db, uuidBases>>
<1>1. StartAdvertising \/ StopAdvertising \/ HandleConnected \/ ConnectionFailed \/ LinkLost
          \/ HandleDisconnected \/ CancelCentralConnection \/ CentralExchangesMtu
          => UNCHANGED <<db, uuidBases>>
    BY Zenon DEF StartAdvertising, StopAdvertising, HandleConnected, ConnectionFailed, LinkLost,
        HandleDisconnected, CancelCentralConnection, CentralExchangesMtu, FatalError, dbVars
<1>2. \A err \in BOOLEAN : GattsExchangeMTUParams(err) => UNCHANGED <<db, uuidBases>>
    BY Zenon DEF GattsExchangeMTUParams, dbVars
<1>3. \A handle : ReadRequest(handle) \/ WriteRequest(handle) \/ ReadBlobRequest
                      => UNCHANGED <<db, uuidBases>>
    BY Zenon DEF ReadRequest, WriteRequest, ReadBlobRequest, dbVars
<1>4. \A handle : SendHandleValueIndication(handle) => UNCHANGED <<db, uuidBases>>
    BY Zenon DEF SendHandleValueIndication, dbVars
<1>5. IndicationSent \/ GattsIndicateValueCallback => UNCHANGED <<db, uuidBases>>
    BY DEF IndicationSent, GattsIndicateValueCallback, FatalError, dbVars
<1> QED BY <1>1, <1>2, <1>3, <1>4, <1>5, Zenon

LEMMA ReadableHandles ==
    ASSUME DatabaseInv
    PROVE  Readable \subseteq Nat \ {0}
<1>1. \A i \in DOMAIN db.given : db.given[i] \in Nat \ {0}
    BY GivenHandles DEF DatabaseInv
<1> QED BY <1>1, Zenon DEF Readable

LEMMA NextStep ==
    ASSUME PeripheralInv, [Next]_vars
    PROVE  PeripheralInv'
<1>1. DatabaseInv /\ ConnectionInv
    BY DEF PeripheralInv
<1>2. CASE Database
    BY <1>2, DatabaseStep
<1>3. CASE Reboot
    BY <1>3, RebootStep
<1>4. CASE UNCHANGED vars
    <2>1. UNCHANGED <<db, uuidBases, halted>> /\ UNCHANGED connVars
        BY <1>4 DEF vars, dbVars
    <2>2. DatabaseInv'
        BY <1>1, <2>1, DatabaseStays
    <2>3. LinkInv' /\ IndicationFlagged'
        BY <1>1, <2>1, Zenon DEF ConnectionInv, LinkInv, IndicationFlagged, connVars
    <2>4. ConnectionInv'
        BY <1>1, <2>1, <2>3, ConnectionTyped, EventKeeps DEF connVars
    <2> QED BY <2>2, <2>4 DEF PeripheralInv
<1>5. CASE /\ ~Database
           /\ Running
    <2>1. DatabaseInv'
        BY <1>1, <1>5, ConnectionLeavesDatabase, DatabaseStays, Zenon DEF Running
    <2>2. ASSUME NEW handle \in Readable, ReadRequest(handle) PROVE ConnectionInv'
        <3>1. handle \in Nat \ {0}
            BY <1>1, ReadableHandles
        <3> QED BY <1>1, <2>2, <3>1, ReadRequestStep
    <2>3. ConnectionInv'
        BY <1>1, <1>5, <2>2, AdvertisingStep, HandleConnectedStep, ConnectionFailedStep,
            LinkLostStep, HandleDisconnectedStep, CancelStep, CentralExchangesMtuStep, ExchangeStep,
            ReadBlobRequestStep, WriteRequestStep, IndicationStep, IndicationSentStep,
            ConfirmationStep, Zenon DEF Running
    <2> QED BY <2>1, <2>3 DEF PeripheralInv
<1> QED BY <1>2, <1>3, <1>4, <1>5 DEF Next

ConfigurationsKept == ConfigurationsInv(db) /\ halted # "overrun"

LEMMA FreshConfigurations ==
    ASSUME NEW d, d = EmptyDatabase
    PROVE  ConfigurationsInv(d)
<1>1. d.attrs = <<>> /\ d.populating = FALSE
    BY DEF EmptyDatabase
<1> QED BY <1>1, NoConfigurations

LEMMA ConfigurationsStep ==
    ASSUME PeripheralInv, ConfigurationsKept, ServiceAttrMaxDepth <= 3 * (MaxServicesCount + 1),
           [Next]_vars
    PROVE  ConfigurationsKept'
<1>1. DatabaseInv /\ ConfigurationsInv(db) /\ halted # "overrun"
    BY DEF PeripheralInv, ConfigurationsKept
<1>2. CASE Database
    BY <1>1, <1>2, DatabaseConfigurations DEF ConfigurationsKept
<1>3. CASE Reboot
    BY <1>3, FreshConfigurations DEF Reboot, ConfigurationsKept
<1>4. CASE UNCHANGED vars
    BY <1>1, <1>4, Zenon DEF vars, dbVars, ConfigurationsKept
<1>5. CASE ~Database /\ Running
    <2>1. UNCHANGED <<db, uuidBases>>
        BY <1>5, ConnectionLeavesDatabase, Zenon DEF Running
    <2>2. halted' # "overrun"
        <3>1. UNCHANGED halted \/ ConnectionFailed \/ IndicationSent
            BY <1>5, Zenon DEF Running, StartAdvertising, StopAdvertising, HandleConnected, LinkLost,
                HandleDisconnected, CancelCentralConnection, CentralExchangesMtu,
                GattsExchangeMTUParams, ReadRequest, ReadBlobRequest, WriteRequest,
                SendHandleValueIndication, GattsIndicateValueCallback, dbVars
        <3> QED BY <1>1, <3>1 DEF ConnectionFailed, IndicationSent, FatalError, dbVars
    <2> QED BY <1>1, <2>1, <2>2, Zenon DEF ConfigurationsKept
<1> QED BY <1>2, <1>3, <1>4, <1>5 DEF Next

LEMMA PeripheralImplies ==
    ASSUME PeripheralInv
    PROVE  /\ TypeOK /\ HandlesLeadBack /\ TypesKept /\ ReadsGiveWholeValues
           /\ ConformingCentralServed /\ IndicationFlagged /\ secondClientMTU = 0
           /\ advertising => ~connected
<1>1. HandlesLeadBack
    BY LeadBack DEF PeripheralInv, DatabaseInv
<1>2. TypesKept
    BY Zenon DEF PeripheralInv, DatabaseInv, BasesInv, TypesKept
<1> QED BY <1>1, <1>2, Zenon DEF PeripheralInv, ConnectionInv, LinkInv

-----------------------------------------------------------------------------

\* The variables have their types: an operation never stands behind the end of
\* its value, however the requests come (GattsAuthorizeRead).
THEOREM PeripheralTypeCorrect == Spec => []TypeOK
BY InitPeripheral, NextStep, PeripheralImplies, PTL DEF Spec

\* A handle that the ADK got leads back to the attribute it was asked for,
\* for all services together: their registrations leave no gap (PublishService).
THEOREM HandlesCorrect == Spec => []HandlesLeadBack
BY InitPeripheral, NextStep, PeripheralImplies, PTL DEF Spec

\* An attribute shows the type it was added with, for any number of types,
\* also when there is no memory left for one (GetBLEUUID).
THEOREM TypesCorrect == Spec => []TypesKept
BY InitPeripheral, NextStep, PeripheralImplies, PTL DEF Spec

\* A read gives the value to its last byte, for any MTUs and lengths, unless
\* its last response was sent while the accessory did not know the central's
\* MTU: the central had exchanged it itself, and the accessory's own exchange
\* was not answered yet, had failed or had not been asked for
\* (GattsAuthorizeRead).
THEOREM ReadsWhole == Spec => []ReadsGiveWholeValues
BY InitPeripheral, NextStep, PeripheralImplies, PTL DEF Spec

\* A central that reads to the end and in order is not turned away for the
\* state it meets, unless the response before was sent while the accessory did
\* not know the central's MTU, as above (GattsAuthorizeRead,
\* GattsAuthorizeWrite).
THEOREM CentralServed == Spec => []ConformingCentralServed
BY InitPeripheral, NextStep, PeripheralImplies, PTL DEF Spec

\* The flag that holds back indications tells whether one is to be confirmed.
THEOREM IndicationsFlagged == Spec => []IndicationFlagged
BY InitPeripheral, NextStep, PeripheralImplies, PTL DEF Spec

\* The accessory never learns of a second MTU: it asks for an exchange once in
\* a connection, so what the code does for a central with two of them is not
\* reached (GattsExchangeMTUParams).
THEOREM OneMtu == Spec => [](secondClientMTU = 0)
BY InitPeripheral, NextStep, PeripheralImplies, PTL DEF Spec

\* The host tells of a connection only while there is none: the assertion at
\* HAPPlatformBLEPeripheralManager.c:1218 holds, since the controller stops to
\* advertise with a connection and the ADK starts again without one.
THEOREM OneConnection == Spec => [][HandleConnected => ~connected]_vars
<1>1. PeripheralInv => (HandleConnected => ~connected)
    BY PeripheralImplies DEF HandleConnected
<1> QED BY <1>1, InitPeripheral, NextStep, PTL DEF Spec

\* The client configurations stay within their array, which has a place per
\* service, if a third of the attributes is no more than one above the number
\* of services; the check at HAPPlatformBLEPeripheralManager.c:771 holds them
\* against half the attributes, which they never reach
\* (HAPPlatformBLEPeripheralManagerAddCharacteristic).
THEOREM ConfigurationsFit ==
    ASSUME ServiceAttrMaxDepth <= 3 * (MaxServicesCount + 1)
    PROVE  Spec => [](halted # "overrun")
<1>1. Init => PeripheralInv /\ ConfigurationsKept
    BY InitPeripheral, FreshConfigurations DEF Init, InitDatabase, ConfigurationsKept
<1>2. PeripheralInv /\ ConfigurationsKept /\ [Next]_vars => ConfigurationsKept'
    BY ConfigurationsStep
<1>3. ConfigurationsKept => halted # "overrun"
    BY DEF ConfigurationsKept
<1> QED BY <1>1, <1>2, <1>3, NextStep, PTL DEF Spec

=============================================================================
