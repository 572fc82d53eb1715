-------------------------- MODULE LightBulbProofs --------------------------
(***************************************************************************)
(* Proofs about LightBulb: for any characteristics and any number of       *)
(* values, whatever the transitions do while the HAP thread saves, and     *)
(* wherever a restart comes.                                               *)
(***************************************************************************)
EXTENDS LightBulb, TLAPS

\* The shapes of the variables, and of what the HAP thread is saving.
Shapes ==
    /\ bulb \in [Characteristics -> Int] /\ record \in [Characteristics -> Int]
    /\ prevValue \in [Tracked -> Int] /\ wrote \in [Tracked -> Int]
    /\ known \in [Subscribed -> Int]
    /\ hap.at = "saving" =>
          /\ hap.characteristic \in Characteristics
          /\ hap.value \in ValuesOf(hap.characteristic)
          /\ hap.copy \in [Characteristics -> Int]
          /\ \A c \in Characteristics : hap.copy[c] \in ValuesOf(c)

\* What is not being saved is stored, and the copy is what the bulb has.
SettledInv ==
    /\ led = bulb["on"] \/ Saving("on")
    /\ Saving("on") => hap.value = bulb["on"]
    /\ \A c \in Characteristics \ unsaved :
          /\ ~Saving(c) => record[c] = bulb[c]
          /\ hap.at = "saving" => hap.copy[c] = bulb[c]

\* A written value is safe because no transition is left to change it.
WroteInv ==
    \A c \in Tracked :
        /\ c \in transitions => wrote[c] = NoWrite
        /\ ~Saving(c) => wrote[c] \in {NoWrite, bulb[c]}
        /\ Saving(c) /\ c \notin overtaken => hap.value = bulb[c]

\* An event that is on its way will tell the value that prevValue holds; when
\* none is, the controller has been told it.
ToldInv ==
    \A c \in Subscribed : ~Saving(c) /\ c \notin overtaken =>
        IF c \in Tracked
        THEN IF c \in raised THEN prevValue[c] = bulb[c] ELSE known[c] = prevValue[c]
        ELSE c \in raised \/ known[c] = bulb[c]

BulbInv == BulbTypeOK /\ Shapes /\ SettledInv /\ WroteInv /\ ToldInv

-----------------------------------------------------------------------------
\* What the assumptions on the constants say of the sets.
LEMMA Sets ==
  /\ "on" \in Characteristics /\ "on" \notin Tracked
  /\ Tracked \subseteq Characteristics /\ Subscribed \subseteq Characteristics
  /\ Brightness \in Tracked /\ Derived \subseteq Tracked
  /\ \A c \in Characteristics : ValuesOf(c) \subseteq Int /\ 0 \in ValuesOf(c)
  /\ \A c \in Tracked : ValuesOf(c) = 0 .. MaxValue
  /\ NoWrite \in Int
  BY BulbAssumption DEF Characteristics, ValuesOf, NoWrite

\* Whatever a transition calculates, the capped value is one of the range.
LEMMA Capping == \A c \in Tracked, value \in Int : Capped(c, value) \in ValuesOf(c)
  BY Sets, BulbAssumption DEF Capped

LEMMA BulbInitial == BulbInit => BulbInv
<1> SUFFICES ASSUME BulbInit PROVE BulbInv
  OBVIOUS
<1>1. BulbTypeOK
  BY Sets, BulbAssumption DEF BulbInit, BulbTypeOK, HapIdle, ValuesOf
<1>2. Shapes
  BY Sets DEF BulbInit, Shapes, HapIdle
<1>3. SettledInv /\ WroteInv /\ ToldInv
  BY Sets DEF BulbInit, SettledInv, WroteInv, ToldInv, Saving, HapIdle
<1>4. QED
  BY <1>1, <1>2, <1>3 DEF BulbInv

\* A change by a transition, while the HAP thread waits or in its last step of a
\* write of the brightness.
LEMMA UpdateStep ==
  ASSUME BulbInv, NEW c \in transitions, NEW value \in ValuesOf(c), NEW notify \in BOOLEAN,
         CharacteristicValueUpdate(c, value, notify),
         hap' = hap \/ (hap.at = "derived" /\ hap' = HapIdle),
         UNCHANGED <<record, led, transitions, known, wrote>>
  PROVE  BulbInv'
<1> USE Sets DEF BulbInv
<1>1. c \in Tracked /\ value \in Int
  BY DEF BulbTypeOK
<1>2. /\ \A d \in Characteristics : Saving(d)' <=> Saving(d)
      /\ hap'.at = "saving" => hap' = hap
      /\ hap'.at \in {"idle", "saving", "derived", "purging"}
  BY DEF Saving, HapIdle, BulbTypeOK
<1>3. bulb' = [bulb EXCEPT ![c] = value]
  BY DEF CharacteristicValueUpdate
<1>4. BulbTypeOK'
  BY <1>1, <1>2, SMTT(30) DEF BulbTypeOK, Shapes, CharacteristicValueUpdate, NoteChange, RaiseEvent
<1>5. Shapes'
  BY <1>1, <1>2 DEF Shapes, CharacteristicValueUpdate
<1>6. SettledInv'
  BY <1>1, <1>2, <1>3, SMTT(30) DEF SettledInv, Shapes, CharacteristicValueUpdate, NoteChange, Saving
<1>7. WroteInv'
  BY <1>1, <1>2, <1>3 DEF WroteInv, Shapes, CharacteristicValueUpdate, NoteChange, Saving
<1>8. ToldInv'
  BY <1>1, <1>2, <1>3, ZenonT(30)
  DEF ToldInv, Shapes, CharacteristicValueUpdate, NoteChange, RaiseEvent
<1>9. QED
  BY <1>4, <1>5, <1>6, <1>7, <1>8

\* The steps of the transitions.
LEMMA TransitionSteps ==
  ASSUME BulbInv,
         \/ TransitionUpdate \/ UpdateDerivedTransitionValue
         \/ \E c \in Tracked : StartTransition(c) \/ EndTransition(c)
  PROVE  BulbInv'
<1> USE DEF valueVars
<1>1. ASSUME NEW cs \in SUBSET transitions, Calculated(cs),
             hap' = hap \/ (hap.at = "derived" /\ hap' = HapIdle),
             UNCHANGED <<record, led, transitions, known, wrote>>
      PROVE  BulbInv'
  <2>1. PICK c \in cs, notify \in BOOLEAN, value \in Negative .. MaxValue + 1 :
          CharacteristicValueUpdate(c, Capped(c, value), notify)
    BY <1>1 DEF Calculated
  <2>2. c \in transitions /\ Capped(c, value) \in ValuesOf(c)
    BY Capping, BulbAssumption DEF BulbInv, BulbTypeOK, Negative
  <2>3. QED
    BY <1>1, <2>1, <2>2, UpdateStep
<1>2. CASE TransitionUpdate
  BY <1>1, <1>2 DEF TransitionUpdate
<1>3. CASE UpdateDerivedTransitionValue
  <2>1. CASE Calculated(Derived \cap transitions)
    BY <1>1, <1>3, <2>1 DEF UpdateDerivedTransitionValue
  <2>2. CASE UNCHANGED <<bulb, prevValue, raised, unsaved, overtaken>>
    BY <1>3, <2>2, Sets
    DEF UpdateDerivedTransitionValue, BulbInv, BulbTypeOK, Shapes, SettledInv, WroteInv,
        ToldInv, Saving, HapIdle
  <2>3. QED
    BY <1>3, <2>1, <2>2 DEF UpdateDerivedTransitionValue
<1>4. ASSUME NEW c \in Tracked, StartTransition(c) PROVE BulbInv'
  BY <1>4, Sets
  DEF StartTransition, BulbInv, BulbTypeOK, Shapes, SettledInv, WroteInv, ToldInv, Saving, HapIdle
<1>5. ASSUME NEW c \in Tracked, EndTransition(c) PROVE BulbInv'
  BY <1>5, Sets
  DEF EndTransition, BulbInv, BulbTypeOK, Shapes, SettledInv, WroteInv, ToldInv, Saving
<1>6. QED
  BY <1>2, <1>3, <1>4, <1>5

\* A handler or the button changes a value and hands the state to the store.
LEMMA SaveStep ==
  ASSUME BulbInv, hap = HapIdle,
         NEW c \in Characteristics, NEW value \in ValuesOf(c),
         bulb' = [bulb EXCEPT ![c] = value], Save(c, value),
         led' = led \/ (c = "on" /\ led' = value),
         UNCHANGED <<prevValue, record, transitions, raised, known, wrote, unsaved>>
  PROVE  BulbInv'
<1> USE Sets DEF BulbInv
<1>1. /\ hap'.at = "saving" /\ hap'.characteristic = c /\ hap'.value = value
      /\ hap'.copy = bulb' /\ overtaken' = overtaken \ {c}
      /\ \A d \in Characteristics : ~Saving(d)
      /\ \A d \in Characteristics : Saving(d)' <=> d = c
  BY DEF Save, Saving, HapIdle
<1>2. value \in Int /\ bulb' \in [Characteristics -> Int]
  BY DEF Shapes
<1>3. BulbTypeOK'
  <2>1. c = "on" => value \in 0 .. 1
    BY DEF ValuesOf
  <2>2. \A d \in Characteristics : {bulb'[d], record'[d]} \subseteq ValuesOf(d)
    BY DEF BulbTypeOK, Shapes
  <2>3. QED
    BY <1>1, <2>1, <2>2 DEF BulbTypeOK
<1>4. Shapes'
  <2>1. \A d \in Characteristics : bulb'[d] \in ValuesOf(d)
    BY DEF BulbTypeOK, Shapes
  <2>2. QED
    BY <1>1, <1>2, <2>1 DEF Shapes, ValuesOf
<1>5. SettledInv'
  BY <1>1, <1>2 DEF SettledInv, Shapes
<1>6. WroteInv' /\ ToldInv'
  BY <1>1, <1>2, SMTT(30) DEF WroteInv, ToldInv, Shapes
<1>7. QED
  BY <1>3, <1>4, <1>5, <1>6

\* A handler of a write, and the button.
LEMMA WriteSteps ==
  ASSUME BulbInv,
         \/ \E c \in Characteristics : \E value \in ValuesOf(c) : WriteNew(c, value)
         \/ \E c \in Tracked : WriteSame(c)
         \/ ToggleLightBulbState
  PROVE  BulbInv'
<1>1. ASSUME NEW c \in Characteristics, NEW value \in ValuesOf(c), WriteNew(c, value)
      PROVE  BulbInv'
  BY <1>1, SaveStep DEF WriteNew
<1>2. CASE ToggleLightBulbState
  <2>1. bulb["on"] \in 0 .. 1 /\ bulb \in [Characteristics -> Int]
    BY Sets DEF BulbInv, BulbTypeOK, Shapes, ValuesOf
  <2>2. bulb'["on"] = 1 - bulb["on"] /\ bulb'["on"] \in ValuesOf("on")
    BY <1>2, <2>1, Sets DEF ToggleLightBulbState, ValuesOf
  <2>3. bulb' = [bulb EXCEPT !["on"] = bulb'["on"]]
    BY <1>2, <2>2 DEF ToggleLightBulbState
  <2>4. QED
    BY <1>2, <2>2, <2>3, Sets, SaveStep DEF ToggleLightBulbState
<1>3. ASSUME NEW c \in Tracked, WriteSame(c) PROVE BulbInv'
  <2>1. bulb[c] \in ValuesOf(c) /\ wrote \in [Tracked -> Int] /\ bulb[c] \in Int
    BY Sets DEF BulbInv, BulbTypeOK, Shapes
  <2>2. /\ \A d \in Characteristics : ~Saving(d) /\ ~Saving(d)'
        /\ hap'.at \in {"idle", "derived"}
    BY <1>3 DEF WriteSame, Saving, HapIdle
  <2>3. BulbTypeOK' /\ Shapes'
    BY <1>3, <2>1, <2>2, Sets DEF WriteSame, valueVars, BulbInv, BulbTypeOK, Shapes
  <2>4. SettledInv' /\ WroteInv' /\ ToldInv'
    BY <1>3, <2>1, <2>2, Sets
    DEF WriteSame, valueVars, BulbInv, Shapes, SettledInv, WroteInv, ToldInv
  <2>5. QED
    BY <2>3, <2>4 DEF BulbInv
<1>4. QED
  BY <1>1, <1>2, <1>3

\* The flash has the record, and the handler ends.
LEMMA SaveEndStep == ASSUME BulbInv, SaveEnd PROVE BulbInv'
<1> DEFINE s == hap.characteristic
<1> USE Sets DEF BulbInv, SaveEnd
<1>1. /\ hap.at = "saving" /\ s \in Characteristics
      /\ Saving(s) /\ \A d \in Characteristics \ {s} : ~Saving(d)
      /\ \A d \in Characteristics : ~Saving(d)'
      /\ hap'.at \in {"idle", "derived"}
  BY DEF Shapes, Saving, HapIdle
<1>2. /\ hap.value \in ValuesOf(s) /\ hap.value \in Int
      /\ record' \in [Characteristics -> Int]
      /\ \A d \in Characteristics : record'[d] \in ValuesOf(d)
  BY <1>1 DEF Shapes
<1>3. BulbTypeOK'
  <2>1. s = "on" => hap.value \in 0 .. 1
    BY <1>2 DEF ValuesOf
  <2>2. \A d \in Tracked : prevValue'[d] \in ValuesOf(d) /\ wrote'[d] \in ValuesOf(d) \cup {NoWrite}
    BY <1>1, <1>2 DEF BulbTypeOK, Shapes
  <2>3. raised' \subseteq Subscribed
    BY DEF BulbTypeOK, RaiseEvent
  <2>4. QED
    BY <1>1, <1>2, <2>1, <2>2, <2>3 DEF BulbTypeOK
<1>4. Shapes'
  BY <1>1, <1>2, SMTT(30) DEF Shapes
<1>5. SettledInv'
  <2>1. led' = bulb'["on"]
    BY <1>1 DEF SettledInv, Saving
  <2>2. \A d \in Characteristics \ unsaved' : record'[d] = bulb'[d]
    BY <1>1 DEF SettledInv
  <2>3. QED
    BY <1>1, <2>1, <2>2 DEF SettledInv
<1>6. WroteInv'
  BY <1>1, <1>2 DEF WroteInv, Shapes
<1>7. ToldInv'
  BY <1>1, <1>2, SMTT(30) DEF ToldInv, WroteInv, SettledInv, Shapes, RaiseEvent
<1>8. QED
  BY <1>3, <1>4, <1>5, <1>6, <1>7

\* An event is sent, or the adaptive lighting is purged.
LEMMA OtherSteps ==
  ASSUME BulbInv, PurgeAdaptiveLightKeyStore \/ \E c \in Subscribed : SendEvent(c)
  PROVE  BulbInv'
<1> USE Sets DEF BulbInv, BulbTypeOK, Shapes, SettledInv, WroteInv, ToldInv, Saving, HapIdle
<1>1. CASE PurgeAdaptiveLightKeyStore
  BY <1>1 DEF PurgeAdaptiveLightKeyStore, valueVars
<1>2. ASSUME NEW c \in Subscribed, SendEvent(c) PROVE BulbInv'
  BY <1>2 DEF SendEvent
<1>3. QED
  BY <1>1, <1>2

\* A restart, which may come while the record is being written.
LEMMA BulbRestartStep == ASSUME BulbInv, BulbRestart PROVE BulbInv'
<1> USE Sets DEF BulbInv, BulbRestart, LoadAccessoryState
<1>1. /\ record' \in [Characteristics -> Int]
      /\ \A d \in Characteristics : record'[d] \in ValuesOf(d)
  BY DEF BulbTypeOK, Shapes
<1>2. hap'.at = "idle" /\ \A d \in Characteristics : ~Saving(d)'
  BY DEF HapIdle, Saving
<1>3. \A c \in Tracked : c \notin unsaved /\ ~Saving(c) => record'[c] = bulb[c]
  BY DEF SettledInv
<1>4. BulbTypeOK' /\ Shapes'
  <2>1. led' \in 0 .. 1
    BY <1>1 DEF ValuesOf
  <2>2. transitions' \subseteq Tracked
    BY DEF BulbTypeOK
  <2>3. \A c \in Tracked : wrote'[c] \in ValuesOf(c) \cup {NoWrite}
    BY DEF BulbTypeOK
  <2>4. QED
    BY <1>1, <1>2, <2>1, <2>2, <2>3 DEF BulbTypeOK, Shapes
<1>5. SettledInv' /\ ToldInv'
  BY <1>2 DEF SettledInv, ToldInv
<1>6. WroteInv'
  BY <1>2, <1>3 DEF WroteInv
<1>7. QED
  BY <1>4, <1>5, <1>6

LEMMA BulbInvariant == BulbSpec => []BulbInv
<1>1. BulbInv /\ UNCHANGED bulbVars => BulbInv'
  BY DEF bulbVars, BulbInv, BulbTypeOK, Shapes, SettledInv, WroteInv, ToldInv, Saving
<1>2. BulbInv /\ BulbNext => BulbInv'
  BY TransitionSteps, WriteSteps, SaveEndStep, OtherSteps, BulbRestartStep DEF BulbNext
<1>3. QED
  BY BulbInitial, <1>1, <1>2, PTL DEF BulbSpec

-----------------------------------------------------------------------------
\* Every value stays in its range, whatever the transitions calculate.
THEOREM BulbTypeCorrect == BulbSpec => []BulbTypeOK
<1>1. BulbInv => BulbTypeOK
  BY DEF BulbInv
<1>2. QED
  BY BulbInvariant, <1>1, PTL

\* Between requests the LED and the record agree with the bulb, but for what
\* transitions have changed, wherever a restart or a transition came.
THEOREM BulbStored == BulbSpec => []BulbSettled
<1>1. BulbInv => BulbSettled
  BY Sets DEF BulbInv, SettledInv, BulbSettled, Saving, HapIdle
<1>2. QED
  BY BulbInvariant, <1>1, PTL

\* No event is missing once those that are raised have been sent.
THEOREM SubscribersTold == BulbSpec => []SubscribersUpToDate
<1>1. BulbInv => SubscribersUpToDate
  BY Sets DEF BulbInv, BulbTypeOK, ToldInv, SubscribersUpToDate, Saving, HapIdle
<1>2. QED
  BY BulbInvariant, <1>1, PTL

\* A written value is not changed by a transition that the write has ended.
THEOREM WrittenStays == BulbSpec => []WrittenValueStays
<1>1. BulbInv => WrittenValueStays
  <2>1. hap = HapIdle => hap.at # "saving"
    BY DEF HapIdle
  <2>2. QED
    BY <2>1 DEF BulbInv, WroteInv, WrittenValueStays, Saving
<1>2. QED
  BY BulbInvariant, <1>1, PTL

=============================================================================
