------------------------------ MODULE LightBulb ------------------------------
(***************************************************************************)
(* The light bulb application, samples/light_bulb/src/app.c: the values of *)
(* its characteristics with the record they are stored in, the LED, and    *)
(* the transitions of adaptive lighting.                                   *)
(*                                                                         *)
(* The controllers' writes and the button's event run in the HAP thread,   *)
(* and wait for the flash when they save.  The transitions are kept by the *)
(* HomeKit ADK, which is external: a timer of its own, in the system work  *)
(* queue, calls CharacteristicValueUpdate, also while the HAP thread waits.*)
(* An event that is raised is sent later by the ADK, which reads the value *)
(* then.                                                                   *)
(***************************************************************************)
EXTENDS Integers

CONSTANTS
    Tracked,        \* characteristics with transitions: brightness, temperature
    Brightness,     \* lightBulbBrightnessCharacteristic
    Derived,        \* those whose transition follows the brightness
    Plain,          \* hue and saturation
    Subscribed,     \* characteristics a controller has subscribed to
    MaxValue        \* bound: values of a characteristic, from its minimum

ASSUME BulbAssumption ==
    /\ Brightness \in Tracked
    /\ Derived \subseteq Tracked \ {Brightness}
    /\ "on" \notin Tracked \cup Plain
    /\ Subscribed \subseteq {"on"} \cup Tracked \cup Plain
    /\ MaxValue \in Nat \ {0}

VARIABLES
    bulb,           \* accessoryConfiguration.state
    prevValue,      \* accessoryConfiguration.prevNotificationValue
    record,         \* the stored state
    led,            \* the LED of lightBulbPin
    hap,            \* what the HAP thread is at
    transitions,    \* characteristics with a transition (kept by the ADK)
    raised,         \* events raised and not yet sent (kept by the ADK)
    known,          \* what the controller was told last
    wrote,          \* history: the value of the last write, if no transition
                    \* changed it meanwhile or was started since, and no
                    \* restart cut it short
    unsaved,        \* history: changed by a transition since the last save
    overtaken       \* history: changed by a transition between another change
                    \* and the event that tells of it

bulbVars == <<bulb, prevValue, record, led, hap, transitions, raised, known,
              wrote, unsaved, overtaken>>
valueVars == <<bulb, prevValue, raised, unsaved, overtaken>>

Characteristics == {"on"} \cup Tracked \cup Plain
ValuesOf(c) == IF c = "on" THEN 0 .. 1 ELSE 0 .. MaxValue
NoWrite == -1
Negative == -2      \* -1 is a value below the minimum that is not negative
HapIdle == [at |-> "idle"]

\* SetupDefaultAccessoryState: there is no record yet.
BulbInit ==
    /\ bulb = [c \in Characteristics |-> 0]
    /\ prevValue = [c \in Tracked |-> 0]
    /\ record = bulb
    /\ led = 0
    /\ hap = HapIdle
    /\ transitions = {} /\ raised = {}
    /\ known = [c \in Subscribed |-> 0]
    /\ wrote = [c \in Tracked |-> NoWrite]
    /\ unsaved = {} /\ overtaken = {}

-----------------------------------------------------------------------------
(* Transitions.                                                            *)

\* HAPAccessoryServerRaiseEvent: the ADK keeps events somebody has subscribed to.
RaiseEvent(c) == raised \cup ({c} \cap Subscribed)

\* The HAP thread is saving a change of this characteristic.
Saving(c) == hap.at = "saving" /\ hap.characteristic = c

\* What a transition's change means for the history.
NoteChange(c, changed, told) ==
    /\ unsaved' = IF changed THEN unsaved \cup {c} ELSE unsaved
    /\ overtaken' = IF changed /\ (Saving(c) \/ (c \in raised /\ ~told)) THEN overtaken \cup {c}
                    ELSE IF told /\ ~Saving(c) THEN overtaken \ {c} ELSE overtaken

\* Mutant: the value that is told is not kept.
ForgetfulUpdate(c, value, notify) ==
    LET told == notify /\ prevValue[c] # value IN
    /\ bulb' = [bulb EXCEPT ![c] = value]
    /\ raised' = IF told THEN RaiseEvent(c) ELSE raised
    /\ NoteChange(c, bulb[c] # value, told)
    /\ UNCHANGED prevValue

\* CharacteristicValueUpdate, after the value has been capped to the range: an
\* event is raised if the value differs from the one of the last event.
CharacteristicValueUpdate(c, value, notify) ==
    LET told == notify /\ prevValue[c] # value IN
    /\ bulb' = [bulb EXCEPT ![c] = value]
    /\ prevValue' = IF told THEN [prevValue EXCEPT ![c] = value] ELSE prevValue
    /\ raised' = IF told THEN RaiseEvent(c) ELSE raised
    /\ NoteChange(c, bulb[c] # value, told)

\* Mutant: a value above the maximum is not capped.
CappedBelow(c, value) == IF value < 0 THEN 0 ELSE value

\* The same, the capping.  The brightness is compared as a signed number, the
\* temperature as an unsigned one: as such a negative value is a large one.
Capped(c, value) ==
    IF value > MaxValue \/ (value = Negative /\ c # Brightness) THEN MaxValue
    ELSE IF value < 0 THEN 0 ELSE value

\* The value of a characteristic, as its transition calculates it.
Calculated(cs) ==
    \E c \in cs, notify \in BOOLEAN, value \in Negative .. MaxValue + 1 :
        CharacteristicValueUpdate(c, Capped(c, value), notify)

\* The ADK's timer, in the system work queue: not in the middle of a handler.
TransitionUpdate ==
    /\ hap.at # "derived"
    /\ Calculated(transitions)
    /\ UNCHANGED <<record, led, hap, transitions, known, wrote>>

\* A controller starts a transition.
StartTransition(c) ==
    /\ hap = HapIdle
    /\ transitions' = transitions \cup {c}
    /\ wrote' = [wrote EXCEPT ![c] = NoWrite]
    /\ UNCHANGED <<valueVars, record, led, hap, known>>

\* TransitionExpiry: only the number of transitions is told.
EndTransition(c) ==
    /\ hap.at # "derived"
    /\ c \in transitions
    /\ transitions' = transitions \ {c}
    /\ UNCHANGED <<valueVars, record, led, hap, known, wrote>>

-----------------------------------------------------------------------------
(* Handlers of writes.                                                     *)

\* SaveAccessoryState up to the flash: the store takes a copy of the state.
Save(c, value) ==
    /\ hap' = [at |-> "saving", characteristic |-> c, value |-> value, copy |-> bulb']
    /\ overtaken' = overtaken \ {c}

\* A handler of a write request of a new value, up to the flash.
WriteNew(c, value) ==
    /\ hap = HapIdle
    /\ bulb[c] # value
    /\ bulb' = [bulb EXCEPT ![c] = value]
    /\ Save(c, value)
    /\ UNCHANGED <<prevValue, record, led, transitions, raised, known, wrote, unsaved>>

\* Mutant: nothing is done for a value the bulb has.
IgnoreSame(c) ==
    /\ hap = HapIdle
    /\ c \in Tracked
    /\ wrote' = [wrote EXCEPT ![c] = bulb[c]]
    /\ UNCHANGED <<valueVars, record, led, hap, transitions, known>>

\* A handler of a write request of the value the bulb has: the transition is
\* cancelled all the same.
WriteSame(c) ==
    /\ hap = HapIdle
    /\ c \in Tracked
    /\ transitions' = transitions \ {c}
    /\ wrote' = [wrote EXCEPT ![c] = bulb[c]]
    /\ hap' = IF c = Brightness THEN [at |-> "derived"] ELSE HapIdle
    /\ UNCHANGED <<valueVars, record, led, known>>

\* Mutant: the state is stored before it is changed.
SavedFirst ==
    /\ hap = HapIdle
    /\ bulb' = [bulb EXCEPT !["on"] = 1 - @]
    /\ led' = bulb'["on"]
    /\ hap' = [at |-> "saving", characteristic |-> "on", value |-> bulb'["on"], copy |-> bulb]
    /\ UNCHANGED <<prevValue, record, transitions, raised, known, wrote, unsaved,
                   overtaken>>

\* ToggleLightBulbState up to the flash: the LED is switched first.
ToggleLightBulbState ==
    /\ hap = HapIdle
    /\ bulb' = [bulb EXCEPT !["on"] = 1 - @]
    /\ led' = bulb'["on"]
    /\ Save("on", bulb'["on"])
    /\ UNCHANGED <<prevValue, record, transitions, raised, known, wrote, unsaved>>

\* The flash has the record.  The rest of the handler, which nothing interrupts:
\* the LED is switched, the event raised, the transition cancelled.
SaveEnd ==
    /\ hap.at = "saving"
    /\ LET c == hap.characteristic IN
          /\ led' = IF c = "on" THEN hap.value ELSE led
          /\ raised' = RaiseEvent(c)
          /\ transitions' = transitions \ {c}
          /\ IF c \in Tracked
             THEN /\ prevValue' = [prevValue EXCEPT ![c] = hap.value]
                  /\ wrote' = [wrote EXCEPT ![c] = IF c \in overtaken THEN NoWrite ELSE hap.value]
             ELSE UNCHANGED <<prevValue, wrote>>
          /\ hap' = IF c = Brightness THEN [at |-> "derived"] ELSE HapIdle
    /\ record' = hap.copy
    /\ unsaved' = {c \in unsaved : bulb[c] # record'[c]}
    /\ UNCHANGED <<bulb, known, overtaken>>

\* UpdateDerivedTransitionValue, the end of HandleLightBulbBrightnessWrite: the
\* ADK calculates the values that follow the brightness and passes them on.
UpdateDerivedTransitionValue ==
    /\ hap.at = "derived"
    /\ hap' = HapIdle
    /\ \/ /\ Derived \cap transitions = {}
          /\ UNCHANGED valueVars
       \/ Calculated(Derived \cap transitions)
    /\ UNCHANGED <<record, led, transitions, known, wrote>>

\* PurgeAdaptiveLightKeyStore, when the last pairing goes or on a factory reset:
\* the store first, which waits for the flash, the transitions then.
PurgeAdaptiveLightKeyStore ==
    /\ \/ hap = HapIdle /\ hap' = [at |-> "purging"] /\ UNCHANGED transitions
       \/ hap.at = "purging" /\ hap' = HapIdle /\ transitions' = {}
    /\ UNCHANGED <<valueVars, record, led, known, wrote>>

-----------------------------------------------------------------------------
\* The ADK sends an event, with the value as it is now.
SendEvent(c) ==
    /\ hap = HapIdle
    /\ c \in raised
    /\ raised' = raised \ {c}
    /\ known' = [known EXCEPT ![c] = bulb[c]]
    /\ UNCHANGED <<bulb, prevValue, record, led, hap, transitions, wrote, unsaved,
                   overtaken>>

\* LoadAccessoryState
LoadAccessoryState ==
    /\ bulb' = record'
    /\ prevValue' = [c \in Tracked |-> record'[c]]

\* A power loss or a reset, and AppCreate: a record that was being written is the
\* old one or the new one.  Controllers connect again and read; the ADK takes up
\* the transitions it has stored.
BulbRestart ==
    /\ record' = record \/ (hap.at = "saving" /\ record' = hap.copy)
    /\ LoadAccessoryState
    /\ led' = record'["on"]
    /\ hap' = HapIdle
    /\ transitions' \in IF hap.at = "purging" THEN SUBSET transitions ELSE {transitions}
    /\ raised' = {}
    /\ known' = [c \in Subscribed |-> record'[c]]
    /\ wrote' = [c \in Tracked |-> IF c \in unsaved \/ Saving(c) THEN NoWrite ELSE wrote[c]]
    /\ unsaved' = {} /\ overtaken' = {}

BulbNext ==
    \/ \E c \in Characteristics : \E value \in ValuesOf(c) : WriteNew(c, value)
    \/ \E c \in Tracked : WriteSame(c) \/ StartTransition(c) \/ EndTransition(c)
    \/ ToggleLightBulbState \/ SaveEnd \/ UpdateDerivedTransitionValue
    \/ PurgeAdaptiveLightKeyStore
    \/ TransitionUpdate
    \/ \E c \in Subscribed : SendEvent(c)
    \/ BulbRestart

BulbSpec == BulbInit /\ [][BulbNext]_bulbVars

-----------------------------------------------------------------------------
(* Properties.                                                             *)

BulbTypeOK ==
    /\ \A c \in Characteristics : {bulb[c], record[c]} \subseteq ValuesOf(c)
    /\ \A c \in Subscribed : known[c] \in ValuesOf(c)
    /\ \A c \in Tracked : prevValue[c] \in ValuesOf(c) /\ wrote[c] \in ValuesOf(c) \cup {NoWrite}
    /\ led \in 0 .. 1
    /\ hap.at \in {"idle", "saving", "derived", "purging"}
    /\ transitions \subseteq Tracked
    /\ raised \subseteq Subscribed
    /\ unsaved \cup overtaken \subseteq Tracked

\* Between requests the LED shows what the bulb says and the record holds it,
\* but for what a transition has changed since: a restart then brings back every
\* value a write or the button has set (SaveAccessoryState, app.c:281).
BulbSettled ==
    hap = HapIdle =>
        /\ led = bulb["on"]
        /\ \A c \in Characteristics \ unsaved : record[c] = bulb[c]

\* Once the events are sent a subscriber knows the value of every
\* characteristic, but for what transitions change without an event, or change
\* while the event of another change is on its way ("Send a notification, if the
\* brighntess value has changed since the last notification was sent.",
\* app.c:694).
SubscribersUpToDate ==
    hap = HapIdle =>
        \A c \in Subscribed \ (raised \cup overtaken) :
            (c \in Tracked => prevValue[c] = bulb[c]) => known[c] = bulb[c]

\* A value a controller has written stays, over restarts too, until a transition
\* is started: the write ends the one that runs ("Cancel ongoing Transition, if
\* any.", app.c:607).
WrittenValueStays ==
    hap = HapIdle =>
        \A c \in Tracked : wrote[c] \in {NoWrite, bulb[c]}

=============================================================================
