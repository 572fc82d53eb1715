------------------------------ MODULE LockState ------------------------------
(***************************************************************************)
(* The state of the lock and of its keypad, samples/lock/src/app.c: target *)
(* and current state, the context that says who changed them, the keypad,  *)
(* the log of wrong codes that closes it, and the one record of the flash  *)
(* that keeps all of it.                                                   *)
(*                                                                         *)
(* Two threads change the state.  The HAP thread runs every handler; the   *)
(* work queue runs the keypad's timer.  They switch where a save waits for *)
(* the store's mutex or for the flash.  The builds have access codes, NFC  *)
(* access and the HAP_TESTING functions of the default configuration; LEDs *)
(* and events only report, and the battery is a value of its own.          *)
(*                                                                         *)
(* Time is counted in units of which a window has a few; it starts over    *)
(* with every restart, as the kernel's uptime does.                        *)
(***************************************************************************)
EXTENDS Integers, FiniteSetsExt, SequencesExt

CONSTANTS
    TenLimit, HourLimit,    \* kAppAttemptsAllowedInTenMinutes, ...InHour
    TenMinutes, Hour,       \* the two windows
    Reported,               \* bound: current states that SetLockCurrentState is given
    LastAttempt,            \* bound: wrong codes are entered until then
    MaxClock,               \* bound: from then on the clock only goes to a deadline
    None                    \* no record in the flash, no context, no time

ASSUME LockStateAssumption ==
    /\ TenLimit \in Nat \ {0} /\ HourLimit \in Nat \ {0}
    /\ TenMinutes \in Nat \ {0} /\ Hour \in Nat /\ TenMinutes <= Hour
    /\ LastAttempt \in Nat /\ MaxClock \in Nat
    /\ LastAttempt < MaxClock

VARIABLES
    state,          \* accessoryConfiguration.state
    flash,          \* its record in the flash
    copy,           \* the record that is being written
    jammed,         \* the bolt is blocked
    keypadTimer,    \* the application has a reference to the keypad's timer
    deadline,       \* the time the timer is registered for, in a set, or {}
    clock,          \* HAPPlatformClockGetCurrent
    thread,         \* where each thread is
    serving,        \* the accessory server runs
    failure,        \* the assertion that stopped the accessory, or "none"
    useAAD,         \* HAP_APP_USES_AAD, a choice of the build
    actor,          \* whom the last request for a target state named, if anyone
    closedBy,       \* who closed the keypad
    early           \* the keypad was opened while its timer was running

vars == <<state, flash, copy, jammed, keypadTimer, deadline, clock, thread,
          serving, failure, useAAD, actor, closedBy, early>>

TargetStates == {"Secured", "Unsecured"}
CurrentStates == TargetStates \cup {"Jammed", "Unknown"}
Sources == {"HAP", "keypad", "NFC"}

StateSet ==
    {s \in [target : TargetStates, current : CurrentStates, context : Sources \cup {None},
            active : BOOLEAN, ten : Seq(Nat), hour : Seq(Nat)] :
        Len(s.ten) <= TenLimit /\ Len(s.hour) <= HourLimit}

ASSUME ValueAssumption == None \notin StateSet /\ Reported \subseteq CurrentStates

\* SetupDefaultAccessoryState: all zero, and the keypad open.
DefaultState ==
    [target |-> "Unsecured", current |-> "Unsecured", context |-> None,
     active |-> TRUE, ten |-> <<>>, hour |-> <<>>]

\* What LoadAccessoryState finds.
Stored == IF flash = None THEN DefaultState ELSE flash

At(phase, then, time) == [phase |-> phase, then |-> then, time |-> time]
Idle == At("idle", "idle", None)

Init ==
    /\ state = DefaultState
    /\ flash = None
    /\ copy = None
    /\ jammed = FALSE
    /\ keypadTimer = FALSE
    /\ deadline = {}
    /\ clock = 0
    /\ thread = [hap |-> At("off", "idle", None), worker |-> Idle]
    /\ serving = FALSE
    /\ failure = "none"
    /\ useAAD \in BOOLEAN
    /\ actor = None
    /\ closedBy = "nobody"
    /\ early = FALSE

-----------------------------------------------------------------------------
(* Saving and stopping.                                                    *)

\* SaveAccessoryState: the thread goes on at then when the record is written.
Save(t, then, time) == thread' = [thread EXCEPT ![t] = At("save", then, time)]

\* The thread has the mutex of the store, which takes a copy of the state.  The
\* stored context is left out: a start forgets it before anybody reads it.
BeginWrite(t) ==
    /\ failure = "none"
    /\ thread[t].phase = "save"
    /\ copy = None
    /\ copy' = [state EXCEPT !.context = None]
    /\ thread' = [thread EXCEPT ![t].phase = "write"]
    /\ UNCHANGED <<state, flash, jammed, keypadTimer, deadline, clock, serving,
                   failure, useAAD, actor, closedBy, early>>

EndWrite(t) ==
    /\ failure = "none"
    /\ thread[t].phase = "write"
    /\ flash' = copy
    /\ copy' = None
    /\ thread' = [thread EXCEPT ![t].phase = thread[t].then]
    /\ UNCHANGED <<state, jammed, keypadTimer, deadline, clock, serving, failure,
                   useAAD, actor, closedBy, early>>

\* HAPAssert or HAPFatalError.
Fail(reason) ==
    /\ failure' = reason
    /\ UNCHANGED <<state, flash, copy, jammed, keypadTimer, deadline, clock, thread,
                   serving, useAAD, actor, closedBy, early>>

\* The HAP thread is at this point.
HapAt(phase) == failure = "none" /\ thread.hap.phase = phase

\* The HAP thread takes the next request.
Ready == HapAt("idle") /\ serving

\* The opening of the keypad leaves a running timer alone.
Opened ==
    /\ closedBy' = "nobody"
    /\ early' = (early \/ keypadTimer)

-----------------------------------------------------------------------------
(* Lock state.                                                             *)

\* DeviceSecureLock, DeviceUnsecureLock: the current state that results.
DeviceState(target) == IF jammed THEN "Jammed" ELSE target

\* What SetLockTargetState makes of a state s: another target opens the keypad
\* and clears the log.
WithTarget(s, target) ==
    LET moved == [s EXCEPT !.target = target, !.current = DeviceState(target)]
    IN IF s.target = target THEN moved
       ELSE [moved EXCEPT !.active = TRUE, !.ten = <<>>, !.hour = <<>>]

\* Mutant: a save only with another target.
SaveOnlyTarget(s, target) ==
    /\ state' = WithTarget(s, target)
    /\ IF s.target # target THEN Save("hap", "idle", None) ELSE UNCHANGED thread
    /\ IF s.target # target /\ ~s.active THEN Opened ELSE UNCHANGED <<closedBy, early>>

\* The handlers change the context of the state before they call this: s is
\* the state with its new context.
SetLockTargetState(s, target) ==
    /\ state' = WithTarget(s, target)
    /\ IF state' # s THEN Save("hap", "idle", None) ELSE UNCHANGED thread
    /\ IF s.target # target /\ ~s.active THEN Opened ELSE UNCHANGED <<closedBy, early>>

\* HandleLockMechanismLockTargetStateWrite, where the context data that came
\* with the request, if any, can be parsed.  It is kept before the request is
\* refused for lack of authorization data.
LockTargetStateWrite(target, context, authorization) ==
    LET s == [state EXCEPT !.context = context]
    IN /\ Ready
       /\ context \in {"HAP", None}
       /\ IF useAAD /\ ~authorization
          THEN state' = s /\ UNCHANGED <<thread, closedBy, early, actor>>
          ELSE SetLockTargetState(s, target) /\ actor' = context
       /\ UNCHANGED <<flash, copy, jammed, keypadTimer, deadline, clock, serving,
                      failure, useAAD>>

\* HandleLockStateChangeByNfc.
LockStateChangeByNfc(target) ==
    /\ Ready
    /\ SetLockTargetState([state EXCEPT !.context = "NFC"], target)
    /\ actor' = "NFC"
    /\ UNCHANGED <<flash, copy, jammed, keypadTimer, deadline, clock, serving,
                   failure, useAAD>>

\* Mutant: the turn of the knob keeps the context of the last change.
ToggleInContext ==
    /\ Ready
    /\ SetLockTargetState(state, IF state.target = "Secured" THEN "Unsecured" ELSE "Secured")
    /\ actor' = None
    /\ UNCHANGED <<flash, copy, jammed, keypadTimer, deadline, clock, serving,
                   failure, useAAD>>

\* ToggleLockState, by the button that stands for a hand at the lock.
ToggleLockState ==
    /\ Ready
    /\ SetLockTargetState([state EXCEPT !.context = None],
                          IF state.target = "Secured" THEN "Unsecured" ELSE "Secured")
    /\ actor' = None
    /\ UNCHANGED <<flash, copy, jammed, keypadTimer, deadline, clock, serving,
                   failure, useAAD>>

ToggleLockJammed ==
    /\ Ready
    /\ jammed' = ~jammed
    /\ UNCHANGED <<state, flash, copy, keypadTimer, deadline, clock, thread, serving,
                   failure, useAAD, actor, closedBy, early>>

SetLockCurrentState(current) ==
    /\ Ready
    /\ current # state.current
    /\ state' = [state EXCEPT !.current = current]
    /\ Save("hap", "idle", None)
    /\ UNCHANGED <<flash, copy, jammed, keypadTimer, deadline, clock, serving, failure,
                   useAAD, actor, closedBy, early>>

-----------------------------------------------------------------------------
(* Keypad.                                                                 *)

\* RefreshKeypadAttempts: the log from the first time within the window on.
Refreshed(times, now, window) ==
    LET old == {i \in DOMAIN times : now - times[i] > window}
    IN SubSeq(times, Max(old \cup {0}) + 1, Len(times))

RefreshedLog(now) ==
    [state EXCEPT !.ten = Refreshed(@, now, TenMinutes), !.hour = Refreshed(@, now, Hour)]

\* The assertion of RefreshKeypadAttempts, for both logs.
TimesPassed(now) ==
    \A log \in {state.ten, state.hour} : \A i \in DOMAIN log : log[i] <= now

\* Mutant: one attempt too many.
RoomAtLimit(times, limit) == Len(times) <= limit

\* The assertion of LogKeypadAttempt.
HasRoom(times, limit) == Len(times) < limit

\* ValidateAccessCode with a wrong code, up to the save in LogKeypadAttempt.
WrongCode ==
    LET s == RefreshedLog(clock)
    IN /\ Ready
       /\ state.active
       /\ clock <= LastAttempt
       /\ IF ~TimesPassed(clock) THEN Fail("logged time")
          ELSE IF ~(HasRoom(s.ten, TenLimit) /\ HasRoom(s.hour, HourLimit)) THEN Fail("attempts")
          ELSE /\ state' = [s EXCEPT !.ten = Append(@, clock), !.hour = Append(@, clock)]
               /\ Save("hap", "status", clock)
               /\ UNCHANGED <<flash, copy, jammed, keypadTimer, deadline, clock, serving,
                              failure, useAAD, actor, closedBy, early>>

\* ValidateAccessCode with a right code, HandleLockStateChangeByAccessCode.
RightCode ==
    /\ Ready
    /\ state.active
    /\ SetLockTargetState([state EXCEPT !.context = "keypad"],
                          IF state.current = "Secured" THEN "Unsecured" ELSE "Secured")
    /\ actor' = "keypad"
    /\ UNCHANGED <<flash, copy, jammed, keypadTimer, deadline, clock, serving,
                   failure, useAAD>>

\* How long a full log keeps the keypad closed.
DisableTime(times, limit, window, now) ==
    IF Len(times) >= limit THEN window - (now - times[1]) ELSE 0

\* Mutant: the shorter one of the two.
ShortestDisableTime(s, now) ==
    Min({DisableTime(s.ten, TenLimit, TenMinutes, now), DisableTime(s.hour, HourLimit, Hour, now)})

LongestDisableTime(s, now) ==
    Max({DisableTime(s.ten, TenLimit, TenMinutes, now), DisableTime(s.hour, HourLimit, Hour, now)})

\* SetKeypadStatus, up to its save or to the timer.  The time is the one its
\* caller read before a save of its own.
SetKeypadStatus ==
    LET now == thread.hap.time
        s == RefreshedLog(now)
        time == LongestDisableTime(s, now)
    IN /\ HapAt("status")
       /\ \/ ~TimesPassed(now) /\ Fail("logged time")
          \/ /\ TimesPassed(now)
             /\ state' = [s EXCEPT !.active = time <= 0]
             /\ IF state'.active # state.active
                THEN Save("hap", IF time > 0 THEN "timer" ELSE "idle", time)
                ELSE thread' = [thread EXCEPT !.hap = IF time > 0 THEN At("timer", "idle", time) ELSE Idle]
             /\ IF time > 0
                THEN closedBy' = "attempts" /\ UNCHANGED early
                ELSE IF ~state.active THEN Opened ELSE UNCHANGED <<closedBy, early>>
             /\ UNCHANGED <<flash, copy, jammed, keypadTimer, deadline, clock, serving,
                            failure, useAAD, actor>>

\* EnableKeypadDisableTimer.
EnableKeypadDisableTimer ==
    /\ HapAt("timer")
    /\ \/ /\ keypadTimer
          /\ UNCHANGED <<keypadTimer, deadline>>
       \/ /\ ~keypadTimer
          /\ keypadTimer' = TRUE
          /\ deadline' = {clock + Min({thread.hap.time, Hour})}
    /\ thread' = [thread EXCEPT !.hap = Idle]
    /\ UNCHANGED <<state, flash, copy, jammed, clock, serving, failure, useAAD, actor,
                   closedBy, early>>

\* No slot is free for the timer.
TimerRefused == HapAt("timer") /\ ~keypadTimer /\ Fail("timer")

\* Mutant: the reference of the expired timer is kept.
ReferenceKept ==
    /\ failure = "none"
    /\ thread.worker.phase = "idle"
    /\ \E time \in deadline : time <= clock
    /\ deadline' = {}
    /\ state' = [state EXCEPT !.active = TRUE]
    /\ closedBy' = "nobody"
    /\ Save("worker", "idle", None)
    /\ UNCHANGED <<flash, copy, jammed, keypadTimer, clock, serving, failure, useAAD,
                   actor, early>>

\* HandleKeypadDisableTimerCallback, in the work queue.
HandleKeypadDisableTimerCallback ==
    /\ failure = "none"
    /\ thread.worker.phase = "idle"
    /\ \E time \in deadline : time <= clock
    /\ deadline' = {}
    /\ keypadTimer' = FALSE
    /\ state' = [state EXCEPT !.active = TRUE]
    /\ closedBy' = "nobody"
    /\ Save("worker", "idle", None)
    /\ UNCHANGED <<flash, copy, jammed, clock, serving, failure, useAAD, actor, early>>

\* HandleAccessCodeActiveWrite.
AccessCodeActiveWrite(active) ==
    /\ Ready
    /\ active # state.active
    /\ state' = IF active THEN [state EXCEPT !.active = TRUE, !.ten = <<>>, !.hour = <<>>]
                ELSE [state EXCEPT !.active = FALSE]
    /\ IF active THEN Opened ELSE closedBy' = "controller" /\ UNCHANGED early
    /\ Save("hap", "idle", None)
    /\ UNCHANGED <<flash, copy, jammed, keypadTimer, deadline, clock, serving, failure,
                   useAAD, actor>>

-----------------------------------------------------------------------------
(* Start, time and restart.                                                *)

\* AppCreate, up to the call of SetKeypadStatus.
AppCreate ==
    /\ HapAt("off")
    /\ state' = Stored
    /\ thread' = [thread EXCEPT !.hap = At("status", "idle", clock)]
    /\ UNCHANGED <<flash, copy, jammed, keypadTimer, deadline, clock, serving, failure,
                   useAAD, actor, closedBy, early>>

\* AppAccessoryServerStart: the context is not one of this start.
AppAccessoryServerStart ==
    /\ HapAt("idle") /\ ~serving
    /\ serving' = TRUE
    /\ state' = [state EXCEPT !.context = None]
    /\ UNCHANGED <<flash, copy, jammed, keypadTimer, deadline, clock, thread, failure,
                   useAAD, actor, closedBy, early>>

Tick ==
    /\ failure = "none"
    /\ clock < MaxClock \/ \E time \in deadline : clock < time
    /\ clock' = clock + 1
    /\ UNCHANGED <<state, flash, copy, jammed, keypadTimer, deadline, thread, serving,
                   failure, useAAD, actor, closedBy, early>>

\* The power fails, or the accessory restarts after a failure: only the flash
\* is left, and the clock starts over.
Restart ==
    /\ thread.hap.phase # "off"
    /\ state' = DefaultState
    /\ copy' = None
    /\ jammed' = FALSE
    /\ keypadTimer' = FALSE
    /\ deadline' = {}
    /\ clock' = 0
    /\ thread' = [hap |-> At("off", "idle", None), worker |-> Idle]
    /\ serving' = FALSE
    /\ failure' = "none"
    /\ actor' = None
    /\ closedBy' = "nobody"
    /\ early' = FALSE
    /\ UNCHANGED <<flash, useAAD>>

Next ==
    \/ \E target \in TargetStates :
          \/ \E context \in {"HAP", None}, authorization \in BOOLEAN :
                LockTargetStateWrite(target, context, authorization)
          \/ LockStateChangeByNfc(target)
    \/ ToggleLockState
    \/ ToggleLockJammed
    \/ \E current \in Reported : SetLockCurrentState(current)
    \/ WrongCode
    \/ RightCode
    \/ SetKeypadStatus
    \/ EnableKeypadDisableTimer
    \/ TimerRefused
    \/ HandleKeypadDisableTimerCallback
    \/ \E active \in BOOLEAN : AccessCodeActiveWrite(active)
    \/ AppCreate
    \/ AppAccessoryServerStart
    \/ \E t \in {"hap", "worker"} : BeginWrite(t) \/ EndWrite(t)
    \/ Tick
    \/ Restart

Spec == Init /\ [][Next]_vars

-----------------------------------------------------------------------------
(* Properties.                                                             *)

\* The types; the logs fit their arrays (app.c:213, app.c:218).
TypeOK ==
    /\ state \in StateSet
    /\ flash \in StateSet \cup {None} /\ copy \in StateSet \cup {None}
    /\ jammed \in BOOLEAN /\ keypadTimer \in BOOLEAN /\ serving \in BOOLEAN
    /\ useAAD \in BOOLEAN /\ early \in BOOLEAN
    /\ clock \in Nat
    /\ deadline \in SUBSET Nat /\ Cardinality(deadline) <= 1
    /\ \A t \in {"hap", "worker"} :
          /\ thread[t].phase \in {"off", "idle", "save", "write", "status", "timer"}
          /\ thread[t].then \in {"idle", "status", "timer"}
          /\ thread[t].time \in Int \cup {None}
    /\ failure \in {"none", "logged time", "attempts", "timer"}
    /\ actor \in Sources \cup {None}
    /\ closedBy \in {"nobody", "controller", "attempts"}

Quiet == failure = "none" /\ serving /\ \A t \in {"hap", "worker"} : thread[t] = Idle

\* When no thread is about to write, a restart would bring back the lock and
\* the keypad as they are, although two threads change and write one record
\* (SaveAccessoryState, app.c:362).
SavedWhenQuiet ==
    Quiet => /\ Stored.target = state.target
             /\ Stored.current = state.current
             /\ Stored.active = state.active

\* The context that controllers read names the one who asked for the target
\* state last (app.c:200), in a build without authorization data: with it, a
\* request that is refused leaves its context.
ContextNamesActor ==
    serving /\ ~useAAD => state.context = actor

Recent(times, window) == {i \in DOMAIN times : clock - times[i] < window}

\* A keypad that is open has not seen the allowed number of wrong codes within
\* either window, unless someone opened it while its timer was running:
\* neither the two windows together, nor the end of one lock-out, nor a
\* restart lets more codes be tried (SetKeypadStatus, app.c:1213).
LockoutLasts ==
    Quiet /\ state.active /\ ~early =>
        /\ Cardinality(Recent(state.ten, TenMinutes)) < TenLimit
        /\ Cardinality(Recent(state.hour, Hour)) < HourLimit

\* A keypad that wrong codes have closed has a timer that will open it, or is
\* about to get one: whichever requests, saves, expirations and restarts came
\* in between, it never stays closed for good ("it can be re-enabled once
\* timer expires", app.c:1257).
LockoutEnds ==
    closedBy = "attempts" /\ failure = "none" =>
        (keypadTimer /\ deadline # {}) \/ "timer" \in {thread.hap.phase, thread.hap.then}

\* The log holds no time that is still to come: RefreshKeypadAttempts asserts
\* it (app.c:1142).
LoggedTimesPassed == failure # "logged time"

=============================================================================
