------------------------------ MODULE RunLoop ------------------------------
(***************************************************************************)
(* The run loop of the accessory, HAPPlatformRunLoop.c, with the key-value *)
(* store that it waits for when it is stopped: callbacks are scheduled by  *)
(* the HAP thread itself and by the work queue, and run in the HAP thread. *)
(* When the run loop has ended the accessory restarts; the next start is   *)
(* an initial state, with any contents of the store.                       *)
(***************************************************************************)
EXTENDS KeyValueStore

CONSTANTS
    Hap,            \* the HAP thread
    MaxElements,    \* MSGQ_MAX_ELEMENTS
    HeapSize,       \* contexts of the largest size that happl_msg_heap holds
    MaxWork         \* bound: operations and callbacks that are begun

ASSUME RunLoopAssumption ==
    /\ Hap \in Threads
    /\ MaxElements \in Nat \ {0}
    /\ HeapSize \in Nat
    /\ MaxWork \in Nat

VARIABLES
    state,      \* HAPPlatformRunLoopState
    position,   \* where the HAP thread is in HAPPlatformRunLoopRun
    queue,      \* happl_msgq: for each event, whether it has a context
    heap,       \* contexts in happl_msg_heap
    event,      \* the event whose callback runs
    work        \* operations and callbacks that may still be begun

loopVars == <<state, position, queue, heap, event, work>>
vars == <<storeVars, loopVars>>

Init ==
    /\ InitStore
    /\ state = "Idle"
    /\ position = "start"
    /\ queue = <<>>
    /\ heap = 0
    /\ event = FALSE
    /\ work = MaxWork

\* A thread that is in no operation of the store and may begin something.  The
\* work queue is not stopped by the end of the run loop, only by the restart.
Free(t) ==
    /\ position # "restarted" /\ work > 0
    /\ op[t].phase = "none"
    /\ t = Hap => position = "callback"

Operation(t) ==
    /\ Free(t)
    /\ Operate(t)
    /\ work' = work - 1
    /\ UNCHANGED <<state, position, queue, heap, event>>

Progress(t) ==
    /\ position # "restarted"
    /\ Continue(t)
    /\ UNCHANGED loopVars

\* HAPPlatformRunLoopScheduleCallback.  The copy of the context is not freed
\* if the queue is full.  No interrupt calls it; a context that is too large is
\* turned away before anything changes.
ScheduleCallback(t, context) ==
    /\ Free(t)
    /\ work' = work - 1
    /\ IF context /\ heap = HeapSize THEN UNCHANGED <<queue, heap>>
       ELSE /\ heap' = IF context THEN heap + 1 ELSE heap
            /\ queue' = IF Len(queue) = MaxElements THEN queue ELSE Append(queue, context)
    /\ UNCHANGED <<storeVars, state, position, event>>

\* HAPPlatformRunLoopRun
Run ==
    /\ position = "start"
    /\ position' = "get"
    /\ state' = "Running"
    /\ UNCHANGED <<storeVars, queue, heap, event, work>>

\* k_msgq_get and HAPPlatformRunLoopRunDispatchEvent up to the callback.
GetEvent ==
    /\ position = "get"
    /\ queue # <<>>
    /\ event' = Head(queue)
    /\ queue' = Tail(queue)
    /\ position' = "callback"
    /\ UNCHANGED <<storeVars, state, heap, work>>

\* Mutant: the context is not freed.
NeverFreed ==
    /\ position = "callback"
    /\ op[Hap].phase = "none" /\ ~enum[Hap].active
    /\ event' = FALSE
    /\ position' = "get"
    /\ UNCHANGED <<storeVars, state, queue, heap, work>>

\* The callback has returned.
EndCallback ==
    /\ position = "callback"
    /\ op[Hap].phase = "none" /\ ~enum[Hap].active
    /\ heap' = IF event THEN heap - 1 ELSE heap
    /\ event' = FALSE
    /\ position' = "get"
    /\ UNCHANGED <<storeVars, state, queue, work>>

\* HAPPlatformRunLoopStop, called by a callback.
Stop ==
    /\ position = "callback"
    /\ op[Hap].phase = "none"
    /\ state = "Running"
    /\ state' = "Stopping"
    /\ UNCHANGED <<storeVars, position, queue, heap, event, work>>

\* Mutant: the run loop does not wait for the store.
ExitBusy ==
    /\ position = "get"
    /\ queue = <<>>
    /\ state = "Stopping"
    /\ state' = "Idle"
    /\ position' = "exited"
    /\ UNCHANGED <<storeVars, queue, heap, event, work>>

\* The end of HAPPlatformRunLoopRun: the queue is empty, the loop was told to
\* stop, and the store is not busy.
Exit ==
    /\ position = "get"
    /\ queue = <<>>
    /\ state = "Stopping" /\ ~busy
    /\ state' = "Idle"
    /\ position' = "exited"
    /\ UNCHANGED <<storeVars, queue, heap, event, work>>

\* HAPPlatformRunLoopRelease, or the end of hap_enable: sys_reboot.
Release ==
    /\ position = "exited"
    /\ position' = "restarted"
    /\ UNCHANGED <<storeVars, state, queue, heap, event, work>>

\* The wait for an event ends after a second without one, and the loop goes
\* round; or the accessory restarts, which is an initial state.
Wait ==
    /\ \/ position = "get" /\ queue = <<>>
       \/ position = "restarted"
    /\ UNCHANGED vars

Next ==
    \/ \E t \in Threads : Operation(t) \/ Progress(t)
    \/ \E t \in Threads, context \in BOOLEAN : ScheduleCallback(t, context)
    \/ Run \/ GetEvent \/ EndCallback \/ Stop \/ Exit \/ Release
    \/ Wait

\* A thread that is not waiting goes on, and the run loop looks at the queue
\* and at its state at least once a second.
Fairness ==
    /\ \A t \in Threads : WF_vars(Progress(t))
    /\ WF_vars(Run) /\ WF_vars(GetEvent) /\ WF_vars(EndCallback) /\ WF_vars(Exit)

Spec == Init /\ [][Next]_vars /\ Fairness

-----------------------------------------------------------------------------
(* Properties.                                                             *)

TypeOK ==
    /\ StoreTypeOK
    /\ state \in {"Idle", "Running", "Stopping"}
    /\ position \in {"start", "get", "callback", "exited", "restarted"}
    /\ Len(queue) <= MaxElements
    /\ heap \in 0 .. HeapSize

\* When the run loop ends no operation of the store is in the middle of its
\* writes to the flash: the busy flag, which one thread sets and the other may
\* clear, is set as long as any of them writes ("Exit run loop if requested",
\* HAPPlatformRunLoop.c:153).
ExitWaitsForWrites ==
    [][position = "get" /\ position' = "exited" => \A t \in Threads : ~Writing(t)]_vars

\* No context is lost or freed twice: the heap holds one for each event that has
\* one, in the queue or in its callback, and grows beyond them only when a full
\* queue turns an event away (happl_msg_heap, HAPPlatformRunLoop.c:216).
Held == Cardinality({i \in DOMAIN queue : queue[i]}) + (IF event THEN 1 ELSE 0)
ContextsAccounted ==
    [][\/ heap' - Held' = heap - Held
       \/ Len(queue) = MaxElements /\ queue' = queue /\ heap' = heap + 1]_vars

\* A run loop that was told to stop ends, whatever the threads do with the
\* store until then: no return of an operation leaves it busy
\* (HAPPlatformRunLoopStop, HAPPlatformRunLoop.c:164).
StopHonoured == state = "Stopping" ~> state = "Idle"

\* The data of every caller of the store are persisted before the run loop
\* ends: no thread is in an operation that changes the flash, not even before
\* it has the mutex ("When the run loop is requested to stop it is ensured
\* that pending data of the linked key-value store is persisted",
\* HAPPlatformRunLoop+Init.h:73).
PendingDataPersisted ==
    position = "exited" =>
        \A t \in Threads : op[t].kind \in {"set", "remove", "purge"} => op[t].phase # "waiting"

=============================================================================
