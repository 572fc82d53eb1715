--------------------------- MODULE PlatformTimer ---------------------------
(***************************************************************************)
(* The timers of the platform, as HAPPlatformTimer.c keeps them: a pool of *)
(* slots, a list of the registered ones in the order of registration, one  *)
(* kernel timer and one work item of the system work queue.                *)
(*                                                                         *)
(* The kernel timer's interrupt submits the work item, and the handler of  *)
(* the work item runs one expired callback per submission, outside of the  *)
(* mutex.  So other threads can come between the steps of a call at three  *)
(* places: after its Initialize, which takes and gives back the mutex on   *)
(* its own, between the unlock and the submission of an immediate timer,   *)
(* and between the choice of a callback and its start.  The threads of     *)
(* this build are cooperative and switch at none of them; where            *)
(* "preemptible" holds, which it does from the start or never, they do.    *)
(*                                                                         *)
(* A client stands for a callback with its context.  It keeps the          *)
(* reference of its timer in a variable of its own, as the applications    *)
(* and the ADK do: it registers when the variable is empty, and empties    *)
(* it when it deregisters and when its callback starts.  A reference is    *)
(* the address of a slot, so a slot that is used again has the reference   *)
(* of its last user.                                                       *)
(***************************************************************************)
EXTENDS Integers, SequencesExt

CONSTANTS
    Clients,
    Limited,        \* clients that NordicUpdate_timer_should_be_blocked names
    MaxTimers,      \* kTimerStorage_MaxTimers
    BlackListSize,  \* BLACK_LIST_MAX_ELEMENT
    MaxTime         \* bound: the clock stops here

ASSUME TimerAssumption ==
    /\ Limited \subseteq Clients
    /\ "none" \notin Clients
    /\ MaxTimers \in Nat \ {0}
    /\ BlackListSize \in Nat
    /\ MaxTime \in Nat

VARIABLES
    timerRepo,          \* timer_repo: who uses each slot, until when
    submittedTimers,    \* submitted_timers, slots in the order of the list
    kernelTimer,        \* when kernel_isr_timer expires, or Stopped
    workPending,        \* the work item is in the queue
    worker,             \* what the system work queue is at
    calling,            \* clients past Initialize: the reference they call with
    submitting,         \* clients that have yet to submit the work item
    blackList,          \* black_list
    updateMode,         \* NordicUpdate_is_update_mode
    initialized,        \* initialized
    handle,             \* each client's reference, 0 if it has none
    clock,              \* HAPPlatformClockGetCurrent
    preemptible         \* whether another thread can run where none blocks

vars == <<timerRepo, submittedTimers, kernelTimer, workPending, worker, calling,
          submitting, blackList, updateMode, initialized, handle, clock, preemptible>>

Slots == 1 .. MaxTimers
Times == 0 .. MaxTime
Stopped == -1
NotCalling == -1
NotUsed == [client |-> "none", deadline |-> 0]
Idle == [phase |-> "idle"]

Init ==
    /\ timerRepo = [s \in Slots |-> NotUsed]
    /\ submittedTimers = <<>>
    /\ kernelTimer = Stopped
    /\ workPending = FALSE
    /\ worker = Idle
    /\ calling = [c \in Clients |-> NotCalling]
    /\ submitting = {}
    /\ blackList = {}
    /\ updateMode = FALSE
    /\ initialized = FALSE
    /\ handle = [c \in Clients |-> 0]
    /\ clock = 0
    /\ preemptible \in BOOLEAN

\* A thread other than the one that has just left the mutex gets to run.
Switch ==
    \/ preemptible
    \/ /\ submitting = {} /\ worker.phase # "picked"
       /\ \A c \in Clients : calling[c] = NotCalling

-----------------------------------------------------------------------------
(* Helpers.                                                                *)

FreeSlots(repo) == {s \in Slots : repo[s] = NotUsed}

\* PlaceInRepo takes the first free slot.
PlaceInRepo(repo) == Min(FreeSlots(repo))

\* Mutant: only the head of the list is looked at.
HeadDeadline(repo, list) ==
    IF list = <<>> THEN Stopped
    ELSE IF repo[Head(list)].deadline > clock THEN repo[Head(list)].deadline ELSE clock

\* GetNextTimerDeadline and RescheduleTimer: the kernel timer is stopped, and
\* started for the first deadline of the list, at once if it has passed.
RescheduleTimer(repo, list) ==
    IF list = <<>> THEN Stopped
    ELSE Max({Min({repo[s].deadline : s \in Range(list)}), clock})

\* Initialize: the first one clears the pool and the list, and its k_work_init
\* may lose the place of a work item that is still in the queue.  (What that
\* does to the other items of the queue is not part of the model.)
Initialize ==
    /\ initialized' = TRUE
    /\ IF initialized THEN UNCHANGED <<timerRepo, submittedTimers, workPending>>
       ELSE /\ timerRepo' = [s \in Slots |-> NotUsed]
            /\ submittedTimers' = <<>>
            /\ workPending' \in {workPending, FALSE}

\* Mutant: NordicUpdate_timer_should_be_blocked is not asked.
AnyToBlackList(c) ==
    blackList' = IF Cardinality(blackList) < BlackListSize THEN blackList \cup {c} ELSE blackList

\* AddTimerToBlackList, for the timers of the ADK that a firmware update stops.
AddTimerToBlackList(c) ==
    blackList' = IF c \in Limited /\ Cardinality(blackList) < BlackListSize
                 THEN blackList \cup {c} ELSE blackList

\* Mutant: the condition of the black list is not asked.
BlackListed(c) == c \in blackList

\* The loop over black_list in WorkHandler.
ShouldBeBlocked(c) == c \in blackList /\ updateMode

-----------------------------------------------------------------------------
(* The operations.                                                         *)

\* HAPPlatformTimerRegister and HAPPlatformTimerDeregister up to their own lock.
\* A client calls the one or the other, one at a time.
Call(c) ==
    /\ Switch
    /\ calling[c] = NotCalling
    /\ c \notin submitting
    /\ calling' = [calling EXCEPT ![c] = handle[c]]
    /\ Initialize
    /\ UNCHANGED <<kernelTimer, worker, submitting, blackList, updateMode, handle, clock,
                   preemptible>>

\* HAPPlatformTimerRegister.  An immediate timer stops the kernel timer and
\* submits the work item after the unlock.
Register(c, deadline) ==
    /\ calling[c] = 0
    /\ calling' = [calling EXCEPT ![c] = NotCalling]
    /\ AddTimerToBlackList(c)
    /\ \/ /\ FreeSlots(timerRepo) = {}
          /\ UNCHANGED <<timerRepo, submittedTimers, handle, kernelTimer, submitting>>
       \/ /\ FreeSlots(timerRepo) # {}
          /\ LET s == PlaceInRepo(timerRepo)
             IN  /\ timerRepo' = [timerRepo EXCEPT ![s] = [client |-> c, deadline |-> deadline]]
                 /\ submittedTimers' = Append(submittedTimers, s)
                 /\ handle' = [handle EXCEPT ![c] = s]
          /\ \/ /\ deadline <= clock
                /\ kernelTimer' = Stopped
                /\ submitting' = submitting \cup {c}
             \/ /\ deadline > clock
                /\ kernelTimer' = RescheduleTimer(timerRepo', submittedTimers')
                /\ UNCHANGED submitting
    /\ UNCHANGED <<workPending, worker, updateMode, initialized, clock, preemptible>>

\* The k_work_submit that ends the registration of an immediate timer.
SubmitImmediate(c) ==
    /\ c \in submitting
    /\ submitting' = submitting \ {c}
    /\ workPending' = TRUE
    /\ UNCHANGED <<timerRepo, submittedTimers, kernelTimer, worker, calling, blackList,
                   updateMode, initialized, handle, clock, preemptible>>

\* Mutant: the timer leaves the list and keeps its slot.
UnclearedDeregister(c) ==
    /\ calling[c] \in Slots
    /\ calling' = [calling EXCEPT ![c] = NotCalling]
    /\ submittedTimers' = RemoveFirst(submittedTimers, calling[c])
    /\ kernelTimer' = RescheduleTimer(timerRepo, submittedTimers')
    /\ handle' = [handle EXCEPT ![c] = 0]
    /\ UNCHANGED <<timerRepo, workPending, worker, submitting, blackList, updateMode,
                   initialized, clock, preemptible>>

\* Mutant: a timer that is due is left to the handler.
DueTimerLeft(c) ==
    /\ calling[c] \in Slots
    /\ calling' = [calling EXCEPT ![c] = NotCalling]
    /\ LET found == calling[c] \in Range(submittedTimers) /\ timerRepo[calling[c]].deadline > clock
       IN  /\ timerRepo' = IF found THEN [timerRepo EXCEPT ![calling[c]] = NotUsed] ELSE timerRepo
           /\ submittedTimers' = IF found THEN RemoveFirst(submittedTimers, calling[c])
                                 ELSE submittedTimers
    /\ kernelTimer' = RescheduleTimer(timerRepo', submittedTimers')
    /\ handle' = [handle EXCEPT ![c] = 0]
    /\ UNCHANGED <<workPending, worker, submitting, blackList, updateMode, initialized, clock,
                   preemptible>>

\* HAPPlatformTimerDeregister.  The list is searched from its head; a reference
\* that is not in it is logged.
Deregister(c) ==
    /\ calling[c] \in Slots
    /\ calling' = [calling EXCEPT ![c] = NotCalling]
    /\ timerRepo' = IF calling[c] \in Range(submittedTimers)
                    THEN [timerRepo EXCEPT ![calling[c]] = NotUsed] ELSE timerRepo
    /\ submittedTimers' = RemoveFirst(submittedTimers, calling[c])
    /\ kernelTimer' = RescheduleTimer(timerRepo', submittedTimers')
    /\ handle' = [handle EXCEPT ![c] = 0]
    /\ UNCHANGED <<workPending, worker, submitting, blackList, updateMode, initialized, clock,
                   preemptible>>

\* HAPPlatformDeregisterAllADKTimers, when the ADK is torn down.  The kernel
\* timer runs on; k_work_init may lose the place of the work item.
DeregisterAll ==
    /\ Switch
    /\ timerRepo' = [s \in Slots |-> NotUsed]
    /\ submittedTimers' = <<>>
    /\ initialized' = FALSE
    /\ workPending' \in {workPending, FALSE}
    /\ handle' = [c \in Clients |-> 0]
    /\ UNCHANGED <<kernelTimer, worker, calling, submitting, blackList, updateMode, clock,
                   preemptible>>

TimerHandlerISR ==
    /\ kernelTimer # Stopped
    /\ kernelTimer <= clock
    /\ kernelTimer' = Stopped
    /\ workPending' = TRUE
    /\ UNCHANGED <<timerRepo, submittedTimers, worker, calling, submitting, blackList, updateMode,
                   initialized, handle, clock, preemptible>>

\* The places in the list of the timers that have expired.
Expired == {i \in DOMAIN submittedTimers : timerRepo[submittedTimers[i]].deadline <= clock}

\* WorkHandler up to the unlock: the first expired timer of the list leaves
\* it and the pool; without one the kernel timer is started again.
WorkHandler ==
    /\ Switch
    /\ workPending
    /\ worker = Idle
    /\ workPending' = FALSE
    /\ \/ /\ Expired = {}
          /\ kernelTimer' = RescheduleTimer(timerRepo, submittedTimers)
          /\ UNCHANGED <<timerRepo, submittedTimers, worker>>
       \/ /\ Expired # {}
          /\ LET s == submittedTimers[Min(Expired)]
             IN  /\ submittedTimers' = RemoveFirst(submittedTimers, s)
                 /\ timerRepo' = [timerRepo EXCEPT ![s] = NotUsed]
                 /\ worker' = [phase |-> "picked", client |-> timerRepo[s].client, timer |-> s]
          /\ UNCHANGED kernelTimer
    /\ UNCHANGED <<calling, submitting, blackList, updateMode, initialized, handle, clock,
                   preemptible>>

\* The callback starts.  The client's first act is to empty its variable.
StartCallback ==
    /\ worker.phase = "picked"
    /\ ~ShouldBeBlocked(worker.client)
    /\ worker' = [worker EXCEPT !.phase = "running"]
    /\ handle' = [handle EXCEPT ![worker.client] = 0]
    /\ UNCHANGED <<timerRepo, submittedTimers, kernelTimer, workPending, calling, submitting,
                   blackList, updateMode, initialized, clock, preemptible>>

\* Mutant: the handler counts on the kernel timer for the timers that are left.
UnsubmittedEnd ==
    /\ \/ worker.phase = "running"
       \/ worker.phase = "picked" /\ ShouldBeBlocked(worker.client)
    /\ worker' = Idle
    /\ UNCHANGED <<timerRepo, submittedTimers, kernelTimer, workPending, calling, submitting,
                   blackList, updateMode, initialized, handle, clock, preemptible>>

\* The callback returns, or it is on the black list and is not called at all;
\* the work item is submitted again for the timers that are left.
EndCallback ==
    /\ \/ worker.phase = "running"
       \/ worker.phase = "picked" /\ ShouldBeBlocked(worker.client)
    /\ worker' = Idle
    /\ workPending' = TRUE
    /\ UNCHANGED <<timerRepo, submittedTimers, kernelTimer, calling, submitting, blackList,
                   updateMode, initialized, handle, clock, preemptible>>

\* NordicUpdate_enter_update_mode; only a reset leaves the mode.
EnterUpdateMode ==
    /\ Switch
    /\ ~updateMode
    /\ updateMode' = TRUE
    /\ UNCHANGED <<timerRepo, submittedTimers, kernelTimer, workPending, worker, calling, submitting,
                   blackList, initialized, handle, clock, preemptible>>

Tick ==
    /\ clock < MaxTime
    /\ clock' = clock + 1
    /\ UNCHANGED <<timerRepo, submittedTimers, kernelTimer, workPending, worker, calling, submitting,
                   blackList, updateMode, initialized, handle, preemptible>>

Next ==
    \/ \E c \in Clients :
          \/ Call(c)
          \/ \E deadline \in Times : Register(c, deadline)
          \/ SubmitImmediate(c)
          \/ Deregister(c)
    \/ DeregisterAll
    \/ TimerHandlerISR
    \/ WorkHandler
    \/ StartCallback
    \/ EndCallback
    \/ EnterUpdateMode
    \/ Tick

Spec == Init /\ [][Next]_vars

\* Time passes, interrupts are taken, and a thread that is in a call goes on with
\* it.  The work queue's thread, when it has work, runs after one of the times
\* that the others block, and a callback returns.
Fairness ==
    /\ WF_vars(Tick) /\ WF_vars(TimerHandlerISR)
    /\ SF_vars(WorkHandler \/ StartCallback \/ EndCallback)
    /\ \A c \in Clients :
          WF_vars((\E deadline \in Times : Register(c, deadline)) \/ SubmitImmediate(c)
                     \/ Deregister(c))

FairSpec == Spec /\ Fairness

-----------------------------------------------------------------------------
(* Properties.                                                             *)

TypeOK ==
    /\ timerRepo \in [Slots -> [client : Clients, deadline : Times] \cup {NotUsed}]
    /\ submittedTimers \in Seq(Slots)
    /\ kernelTimer \in Times \cup {Stopped}
    /\ workPending \in BOOLEAN
    /\ worker \in {Idle} \cup [phase : {"picked", "running"}, client : Clients, timer : Slots]
    /\ calling \in [Clients -> Slots \cup {0, NotCalling}]
    /\ submitting \subseteq Clients
    /\ blackList \subseteq Limited
    /\ updateMode \in BOOLEAN
    /\ initialized \in BOOLEAN
    /\ handle \in [Clients -> Slots \cup {0}]
    /\ clock \in Times
    /\ preemptible \in BOOLEAN

\* The slots in use are the slots in the list, each once: none is leaked and
\* none is handed out twice (PlaceInRepo, ClearTimer).
SlotsAccounted ==
    /\ Range(submittedTimers) = {s \in Slots : timerRepo[s] # NotUsed}
    /\ IsInjective(submittedTimers)

\* While a timer is registered something is under way that makes the handler
\* look at the list in time: the work item is queued, about to be submitted or
\* submitted when the callback ends, or the kernel timer expires no later than
\* the timer is due (RescheduleTimer, k_work_submit).
WakeupArranged ==
    submittedTimers # <<>> =>
        \/ workPending
        \/ worker # Idle
        \/ submitting # {}
        \/ /\ kernelTimer # Stopped
           /\ \A s \in Range(submittedTimers) :
                 kernelTimer <= timerRepo[s].deadline \/ kernelTimer <= clock

Registered(c, s) == s \in Range(submittedTimers) /\ timerRepo[s].client = c

\* A registered timer does not stay in the list forever, whatever the other
\* clients do (the list is served in order, k_work_submit after each callback):
\* again and again there is a time at which it is not in it.
EveryTimerIsServed == \A c \in Clients, s \in Slots : []<>~Registered(c, s)

\* A callback that starts finds its own timer in its variable, as
\* IdentifyTimerExpired asserts (lock app.c:786): it was not deregistered and
\* registered anew in between, as long as threads switch only where they block.
CallbackFindsItsTimer ==
    worker.phase = "picked" /\ ~preemptible => handle[worker.client] = worker.timer

\* A client that deregisters its timer removes no other client's timer.
RemovesOwnTimer(c) ==
    Deregister(c) => \A s \in Range(submittedTimers) :
                        timerRepo[s].client # c => s \in Range(submittedTimers')

\* Without a firmware update, and while threads switch only where they block,
\* no client removes the timer of another one (HAPPlatformTimerDeregister and
\* the reuse of references).  In update mode the work handler drops a timer
\* whose owner keeps the reference, and the owner may later remove another's.
DeregisterRemovesOwn ==
    [][\A c \in Clients : ~updateMode /\ ~preemptible => RemovesOwnTimer(c)]_vars

=============================================================================
