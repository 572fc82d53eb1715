--------------------------- MODULE FirmwareUpdate ---------------------------
(***************************************************************************)
(* The firmware update over SMP, as samples/common/src/bluetooth_smp.c     *)
(* guards it: the update mode with its two time-outs that reset the        *)
(* accessory, and the external flash, which sleeps from the start, is      *)
(* woken for the update and sent to sleep by a timer when no part of the   *)
(* image comes for a second.                                               *)
(*                                                                         *)
(* dfu_mode_cb runs in the work queue of the SMP server, a preemptible     *)
(* thread, inside the handler of an upload request, which is external: a   *)
(* chunk is announced first, then, if it is the first one, the start of    *)
(* the update, then it is written, and a failure stops the update.  The    *)
(* two work items run in the system work queue, enter_update_mode is also  *)
(* open to the HAP thread; both are cooperative threads and come between   *)
(* any two steps of the SMP server, and the interrupt of the pause timer   *)
(* comes between any two steps at all, as soon as it is due.               *)
(***************************************************************************)
EXTENDS Integers

CONSTANTS
    PauseTime,      \* DFU_PAUSED_TIMEOUT_MILLIS, in ticks
    StartTime,      \* delay of dfu_not_started_handler
    FinishTime,     \* delay of failed_to_finish_update
    Chunks          \* bound: requests it takes to upload an image

ASSUME UpdateAssumption ==
    /\ PauseTime \in Nat \ {0}
    /\ StartTime \in Nat \ {0}
    /\ FinishTime \in Nat /\ StartTime <= FinishTime
    /\ Chunks \in Nat \ {0}

VARIABLES
    updateMode,         \* update_mode
    isDfuPaused,        \* is_dfu_paused
    flashAwake,         \* the external flash is awake
    dfuPausedTimer,     \* ticks dfu_paused_timer has left, or NotRunning
    dfuNotStarted,      \* the same of dfu_not_started_handler
    failedToFinish,     \* the same of failed_to_finish_update
    smp,                \* where the SMP server is in a request
    written,            \* chunks of the image in the flash
    resetting,          \* who has woken the flash and calls sys_reboot next
    age,                \* history: ticks since the update mode was entered
    began,              \* history: an upload has begun in this update mode
    pausedSince         \* history: the pause timer has expired since the flag
                        \* was last looked at or the flash woken for a reset

updateVars == <<updateMode, isDfuPaused, flashAwake, dfuPausedTimer, dfuNotStarted,
                failedToFinish, smp, written, resetting, age, began, pausedSince>>
powerVars == <<isDfuPaused, flashAwake, dfuPausedTimer, pausedSince>>
modeVars == <<updateMode, dfuNotStarted, failedToFinish, age, began>>

NotRunning == -1

\* AppCreate initialises the external flash and sends it to sleep.
UpdateInit ==
    /\ updateMode = FALSE /\ isDfuPaused = FALSE /\ flashAwake = FALSE
    /\ dfuPausedTimer = NotRunning
    /\ dfuNotStarted = NotRunning /\ failedToFinish = NotRunning
    /\ smp = "idle" /\ written = 0 /\ resetting = "nobody"
    /\ age = 0 /\ began = FALSE /\ pausedSince = FALSE

\* A thread may take a step: no interrupt is due, no cooperative thread is
\* about to reset, and the behaviour is still defined.
Running == dfuPausedTimer # 0 /\ resetting = "nobody" /\ smp # "undefined"

-----------------------------------------------------------------------------
(* The SMP server.                                                         *)

\* A request with a chunk, which may be the first one of an image again.
UploadRequest ==
    /\ Running
    /\ smp = "idle"
    /\ smp' = "chunk"
    /\ written' \in {0, written} \ {Chunks}
    /\ UNCHANGED <<powerVars, modeVars, resetting>>

\* Mutant: the flag is cleared only after the flash has been woken.
ClearedAfterWake ==
    /\ Running
    /\ \/ /\ smp = "chunk"
          /\ smp' = IF isDfuPaused THEN "wake" ELSE "restart"
          /\ pausedSince' = FALSE
          /\ UNCHANGED <<isDfuPaused, flashAwake, dfuPausedTimer>>
       \/ /\ smp = "wake"
          /\ smp' = "restart"
          /\ flashAwake' = TRUE
          /\ UNCHANGED <<isDfuPaused, dfuPausedTimer, pausedSince>>
       \/ /\ smp = "restart"
          /\ smp' = IF written = 0 THEN "started" ELSE "write"
          /\ isDfuPaused' = FALSE
          /\ dfuPausedTimer' = PauseTime
          /\ UNCHANGED <<flashAwake, pausedSince>>
    /\ UNCHANGED <<modeVars, written, resetting>>

\* MGMT_EVT_OP_IMG_MGMT_DFU_CHUNK: the flag is looked at and cleared, which is
\* one step because nothing else clears it; the flash is woken; the pause timer
\* is started anew.
ChunkAnnounced ==
    /\ Running
    /\ \/ /\ smp = "chunk"
          /\ smp' = IF isDfuPaused THEN "wake" ELSE "restart"
          /\ isDfuPaused' = FALSE
          /\ pausedSince' = FALSE
          /\ UNCHANGED <<flashAwake, dfuPausedTimer>>
       \/ /\ smp = "wake"
          /\ smp' = "restart"
          /\ flashAwake' = TRUE
          /\ UNCHANGED <<isDfuPaused, dfuPausedTimer, pausedSince>>
       \/ /\ smp = "restart"
          /\ smp' = IF written = 0 THEN "started" ELSE "write"
          /\ dfuPausedTimer' = PauseTime
          /\ UNCHANGED <<isDfuPaused, flashAwake, pausedSince>>
    /\ UNCHANGED <<modeVars, written, resetting>>

\* MGMT_EVT_OP_IMG_MGMT_DFU_STARTED, the looks at update_mode: the second one,
\* at the start of enter_update_mode, finds what the first one would.
DfuStarted ==
    /\ Running
    /\ smp = "started"
    /\ smp' = IF updateMode THEN "cancel" ELSE "enter"
    /\ UNCHANGED <<powerVars, modeVars, written, resetting>>

\* NordicUpdate_enter_update_mode, the assignment.  If the HAP thread has
\* entered the mode since the look at it, scheduled work items will be
\* initialised, and what follows is undefined.
SetUpdateMode ==
    /\ Running
    /\ smp = "enter"
    /\ updateMode' = TRUE
    /\ smp' = IF updateMode THEN "undefined" ELSE "schedule"
    /\ UNCHANGED <<powerVars, dfuNotStarted, failedToFinish, age, began, written, resetting>>

\* The two delays, from now.
Schedule ==
    /\ dfuNotStarted' = StartTime
    /\ failedToFinish' = FinishTime

\* The rest of it: the flash is woken and the work items scheduled.
WakeAndSchedule ==
    /\ Running
    /\ smp = "schedule"
    /\ smp' = "cancel"
    /\ flashAwake' = TRUE
    /\ Schedule
    /\ UNCHANGED <<updateMode, age, began, isDfuPaused, dfuPausedTimer, pausedSince,
                   written, resetting>>

\* Mutant: the other work item is cancelled.
CancelFinish ==
    /\ Running
    /\ smp = "cancel"
    /\ smp' = "write"
    /\ failedToFinish' = NotRunning
    /\ began' = TRUE
    /\ UNCHANGED <<powerVars, updateMode, dfuNotStarted, age, written, resetting>>

\* MGMT_EVT_OP_IMG_MGMT_DFU_STARTED, the end: cancelled also when it is due.
CancelNotStarted ==
    /\ Running
    /\ smp = "cancel"
    /\ smp' = "write"
    /\ dfuNotStarted' = NotRunning
    /\ began' = TRUE
    /\ UNCHANGED <<powerVars, updateMode, failedToFinish, age, written, resetting>>

\* The chunk is written, after the erasure of the flash if it is the first.
WriteChunk ==
    /\ Running
    /\ smp = "write"
    /\ \/ smp' = "idle" /\ written' = written + 1
       \/ smp' = "stopped" /\ UNCHANGED written
    /\ UNCHANGED <<powerVars, modeVars, resetting>>

\* MGMT_EVT_OP_IMG_MGMT_DFU_STOPPED, before the reset.
DfuStopped ==
    /\ Running
    /\ smp = "stopped"
    /\ smp' = "reboot"
    /\ flashAwake' = TRUE
    /\ pausedSince' = FALSE
    /\ UNCHANGED <<isDfuPaused, dfuPausedTimer, modeVars, written, resetting>>

SmpStep ==
    \/ ChunkAnnounced \/ DfuStarted \/ SetUpdateMode \/ WakeAndSchedule \/ CancelNotStarted
    \/ WriteChunk \/ DfuStopped

-----------------------------------------------------------------------------
(* Timers and the other threads.                                           *)

\* dfu_paused_cb, in the interrupt of the timer.
DfuPaused ==
    /\ dfuPausedTimer = 0
    /\ smp # "undefined"
    /\ dfuPausedTimer' = NotRunning
    /\ isDfuPaused' = TRUE
    /\ flashAwake' = FALSE
    /\ pausedSince' = TRUE
    /\ UNCHANGED <<modeVars, smp, written, resetting>>

\* Mutant: a second call schedules the work items again.
EnterAgain ==
    /\ Running
    /\ updateMode' = TRUE
    /\ flashAwake' = TRUE
    /\ Schedule
    /\ UNCHANGED <<age, began, isDfuPaused, dfuPausedTimer, pausedSince, smp, written, resetting>>

\* NordicUpdate_enter_update_mode, called by the HAP thread.
EnterUpdateMode ==
    /\ Running
    /\ ~updateMode
    /\ updateMode' = TRUE
    /\ flashAwake' = TRUE
    /\ Schedule
    /\ UNCHANGED <<age, began, isDfuPaused, dfuPausedTimer, pausedSince, smp, written, resetting>>

\* Mutant: the flash is left as it is.
ResetAsleep(thread) ==
    /\ resetting' = thread
    /\ pausedSince' = FALSE
    /\ UNCHANGED <<isDfuPaused, flashAwake, dfuPausedTimer, modeVars, smp, written>>

\* The flash is woken for the boot loader, and sys_reboot is next.
WakeForReset(thread) ==
    /\ resetting' = thread
    /\ flashAwake' = TRUE
    /\ pausedSince' = FALSE
    /\ UNCHANGED <<isDfuPaused, dfuPausedTimer, modeVars, smp, written>>

\* exit_dfu_mode, the handler of both work items.
ExitDfuMode ==
    /\ Running
    /\ dfuNotStarted = 0 \/ failedToFinish = 0
    /\ WakeForReset("update")

\* HAPPlatformRunLoopRelease and the end of hap_enable: the run loop has ended.
HapRestart ==
    /\ Running
    /\ WakeForReset("hap")

\* sys_reboot, and the start.
Restarted ==
    /\ updateMode' = FALSE /\ isDfuPaused' = FALSE /\ flashAwake' = FALSE
    /\ dfuPausedTimer' = NotRunning
    /\ dfuNotStarted' = NotRunning /\ failedToFinish' = NotRunning
    /\ smp' = "idle" /\ written' = 0 /\ resetting' = "nobody"
    /\ age' = 0 /\ began' = FALSE /\ pausedSince' = FALSE

Reboot ==
    /\ \/ resetting # "nobody"
       \/ smp = "reboot" /\ Running
    /\ Restarted

\* The SMP server resets the accessory on request, as after an upload.
OsReset ==
    /\ Running
    /\ smp = "idle"
    /\ Restarted

Left(ticks) == IF ticks = NotRunning THEN NotRunning ELSE ticks - 1

\* Time passes once everything that is due has been served.
UpdateTick ==
    /\ smp # "undefined"
    /\ 0 \notin {dfuPausedTimer, dfuNotStarted, failedToFinish}
    /\ dfuPausedTimer' = Left(dfuPausedTimer)
    /\ dfuNotStarted' = Left(dfuNotStarted)
    /\ failedToFinish' = Left(failedToFinish)
    /\ age' = IF updateMode /\ age < FinishTime THEN age + 1 ELSE age
    /\ UNCHANGED <<updateMode, began, isDfuPaused, flashAwake, pausedSince, smp, written, resetting>>

\* The work items are corrupted, and nothing is known of what the program does.
Undefined == smp = "undefined" /\ UNCHANGED updateVars

UpdateNext ==
    \/ UploadRequest \/ SmpStep
    \/ DfuPaused \/ EnterUpdateMode \/ ExitDfuMode \/ HapRestart
    \/ Reboot \/ OsReset
    \/ UpdateTick \/ Undefined

\* Time passes, interrupts and work items are served, and the SMP server gets
\* to run.  Nobody has to send a request or to end the run loop.
UpdateFairness ==
    /\ WF_updateVars(SmpStep)
    /\ WF_updateVars(DfuPaused) /\ WF_updateVars(ExitDfuMode)
    /\ WF_updateVars(Reboot) /\ WF_updateVars(UpdateTick)

UpdateSpec == UpdateInit /\ [][UpdateNext]_updateVars /\ UpdateFairness

-----------------------------------------------------------------------------
(* Properties.                                                             *)

UpdateTypeOK ==
    /\ updateMode \in BOOLEAN /\ isDfuPaused \in BOOLEAN /\ flashAwake \in BOOLEAN
    /\ dfuPausedTimer \in NotRunning .. PauseTime
    /\ dfuNotStarted \in NotRunning .. StartTime
    /\ failedToFinish \in NotRunning .. FinishTime
    /\ smp \in {"idle", "chunk", "wake", "restart", "started", "enter", "schedule",
                "cancel", "write", "stopped", "reboot", "undefined"}
    /\ written \in 0 .. Chunks
    /\ resetting \in {"nobody", "update", "hap"}
    /\ age \in 0 .. FinishTime
    /\ began \in BOOLEAN /\ pausedSince \in BOOLEAN

\* In update mode a flash that sleeps is marked as paused, whenever the timer's
\* interrupt comes: otherwise no later chunk would wake it (the flag is cleared
\* before the flash is woken, bluetooth_smp.c:104, and set before it is sent to
\* sleep, bluetooth_smp.c:73).
SleepingFlashIsFlagged ==
    updateMode /\ ~flashAwake /\ smp \notin {"wake", "schedule", "undefined"} => isDfuPaused

\* A chunk is written, and the accessory resets itself, with the flash awake,
\* unless the pause timer has expired since the request looked at the flag, or
\* since the flash was woken for the reset (the five calls of
\* pm_qspi_nor_wake_up; the timer of the last chunk runs until
\* bluetooth_smp.c:107, and a second is not long for an erasure).
FlashAwakeWhenUsed ==
    smp \in {"write", "reboot"} \/ resetting # "nobody" => flashAwake \/ pausedSince

\* The time-outs reset the accessory only when they have to: with an upload
\* under way after the whole time there is to finish it, without one after the
\* time there is to start ("DFU did not start or could not complete",
\* bluetooth_smp.c:135).
TimeoutsAreDue ==
    resetting = "update" => age >= (IF began THEN FinishTime ELSE StartTime)

\* The update mode, which blocks timers of the ADK and keeps Bluetooth on, does
\* not last: however often it is entered and whatever is uploaded, the
\* accessory resets in the end (failed_to_finish_update, bluetooth_smp.c:155).
UpdateModeEnds == updateMode ~> ~updateMode \/ smp = "undefined"

=============================================================================
