------------------------ MODULE FirmwareUpdateProofs ------------------------
(***************************************************************************)
(* The safety properties of FirmwareUpdate, for all delays and any size of *)
(* an image.  One inductive invariant carries them.                        *)
(***************************************************************************)
EXTENDS FirmwareUpdate, TLAPS

\* The places in a request where the flash may be needed next.
Using == {"restart", "started", "enter", "cancel", "write"}

\* A chunk is under way and fits the image; what is written was written in
\* update mode.
RequestInv ==
    /\ smp \in Using \cup {"chunk", "wake", "schedule"} => written < Chunks
    /\ smp \in {"schedule", "cancel", "write"} => updateMode
    /\ written > 0 => updateMode

\* The flag was false, or the flash was woken, or the timer has expired since.
FlashInv ==
    /\ SleepingFlashIsFlagged
    /\ updateMode /\ smp \in Using => flashAwake \/ pausedSince
    /\ smp = "reboot" \/ resetting # "nobody" => flashAwake \/ pausedSince

\* What is left of a delay and what has passed make up the whole of it.
DelayInv ==
    /\ ~updateMode => dfuNotStarted = NotRunning /\ failedToFinish = NotRunning /\ ~began
    /\ smp = "schedule" => ~began
    /\ dfuNotStarted # NotRunning => ~began /\ age + dfuNotStarted >= StartTime
    /\ failedToFinish # NotRunning => age + failedToFinish >= FinishTime

UpdateInv == UpdateTypeOK /\ RequestInv /\ FlashInv /\ DelayInv /\ TimeoutsAreDue

-----------------------------------------------------------------------------
\* A timer that does not run, or just starts, is in its range.
LEMMA DelayRanges ==
  /\ NotRunning \in NotRunning .. PauseTime /\ PauseTime \in NotRunning .. PauseTime
  /\ NotRunning \in NotRunning .. StartTime /\ StartTime \in NotRunning .. StartTime
  /\ NotRunning \in NotRunning .. FinishTime /\ FinishTime \in NotRunning .. FinishTime
  /\ 0 \in 0 .. FinishTime /\ 0 \in 0 .. Chunks
  BY UpdateAssumption DEF NotRunning

LEMMA UpdateInitial == UpdateInit => UpdateInv
<1> SUFFICES ASSUME UpdateInit PROVE UpdateInv
  OBVIOUS
<1>1. UpdateTypeOK
  BY DelayRanges DEF UpdateInit, UpdateTypeOK
<1>2. RequestInv /\ FlashInv
  BY UpdateAssumption DEF UpdateInit, RequestInv, FlashInv, SleepingFlashIsFlagged, Using
<1>3. DelayInv /\ TimeoutsAreDue
  BY DEF UpdateInit, DelayInv, TimeoutsAreDue
<1>4. QED
  BY <1>1, <1>2, <1>3 DEF UpdateInv

\* A restart leads back to the initial state.
LEMMA RestartStep == ASSUME Restarted PROVE UpdateInv'
<1>1. UpdateTypeOK'
  BY DelayRanges DEF Restarted, UpdateTypeOK
<1>2. RequestInv' /\ FlashInv'
  BY UpdateAssumption DEF Restarted, RequestInv, FlashInv, SleepingFlashIsFlagged, Using
<1>3. DelayInv' /\ TimeoutsAreDue'
  BY DEF Restarted, DelayInv, TimeoutsAreDue
<1>4. QED
  BY <1>1, <1>2, <1>3 DEF UpdateInv

\* A chunk is announced or written, or the server looks at the update mode.
LEMMA RequestSteps ==
  ASSUME UpdateInv, UploadRequest \/ ChunkAnnounced \/ DfuStarted \/ WriteChunk \/ DfuStopped
  PROVE  UpdateInv'
<1> USE UpdateAssumption
      DEF UpdateInv, UpdateTypeOK, RequestInv, FlashInv, SleepingFlashIsFlagged, DelayInv,
          TimeoutsAreDue, Using, NotRunning, Running, powerVars, modeVars
<1>1. CASE UploadRequest
  BY <1>1 DEF UploadRequest
<1>2. CASE ChunkAnnounced
  <2>1. UpdateTypeOK'
    BY <1>2, DelayRanges DEF ChunkAnnounced
  <2>2. RequestInv'
    BY <1>2 DEF ChunkAnnounced
  <2>3. FlashInv'
    BY <1>2 DEF ChunkAnnounced
  <2>4. DelayInv' /\ TimeoutsAreDue'
    BY <1>2 DEF ChunkAnnounced
  <2>5. QED
    BY <2>1, <2>2, <2>3, <2>4
<1>3. CASE DfuStarted
  BY <1>3 DEF DfuStarted
<1>4. CASE WriteChunk
  BY <1>4 DEF WriteChunk
<1>5. CASE DfuStopped
  BY <1>5 DEF DfuStopped
<1>6. QED
  BY <1>1, <1>2, <1>3, <1>4, <1>5

\* The update mode is entered, or its first time-out cancelled.
LEMMA ModeSteps ==
  ASSUME UpdateInv, SetUpdateMode \/ WakeAndSchedule \/ CancelNotStarted \/ EnterUpdateMode
  PROVE  UpdateInv'
<1> USE UpdateAssumption
      DEF UpdateInv, UpdateTypeOK, RequestInv, FlashInv, SleepingFlashIsFlagged, DelayInv,
          TimeoutsAreDue, Using, NotRunning, Running, powerVars, modeVars, Schedule
<1>1. CASE SetUpdateMode
  BY <1>1 DEF SetUpdateMode
<1>2. CASE WakeAndSchedule
  BY <1>2 DEF WakeAndSchedule
<1>3. CASE CancelNotStarted
  BY <1>3 DEF CancelNotStarted
<1>4. CASE EnterUpdateMode
  BY <1>4 DEF EnterUpdateMode
<1>5. QED
  BY <1>1, <1>2, <1>3, <1>4

\* A timer expires, a thread resets the accessory, or time passes.
LEMMA TimeSteps ==
  ASSUME UpdateInv, DfuPaused \/ ExitDfuMode \/ HapRestart \/ Reboot \/ OsReset \/ UpdateTick
  PROVE  UpdateInv'
<1> USE UpdateAssumption
      DEF UpdateInv, UpdateTypeOK, RequestInv, FlashInv, SleepingFlashIsFlagged, DelayInv,
          TimeoutsAreDue, Using, NotRunning, Running, powerVars, modeVars
<1>1. CASE DfuPaused
  <2>1. UpdateTypeOK'
    BY <1>1, DelayRanges DEF DfuPaused
  <2>2. RequestInv' /\ FlashInv'
    BY <1>1 DEF DfuPaused
  <2>3. DelayInv' /\ TimeoutsAreDue'
    BY <1>1 DEF DfuPaused
  <2>4. QED
    BY <2>1, <2>2, <2>3
<1>2. CASE ExitDfuMode
  <2>1. UpdateTypeOK' /\ RequestInv' /\ FlashInv' /\ DelayInv'
    BY <1>2 DEF ExitDfuMode, WakeForReset
  <2>2. age >= IF began THEN FinishTime ELSE StartTime
    BY <1>2 DEF ExitDfuMode
  <2>3. TimeoutsAreDue'
    BY <1>2, <2>2 DEF ExitDfuMode, WakeForReset
  <2>4. QED
    BY <2>1, <2>3
<1>3. CASE HapRestart
  BY <1>3 DEF HapRestart, WakeForReset
<1>4. CASE Reboot \/ OsReset
  BY <1>4, RestartStep DEF Reboot, OsReset
<1>5. CASE UpdateTick
  BY <1>5 DEF UpdateTick, Left
<1>6. QED
  BY <1>1, <1>2, <1>3, <1>4, <1>5

LEMMA UpdateInductive == UpdateInv /\ [UpdateNext]_updateVars => UpdateInv'
<1> SUFFICES ASSUME UpdateInv, [UpdateNext]_updateVars PROVE UpdateInv'
  OBVIOUS
<1>1. CASE UploadRequest \/ SmpStep
  BY <1>1, RequestSteps, ModeSteps DEF SmpStep
<1>2. CASE EnterUpdateMode
  BY <1>2, ModeSteps
<1>3. CASE DfuPaused \/ ExitDfuMode \/ HapRestart \/ Reboot \/ OsReset \/ UpdateTick
  BY <1>3, TimeSteps
<1>4. CASE Undefined \/ UNCHANGED updateVars
  BY <1>4 DEF Undefined, updateVars, UpdateInv, UpdateTypeOK, RequestInv, FlashInv,
              SleepingFlashIsFlagged, DelayInv, TimeoutsAreDue
<1>5. QED
  BY <1>1, <1>2, <1>3, <1>4 DEF UpdateNext

LEMMA UpdateInvariant == UpdateSpec => []UpdateInv
<1>1. UpdateSpec => UpdateInit /\ [][UpdateNext]_updateVars
  BY DEF UpdateSpec
<1>2. QED
  BY <1>1, UpdateInitial, UpdateInductive, PTL

-----------------------------------------------------------------------------
\* Timers, counts and places stay in their ranges, for all delays.
THEOREM UpdateTypeCorrect == UpdateSpec => []UpdateTypeOK
<1>1. UpdateInv => UpdateTypeOK
  BY DEF UpdateInv
<1>2. QED
  BY <1>1, UpdateInvariant, PTL

\* In update mode a sleeping flash is marked as paused, so the next chunk wakes
\* it, wherever the interrupt of the timer comes in bluetooth_smp.c:101.
THEOREM SleepFlagged == UpdateSpec => []SleepingFlashIsFlagged
<1>1. UpdateInv => SleepingFlashIsFlagged
  BY DEF UpdateInv, FlashInv
<1>2. QED
  BY <1>1, UpdateInvariant, PTL

\* Chunks are written and resets made with the flash awake, but for a timer
\* that expires in between.
THEOREM FlashAwake == UpdateSpec => []FlashAwakeWhenUsed
<1>1. UpdateInv => FlashAwakeWhenUsed
  BY DEF UpdateInv, FlashInv, RequestInv, FlashAwakeWhenUsed, Using
<1>2. QED
  BY <1>1, UpdateInvariant, PTL

\* exit_dfu_mode resets the accessory after the whole of the time an upload has
\* to finish, or to start.
THEOREM NoEarlyReset == UpdateSpec => []TimeoutsAreDue
<1>1. UpdateInv => TimeoutsAreDue
  BY DEF UpdateInv
<1>2. QED
  BY <1>1, UpdateInvariant, PTL

=============================================================================
