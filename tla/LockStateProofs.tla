--------------------------- MODULE LockStateProofs ---------------------------
(***************************************************************************)
(* The lock and its keypad, for every limit and every window: a lock-out   *)
(* ends (KeypadReopens) and does not end too soon (LockoutHolds), what is  *)
(* saved is the state (QuietIsSaved), and the context names whoever asked  *)
(* for the target state (ContextIsActor).                                  *)
(*                                                                         *)
(* LockoutEnds is not inductive: a timer that is referenced has to be a    *)
(* timer that is registered, and the HAP thread must not take a request,   *)
(* or look at the log again, while it has still to register the timer.     *)
(*                                                                         *)
(* For the other three one invariant, SInv, says where each thread is in   *)
(* its save, what it knows when it goes on, and until when a timer runs:   *)
(* LockoutLasts speaks only of moments when nothing is under way, and each *)
(* step towards such a moment has to bring a part of it.                   *)
(***************************************************************************)
EXTENDS LockState, FiniteSetTheorems, SequenceTheorems, WellFoundedInduction, TLAPS

\* The reference and the registration come and go together.
TimerIsReal == keypadTimer => deadline # {}

\* A thread that has still to register the timer does nothing else before.
TimerComesNext ==
    thread.hap.phase \in {"off", "idle", "status"} => thread.hap.then # "timer"

ThreadsOK ==
    /\ DOMAIN thread = {"hap", "worker"}
    /\ \A t \in {"hap", "worker"} :
          thread[t] = [phase |-> thread[t].phase, then |-> thread[t].then, time |-> thread[t].time]
    /\ thread.hap.then \in {"idle", "status", "timer"}
    /\ thread = [t \in {"hap", "worker"} |-> thread[t]]

LInv == ThreadsOK /\ TimerIsReal /\ TimerComesNext /\ LockoutEnds

\* A step of a save changes the phase of its thread alone.
LEMMA PhaseShape ==
    ASSUME ThreadsOK, NEW t \in {"hap", "worker"}, NEW phase,
           thread' = [thread EXCEPT ![t].phase = phase]
    PROVE  /\ DOMAIN thread' = {"hap", "worker"}
           /\ thread' = [u \in {"hap", "worker"} |-> thread'[u]]
           /\ thread'[t] = [phase |-> phase, then |-> thread[t].then, time |-> thread[t].time]
           /\ \A u \in {"hap", "worker"} : u # t => thread'[u] = thread[u]
<1>1. thread[t] = [phase |-> thread[t].phase, then |-> thread[t].then, time |-> thread[t].time]
    BY DEF ThreadsOK
<1>2. DOMAIN thread = {"hap", "worker"}
    BY DEF ThreadsOK
<1>3. thread'[t] = [thread[t] EXCEPT !.phase = phase]
    BY <1>2
<1>4. [thread[t] EXCEPT !.phase = phase] = [phase |-> phase, then |-> thread[t].then, time |-> thread[t].time]
    <2> DEFINE p == thread[t].phase  th == thread[t].then  ti == thread[t].time
    <2>1. thread[t] = [phase |-> p, then |-> th, time |-> ti]
        BY <1>1
    <2> HIDE DEF p, th, ti
    <2>2. [thread[t] EXCEPT !.phase = phase] = [phase |-> phase, then |-> th, time |-> ti]
        BY <2>1
    <2> QED BY <2>2 DEF th, ti
<1> QED BY <1>2, <1>3, <1>4

\* A save by the HAP thread keeps the shape of the threads.
LEMMA SaveShape ==
    ASSUME ThreadsOK, NEW t \in {"hap", "worker"}, NEW then, NEW time, Save(t, then, time)
    PROVE  /\ DOMAIN thread' = {"hap", "worker"}
           /\ thread' = [u \in {"hap", "worker"} |-> thread'[u]]
           /\ thread'[t] = [phase |-> "save", then |-> then, time |-> time]
           /\ \A u \in {"hap", "worker"} : u # t => thread'[u] = thread[u]
BY DEF ThreadsOK, Save, At

LEMMA LInvInit == Init => LInv
BY DEF Init, LInv, ThreadsOK, TimerIsReal, TimerComesNext, LockoutEnds, At, Idle

\* A handler of a request starts where the thread has nothing to register.
LEMMA RequestKeeps ==
    ASSUME LInv, Ready, UNCHANGED <<keypadTimer, deadline, failure>>,
           \/ UNCHANGED thread
           \/ \E then \in {"idle", "status"}, time \in {None, clock} : Save("hap", then, time),
           closedBy' # "attempts" \/ UNCHANGED closedBy
    PROVE  LInv'
<1>1. thread.hap.phase = "idle" /\ thread.hap.then # "timer" /\ failure = "none"
    BY DEF Ready, HapAt, LInv, TimerComesNext
<1>2. closedBy = "attempts" => keypadTimer /\ deadline # {}
    BY <1>1 DEF LInv, LockoutEnds
<1>3. CASE UNCHANGED thread
    BY <1>1, <1>2, <1>3 DEF LInv, ThreadsOK, TimerIsReal, TimerComesNext, LockoutEnds
<1>4. ASSUME NEW then \in {"idle", "status"}, NEW time \in {None, clock}, Save("hap", then, time)
      PROVE  LInv'
    <2>1. /\ DOMAIN thread' = {"hap", "worker"}
          /\ thread' = [u \in {"hap", "worker"} |-> thread'[u]]
          /\ thread'.hap = [phase |-> "save", then |-> then, time |-> time]
          /\ thread'.worker = thread.worker
        BY <1>4, SaveShape DEF LInv
    <2> QED BY <1>2, <2>1 DEF LInv, ThreadsOK, TimerIsReal, TimerComesNext, LockoutEnds
<1> QED BY <1>3, <1>4

\* Every request of the lock's state goes through here.
LEMMA TargetKeeps ==
    ASSUME NEW s, NEW target, SetLockTargetState(s, target)
    PROVE  /\ \/ UNCHANGED thread
              \/ \E then \in {"idle", "status"}, time \in {None, clock} : Save("hap", then, time)
           /\ closedBy' # "attempts" \/ UNCHANGED closedBy
BY DEF SetLockTargetState, Opened

LEMMA LInvStep == LInv /\ [Next]_vars => LInv'
<1> SUFFICES ASSUME LInv, [Next]_vars PROVE LInv'
    OBVIOUS
<1> USE DEF LInv
<1>1. ASSUME NEW target \in TargetStates, NEW context \in {"HAP", None},
             NEW authorization \in BOOLEAN, LockTargetStateWrite(target, context, authorization)
      PROVE  LInv'
    BY <1>1, TargetKeeps, RequestKeeps DEF LockTargetStateWrite
<1>2. ASSUME NEW target \in TargetStates, LockStateChangeByNfc(target) PROVE LInv'
    BY <1>2, TargetKeeps, RequestKeeps DEF LockStateChangeByNfc
<1>3. CASE ToggleLockState
    BY <1>3, TargetKeeps, RequestKeeps DEF ToggleLockState
<1>4. CASE ToggleLockJammed
    BY <1>4, RequestKeeps DEF ToggleLockJammed
<1>5. ASSUME NEW current \in Reported, SetLockCurrentState(current) PROVE LInv'
    BY <1>5, RequestKeeps DEF SetLockCurrentState
<1>6. CASE WrongCode
    <2>1. CASE failure' # failure
        BY <1>6, <2>1 DEF WrongCode, Fail, Ready, HapAt, ThreadsOK, TimerIsReal, TimerComesNext, LockoutEnds
    <2>2. CASE failure' = failure
        BY <1>6, <2>2, RequestKeeps DEF WrongCode, Fail, Ready, HapAt
    <2> QED BY <2>1, <2>2
<1>7. CASE RightCode
    BY <1>7, TargetKeeps, RequestKeeps DEF RightCode
<1>8. ASSUME NEW active \in BOOLEAN, AccessCodeActiveWrite(active) PROVE LInv'
    BY <1>8, RequestKeeps DEF AccessCodeActiveWrite, Opened
<1>9. CASE SetKeypadStatus
    <2> DEFINE now == thread.hap.time
               time == LongestDisableTime(RefreshedLog(now), now)
    <2>1. CASE Fail("logged time")
        BY <1>9, <2>1 DEF SetKeypadStatus, Fail, HapAt, ThreadsOK, TimerIsReal, TimerComesNext, LockoutEnds
    <2>2. CASE ~Fail("logged time")
        <3>1. /\ HapAt("status") /\ UNCHANGED <<keypadTimer, deadline, failure>>
              /\ IF state'.active # state.active
                 THEN Save("hap", IF time > 0 THEN "timer" ELSE "idle", time)
                 ELSE thread' = [thread EXCEPT !.hap = IF time > 0 THEN At("timer", "idle", time) ELSE Idle]
              /\ IF time > 0 THEN closedBy' = "attempts"
                 ELSE closedBy' = "nobody" \/ UNCHANGED closedBy
            BY <1>9, <2>2 DEF SetKeypadStatus, Opened
        <3> HIDE DEF time, now
        <3>2. closedBy = "attempts" => keypadTimer /\ deadline # {}
            BY <3>1 DEF HapAt, TimerComesNext, LockoutEnds
        <3>3. CASE state'.active # state.active
            <4>1. /\ DOMAIN thread' = {"hap", "worker"}
                  /\ thread' = [u \in {"hap", "worker"} |-> thread'[u]]
                  /\ thread'.hap = [phase |-> "save", then |-> IF time > 0 THEN "timer" ELSE "idle", time |-> time]
                  /\ thread'.worker = thread.worker
                BY <3>1, <3>3, SaveShape
            <4> QED BY <3>1, <3>2, <4>1 DEF ThreadsOK, TimerIsReal, TimerComesNext, LockoutEnds
        <3>4. CASE ~(state'.active # state.active)
            <4>1. /\ DOMAIN thread' = {"hap", "worker"}
                  /\ thread' = [u \in {"hap", "worker"} |-> thread'[u]]
                  /\ thread'.hap = IF time > 0 THEN At("timer", "idle", time) ELSE Idle
                  /\ thread'.worker = thread.worker
                BY <3>1, <3>4 DEF ThreadsOK
            <4> QED BY <3>1, <3>2, <4>1 DEF ThreadsOK, TimerIsReal, TimerComesNext, LockoutEnds, At, Idle
        <3> QED BY <3>3, <3>4
    <2> QED BY <2>1, <2>2
<1>10. CASE EnableKeypadDisableTimer
    <2>1. keypadTimer' /\ deadline' # {}
        BY <1>10 DEF EnableKeypadDisableTimer, TimerIsReal
    <2>2. /\ DOMAIN thread' = {"hap", "worker"}
          /\ thread' = [u \in {"hap", "worker"} |-> thread'[u]]
          /\ thread'.hap = Idle
          /\ thread'.worker = thread.worker
        BY <1>10 DEF EnableKeypadDisableTimer, ThreadsOK
    <2> QED BY <2>1, <2>2 DEF ThreadsOK, TimerIsReal, TimerComesNext, LockoutEnds, At, Idle
<1>11. CASE TimerRefused
    BY <1>11 DEF TimerRefused, Fail, HapAt, ThreadsOK, TimerIsReal, TimerComesNext, LockoutEnds
<1>12. CASE HandleKeypadDisableTimerCallback
    <2>1. /\ DOMAIN thread' = {"hap", "worker"}
          /\ thread' = [u \in {"hap", "worker"} |-> thread'[u]]
          /\ thread'.worker = [phase |-> "save", then |-> "idle", time |-> None]
          /\ thread'.hap = thread.hap
        BY <1>12, SaveShape DEF HandleKeypadDisableTimerCallback
    <2> QED BY <1>12, <2>1 DEF HandleKeypadDisableTimerCallback, ThreadsOK, TimerIsReal, TimerComesNext, LockoutEnds
<1>13. CASE AppCreate
    <2>1. closedBy = "attempts" => keypadTimer /\ deadline # {}
        BY <1>13 DEF AppCreate, HapAt, TimerComesNext, LockoutEnds
    <2>2. /\ DOMAIN thread' = {"hap", "worker"}
          /\ thread' = [u \in {"hap", "worker"} |-> thread'[u]]
          /\ thread'.hap = At("status", "idle", clock)
          /\ thread'.worker = thread.worker
        BY <1>13 DEF AppCreate, ThreadsOK
    <2> QED BY <1>13, <2>1, <2>2 DEF AppCreate, ThreadsOK, TimerIsReal, TimerComesNext, LockoutEnds, At
<1>14. CASE AppAccessoryServerStart
    BY <1>14 DEF AppAccessoryServerStart, ThreadsOK, TimerIsReal, TimerComesNext, LockoutEnds
<1>15. ASSUME NEW t \in {"hap", "worker"}, BeginWrite(t) PROVE LInv'
    <2>1. /\ DOMAIN thread' = {"hap", "worker"}
          /\ thread' = [u \in {"hap", "worker"} |-> thread'[u]]
          /\ thread'[t] = [phase |-> "write", then |-> thread[t].then, time |-> thread[t].time]
          /\ \A u \in {"hap", "worker"} : u # t => thread'[u] = thread[u]
        BY <1>15, PhaseShape DEF BeginWrite
    <2>2. thread.hap.phase # "timer" \/ t # "hap"
        BY <1>15 DEF BeginWrite
    <2> QED BY <1>15, <2>1, <2>2 DEF BeginWrite, ThreadsOK, TimerIsReal, TimerComesNext, LockoutEnds
<1>16. ASSUME NEW t \in {"hap", "worker"}, EndWrite(t) PROVE LInv'
    <2>1. /\ DOMAIN thread' = {"hap", "worker"}
          /\ thread' = [u \in {"hap", "worker"} |-> thread'[u]]
          /\ thread'[t] = [phase |-> thread[t].then, then |-> thread[t].then, time |-> thread[t].time]
          /\ \A u \in {"hap", "worker"} : u # t => thread'[u] = thread[u]
        BY <1>16, PhaseShape DEF EndWrite
    <2>2. thread.hap.phase # "timer" \/ t # "hap"
        BY <1>16 DEF EndWrite
    <2> QED BY <1>16, <2>1, <2>2 DEF EndWrite, ThreadsOK, TimerIsReal, TimerComesNext, LockoutEnds
<1>17. CASE Tick
    BY <1>17 DEF Tick, ThreadsOK, TimerIsReal, TimerComesNext, LockoutEnds
<1>18. CASE Restart
    BY <1>18 DEF Restart, ThreadsOK, TimerIsReal, TimerComesNext, LockoutEnds, At, Idle
<1>19. CASE UNCHANGED vars
    BY <1>19 DEF vars, ThreadsOK, TimerIsReal, TimerComesNext, LockoutEnds
<1> QED
    BY <1>1, <1>2, <1>3, <1>4, <1>5, <1>6, <1>7, <1>8, <1>9, <1>10, <1>11, <1>12, <1>13,
       <1>14, <1>15, <1>16, <1>17, <1>18, <1>19
    DEF Next

\* A keypad that wrong codes have closed always has a timer that opens it
\* (SetKeypadStatus and EnableKeypadDisableTimer against the timer's callback).
THEOREM KeypadReopens == Spec => []LockoutEnds
<1>1. Init => LInv
    BY LInvInit
<1>2. LInv /\ [Next]_vars => LInv'
    BY LInvStep
<1>3. LInv => LockoutEnds
    BY DEF LInv
<1> QED BY <1>1, <1>2, <1>3, PTL DEF Spec

-----------------------------------------------------------------------------
(* Numbers, logs and the fields of a state.                                *)

\* The larger and the smaller of two numbers.
LEMMA MaxOfTwo ==
    ASSUME NEW a \in Int, NEW b \in Int
    PROVE  Max({a, b}) \in Int /\ Max({a, b}) >= a /\ Max({a, b}) >= b /\ Max({a, b}) \in {a, b}
<1>1. \E x \in {a, b} : \A y \in {a, b} : x >= y
    <2>1. CASE a >= b
        BY <2>1
    <2>2. CASE b >= a
        BY <2>2
    <2> QED BY <2>1, <2>2
<1> QED BY <1>1 DEF Max

LEMMA MinOfTwo ==
    ASSUME NEW a \in Int, NEW b \in Int
    PROVE  Min({a, b}) \in Int /\ Min({a, b}) <= a /\ Min({a, b}) <= b /\ Min({a, b}) \in {a, b}
<1>1. \E x \in {a, b} : \A y \in {a, b} : x <= y
    <2>1. CASE a <= b
        BY <2>1
    <2>2. CASE b <= a
        BY <2>2
    <2> QED BY <2>1, <2>2
<1> QED BY <1>1 DEF Min

\* A set of numbers up to n has a largest one.
LEMMA MaxExists ==
    ASSUME NEW n \in Nat, NEW S, S \subseteq 0..n, S # {}
    PROVE  Max(S) \in S
<1> DEFINE below == {n - x : x \in S}
<1>1. below \subseteq Nat /\ below # {}
    <2>1. \A x \in S : x \in 0..n /\ n - x \in Nat
        OBVIOUS
    <2> QED BY <2>1
<1>2. PICK m \in below : \A k \in below : <<k, m>> \notin OpToRel(<, Nat)
    BY <1>1, NatLessThanWellFounded, WFMin
<1>3. \A k \in below : ~(k < m)
    BY <1>1, <1>2 DEF OpToRel
<1>4. PICK x \in S : m = n - x
    OBVIOUS
<1>5. \A y \in S : ~(n - y < n - x)
    BY <1>3, <1>4
<1>6. \A y \in S : x >= y
    <2>1. \A y \in S : y \in 0..n
        OBVIOUS
    <2>2. \A a, b \in 0..n : ~(n - b < n - a) => a >= b
        OBVIOUS
    <2>3. x \in 0..n
        BY <2>1
    <2> QED BY <1>5, <2>1, <2>2, <2>3, Zenon
<1> QED BY <1>4, <1>6 DEF Max

\* What RefreshKeypadAttempts leaves of a log is a part of it.
LEMMA RefreshedPart ==
    ASSUME NEW log \in Seq(Nat), NEW now, NEW window
    PROVE  /\ Refreshed(log, now, window) \in Seq(Nat)
           /\ Len(Refreshed(log, now, window)) <= Len(log)
           /\ \A i \in DOMAIN Refreshed(log, now, window) :
                 \E j \in DOMAIN log : Refreshed(log, now, window)[i] = log[j]
<1> DEFINE old == {i \in DOMAIN log : now - log[i] > window}
           k == Max(old \cup {0})
<1>1. Len(log) \in Nat /\ DOMAIN log = 1..Len(log)
    BY LenProperties
<1>2. k \in 0..Len(log)
    <2>1. old \cup {0} \subseteq 0..Len(log) /\ old \cup {0} # {}
        BY <1>1
    <2> HIDE DEF old
    <2> QED BY <1>1, <2>1, MaxExists
<1> HIDE DEF k
<1>3. \A i \in k + 1 .. Len(log) : log[i] \in Nat
    BY <1>1, <1>2, ElementOfSeq
<1>4. /\ SubSeq(log, k + 1, Len(log)) \in Seq(Nat)
      /\ Len(SubSeq(log, k + 1, Len(log))) = Len(log) - k
      /\ \A i \in 1 .. Len(log) - k : SubSeq(log, k + 1, Len(log))[i] = log[k + i]
    <2>1. k + 1 \in Int /\ Len(log) \in Int /\ Len(log) - (k + 1) + 1 = Len(log) - k
        BY <1>1, <1>2
    <2>2. \A i \in 1 .. Len(log) - (k + 1) + 1 : SubSeq(log, k + 1, Len(log))[i] = log[k + 1 + i - 1]
        BY <1>3, <2>1, SubSeqProperties
    <2>3. \A i \in 1 .. Len(log) - k : k + 1 + i - 1 = k + i
        BY <1>1, <1>2
    <2>4. Len(SubSeq(log, k + 1, Len(log))) = IF k + 1 <= Len(log) THEN Len(log) - (k + 1) + 1 ELSE 0
        BY <1>3, <2>1, SubSeqProperties
    <2>5. Len(SubSeq(log, k + 1, Len(log))) = Len(log) - k
        <3>1. CASE k = Len(log)
            BY <1>1, <2>4, <3>1
        <3>2. CASE k + 1 <= Len(log)
            BY <2>1, <2>4, <3>2
        <3>3. k = Len(log) \/ k + 1 <= Len(log)
            <4>1. \A n \in Nat : \A m \in 0..n : m = n \/ m + 1 <= n
                OBVIOUS
            <4> QED BY <1>1, <1>2, <4>1, Zenon
        <3> QED BY <3>1, <3>2, <3>3
    <2>6. SubSeq(log, k + 1, Len(log)) \in Seq(Nat)
        BY <1>3, <2>1, SubSeqProperties
    <2> QED BY <2>1, <2>2, <2>3, <2>5, <2>6
<1>5. Refreshed(log, now, window) = SubSeq(log, k + 1, Len(log))
    BY DEF Refreshed, k
<1>6. ASSUME NEW i \in DOMAIN SubSeq(log, k + 1, Len(log))
      PROVE  \E j \in DOMAIN log : SubSeq(log, k + 1, Len(log))[i] = log[j]
    <2>1. DOMAIN SubSeq(log, k + 1, Len(log)) = 1 .. Len(log) - k
        BY <1>4, LenProperties
    <2>2. i \in 1 .. Len(log) - k /\ k + i \in 1 .. Len(log)
        BY <1>1, <1>2, <2>1
    <2> QED BY <1>1, <1>4, <2>2
<1>7. Len(log) - k <= Len(log)
    BY <1>1, <1>2
<1> QED BY <1>4, <1>5, <1>6, <1>7

\* The fields of a state, which the proofs need one by one.
LEMMA StateParts ==
    ASSUME NEW s \in StateSet
    PROVE  /\ s = [target |-> s.target, current |-> s.current, context |-> s.context,
                   active |-> s.active, ten |-> s.ten, hour |-> s.hour]
           /\ s.target \in TargetStates /\ s.current \in CurrentStates
           /\ s.context \in Sources \cup {None} /\ s.active \in BOOLEAN
           /\ s.ten \in Seq(Nat) /\ Len(s.ten) <= TenLimit
           /\ s.hour \in Seq(Nat) /\ Len(s.hour) <= HourLimit
BY DEF StateSet

LEMMA StateMade ==
    ASSUME NEW target \in TargetStates, NEW current \in CurrentStates,
           NEW context \in Sources \cup {None}, NEW active \in BOOLEAN,
           NEW ten \in Seq(Nat), Len(ten) <= TenLimit, NEW hour \in Seq(Nat), Len(hour) <= HourLimit
    PROVE  [target |-> target, current |-> current, context |-> context,
            active |-> active, ten |-> ten, hour |-> hour] \in StateSet
BY DEF StateSet

LEMMA DefaultTyped == DefaultState \in StateSet
<1>1. <<>> \in Seq(Nat) /\ Len(<<>>) <= TenLimit /\ Len(<<>>) <= HourLimit
    BY LockStateAssumption, EmptySeq
<1>2. "Unsecured" \in TargetStates /\ "Unsecured" \in CurrentStates
    BY DEF TargetStates, CurrentStates
<1> QED BY <1>1, <1>2, StateMade DEF DefaultState

\* SetLockTargetState leaves the context alone, and opens the keypad and clears
\* the log exactly with another target.
LEMMA WithTargetParts ==
    ASSUME NEW s \in StateSet, NEW target \in TargetStates, jammed \in BOOLEAN
    PROVE  /\ WithTarget(s, target) \in StateSet
           /\ WithTarget(s, target).context = s.context
           /\ s.target = target =>
                 /\ WithTarget(s, target).active = s.active
                 /\ WithTarget(s, target).ten = s.ten
                 /\ WithTarget(s, target).hour = s.hour
           /\ s.target # target =>
                 /\ WithTarget(s, target).active = TRUE
                 /\ WithTarget(s, target).ten = <<>>
                 /\ WithTarget(s, target).hour = <<>>
<1>1. PICK te, cu, co, ac, tn, ho :
           /\ s = [target |-> te, current |-> cu, context |-> co, active |-> ac, ten |-> tn, hour |-> ho]
           /\ te = s.target /\ cu = s.current /\ co = s.context /\ ac = s.active /\ tn = s.ten /\ ho = s.hour
    BY StateParts
<1>2. PICK d \in CurrentStates : d = DeviceState(target)
    BY DEF DeviceState, CurrentStates
<1>3. <<>> \in Seq(Nat) /\ Len(<<>>) = 0
    BY EmptySeq
<1>4. /\ co \in Sources \cup {None} /\ ac \in BOOLEAN
      /\ tn \in Seq(Nat) /\ Len(tn) <= TenLimit
      /\ ho \in Seq(Nat) /\ Len(ho) <= HourLimit
    BY <1>1, StateParts
<1>5. CASE s.target = target
    <2>1. WithTarget(s, target) =
            [target |-> target, current |-> d, context |-> co, active |-> ac, ten |-> tn, hour |-> ho]
        BY <1>1, <1>2, <1>5 DEF WithTarget
    <2>2. WithTarget(s, target) \in StateSet
        BY <1>4, <2>1, StateMade
    <2> QED BY <1>1, <1>5, <2>1, <2>2
<1>6. CASE s.target # target
    <2>1. WithTarget(s, target) =
            [target |-> target, current |-> d, context |-> co, active |-> TRUE, ten |-> <<>>, hour |-> <<>>]
        BY <1>1, <1>2, <1>6 DEF WithTarget
    <2>2. WithTarget(s, target) \in StateSet
        <3>1. \A b \in BOOLEAN :
                [target |-> target, current |-> d, context |-> co, active |-> b, ten |-> <<>>, hour |-> <<>>]
                    \in StateSet
            <4>1. Len(<<>>) <= TenLimit /\ Len(<<>>) <= HourLimit
                BY <1>3, LockStateAssumption
            <4> QED BY <1>3, <1>4, <4>1, StateMade
        <3> QED BY <2>1, <3>1
    <2>3. /\ WithTarget(s, target).context = co
          /\ WithTarget(s, target).active = TRUE
          /\ WithTarget(s, target).ten = <<>>
          /\ WithTarget(s, target).hour = <<>>
        BY <2>1
    <2>4. WithTarget(s, target).context = s.context
        BY <1>1, <2>3
    <2> QED BY <1>6, <2>2, <2>3, <2>4, Zenon
<1> QED BY <1>5, <1>6

\* A change of the context is one of nothing else.
LEMMA ContextParts ==
    ASSUME NEW s \in StateSet, NEW context \in Sources \cup {None}
    PROVE  /\ [s EXCEPT !.context = context] \in StateSet
           /\ [s EXCEPT !.context = context].context = context
           /\ [s EXCEPT !.context = context].target = s.target
           /\ [s EXCEPT !.context = context].current = s.current
           /\ [s EXCEPT !.context = context].active = s.active
           /\ [s EXCEPT !.context = context].ten = s.ten
           /\ [s EXCEPT !.context = context].hour = s.hour
<1>1. PICK te, cu, co, ac, tn, ho :
           /\ s = [target |-> te, current |-> cu, context |-> co, active |-> ac, ten |-> tn, hour |-> ho]
           /\ te = s.target /\ cu = s.current /\ co = s.context /\ ac = s.active /\ tn = s.ten /\ ho = s.hour
    BY StateParts
<1>2. /\ te \in TargetStates /\ cu \in CurrentStates /\ ac \in BOOLEAN
      /\ tn \in Seq(Nat) /\ Len(tn) <= TenLimit
      /\ ho \in Seq(Nat) /\ Len(ho) <= HourLimit
    BY <1>1, StateParts
<1>3. [s EXCEPT !.context = context] =
        [target |-> te, current |-> cu, context |-> context, active |-> ac, ten |-> tn, hour |-> ho]
    BY <1>1
<1>4. [s EXCEPT !.context = context] \in StateSet
    BY <1>2, <1>3, StateMade
<1> QED BY <1>1, <1>3, <1>4

\* A change of the keypad, with or without a new log, is one of nothing else.
LEMMA KeypadParts ==
    ASSUME NEW s \in StateSet, NEW active \in BOOLEAN,
           NEW ten \in Seq(Nat), Len(ten) <= TenLimit, NEW hour \in Seq(Nat), Len(hour) <= HourLimit,
           NEW w, w = [target |-> s.target, current |-> s.current, context |-> s.context,
                       active |-> active, ten |-> ten, hour |-> hour]
    PROVE  /\ w \in StateSet
           /\ w.target = s.target /\ w.current = s.current /\ w.context = s.context
           /\ w.active = active /\ w.ten = ten /\ w.hour = hour
<1>1. w \in StateSet
    <2>1. /\ s.target \in TargetStates /\ s.current \in CurrentStates
          /\ s.context \in Sources \cup {None}
        BY StateParts
    <2> QED BY <2>1, StateMade
<1>2. /\ w.target = s.target /\ w.current = s.current /\ w.context = s.context
      /\ w.ten = ten /\ w.hour = hour
    OBVIOUS
<1>3. w.active = active
    OBVIOUS
<1> QED BY <1>1, <1>2, <1>3

LEMMA ActiveParts ==
    ASSUME NEW s \in StateSet, NEW active \in BOOLEAN
    PROVE  /\ [s EXCEPT !.active = active] \in StateSet
           /\ [s EXCEPT !.active = active].target = s.target
           /\ [s EXCEPT !.active = active].current = s.current
           /\ [s EXCEPT !.active = active].context = s.context
           /\ [s EXCEPT !.active = active].active = active
           /\ [s EXCEPT !.active = active].ten = s.ten
           /\ [s EXCEPT !.active = active].hour = s.hour
<1>1. PICK ac, tn, ho :
           /\ s = [target |-> s.target, current |-> s.current, context |-> s.context,
                   active |-> ac, ten |-> tn, hour |-> ho]
           /\ tn = s.ten /\ ho = s.hour
    BY StateParts
<1>2. tn \in Seq(Nat) /\ Len(tn) <= TenLimit /\ ho \in Seq(Nat) /\ Len(ho) <= HourLimit
    BY <1>1, StateParts
<1> DEFINE w == [s EXCEPT !.active = active]
<1>3. w = [target |-> s.target, current |-> s.current, context |-> s.context,
           active |-> active, ten |-> tn, hour |-> ho]
    <2>1. PICK te, cu, co : te = s.target /\ cu = s.current /\ co = s.context
        OBVIOUS
    <2>2. s = [target |-> te, current |-> cu, context |-> co, active |-> ac, ten |-> tn, hour |-> ho]
        BY <1>1, <2>1
    <2>3. w = [target |-> te, current |-> cu, context |-> co, active |-> active, ten |-> tn, hour |-> ho]
        BY <2>2
    <2> QED BY <2>1, <2>3
<1> HIDE DEF w
<1>4. /\ w \in StateSet
      /\ w.target = s.target /\ w.current = s.current /\ w.context = s.context
      /\ w.active = active /\ w.ten = tn /\ w.hour = ho
    BY <1>2, <1>3, KeypadParts
<1> QED BY <1>1, <1>4 DEF w

LEMMA CurrentParts ==
    ASSUME NEW s \in StateSet, NEW current \in CurrentStates
    PROVE  /\ [s EXCEPT !.current = current] \in StateSet
           /\ [s EXCEPT !.current = current].context = s.context
           /\ [s EXCEPT !.current = current].active = s.active
           /\ [s EXCEPT !.current = current].ten = s.ten
           /\ [s EXCEPT !.current = current].hour = s.hour
<1>1. PICK te, cu, co, ac, tn, ho :
           /\ s = [target |-> te, current |-> cu, context |-> co, active |-> ac, ten |-> tn, hour |-> ho]
           /\ te = s.target /\ cu = s.current /\ co = s.context /\ ac = s.active /\ tn = s.ten /\ ho = s.hour
    BY StateParts
<1>2. /\ te \in TargetStates /\ co \in Sources \cup {None} /\ ac \in BOOLEAN
      /\ tn \in Seq(Nat) /\ Len(tn) <= TenLimit
      /\ ho \in Seq(Nat) /\ Len(ho) <= HourLimit
    BY <1>1, StateParts
<1>3. [s EXCEPT !.current = current] =
        [target |-> te, current |-> current, context |-> co, active |-> ac, ten |-> tn, hour |-> ho]
    BY <1>1
<1>4. [s EXCEPT !.current = current] \in StateSet
    <2>1. [target |-> te, current |-> current, context |-> co, active |-> ac, ten |-> tn, hour |-> ho] \in StateSet
        BY <1>2, StateMade
    <2> QED BY <1>3, <2>1
<1> QED BY <1>1, <1>3, <1>4

\* Nothing but the log changes when it is refreshed.
LEMMA RefreshedLogParts ==
    ASSUME state \in StateSet, NEW now
    PROVE  /\ RefreshedLog(now) \in StateSet
           /\ RefreshedLog(now) =
                [target |-> state.target, current |-> state.current, context |-> state.context,
                 active |-> state.active, ten |-> Refreshed(state.ten, now, TenMinutes),
                 hour |-> Refreshed(state.hour, now, Hour)]
           /\ RefreshedLog(now).ten = Refreshed(state.ten, now, TenMinutes)
           /\ RefreshedLog(now).hour = Refreshed(state.hour, now, Hour)
<1>1. PICK te, cu, co, ac, tn, ho :
           /\ state = [target |-> te, current |-> cu, context |-> co, active |-> ac, ten |-> tn, hour |-> ho]
           /\ te = state.target /\ cu = state.current /\ co = state.context
           /\ ac = state.active /\ tn = state.ten /\ ho = state.hour
    BY StateParts
<1>2. /\ te \in TargetStates /\ cu \in CurrentStates /\ co \in Sources \cup {None} /\ ac \in BOOLEAN
      /\ tn \in Seq(Nat) /\ Len(tn) <= TenLimit
      /\ ho \in Seq(Nat) /\ Len(ho) <= HourLimit
    BY <1>1, StateParts
<1>3. PICK rt, rh : rt = Refreshed(tn, now, TenMinutes) /\ rh = Refreshed(ho, now, Hour)
    OBVIOUS
<1>4. rt \in Seq(Nat) /\ Len(rt) <= Len(tn) /\ rh \in Seq(Nat) /\ Len(rh) <= Len(ho)
    BY <1>2, <1>3, RefreshedPart
<1>5. RefreshedLog(now) =
        [target |-> te, current |-> cu, context |-> co, active |-> ac, ten |-> rt, hour |-> rh]
    <2>1. tn = state.ten /\ ho = state.hour
        BY <1>1
    <2>2. RefreshedLog(now) = [state EXCEPT !.ten = rt, !.hour = rh]
        <3> QED BY <1>3, <2>1 DEF RefreshedLog
    <2>3. state = [target |-> te, current |-> cu, context |-> co, active |-> ac, ten |-> tn, hour |-> ho]
        BY <1>1
    <2> QED BY <2>2, <2>3
<1>6. Len(rt) <= TenLimit /\ Len(rh) <= HourLimit
    <2>1. Len(tn) \in Nat /\ Len(rt) \in Nat /\ Len(ho) \in Nat /\ Len(rh) \in Nat
        BY <1>2, <1>4, LenProperties
    <2> QED BY <1>2, <1>4, <2>1, LockStateAssumption
<1>7. RefreshedLog(now) \in StateSet
    <2>1. [target |-> te, current |-> cu, context |-> co, active |-> ac, ten |-> rt, hour |-> rh] \in StateSet
        <3> QED BY <1>2, <1>4, <1>6, StateMade
    <2> QED BY <1>5, <2>1
<1>8. RefreshedLog(now).ten = rt /\ RefreshedLog(now).hour = rh
    BY <1>5
<1> QED BY <1>1, <1>3, <1>5, <1>7, <1>8

-----------------------------------------------------------------------------

\* At the time now the log lets another code be tried.
Lets(log, limit, window, now) == Len(log) >= limit => log[1] + window <= now
BothLet(s, now) == Lets(s.ten, TenLimit, TenMinutes, now) /\ Lets(s.hour, HourLimit, Hour, now)

\* What one time lets, a later one lets.
LEMMA LetsLater ==
    ASSUME NEW s \in StateSet, NEW a \in Int, NEW b \in Int, a <= b, BothLet(s, a)
    PROVE  BothLet(s, b)
<1>1. ASSUME NEW log \in Seq(Nat), NEW limit \in Nat \ {0}, NEW window \in Nat,
             Lets(log, limit, window, a)
      PROVE  Lets(log, limit, window, b)
    <2>1. Len(log) >= limit => log[1] \in Nat
        BY LenProperties, ElementOfSeq
    <2> QED BY <1>1, <2>1 DEF Lets
<1> QED BY <1>1, StateParts, LockStateAssumption DEF BothLet

\* A log that is empty lets a code be tried.
LEMMA EmptyLets ==
    ASSUME NEW s, s.ten = <<>>, s.hour = <<>>, NEW now
    PROVE  BothLet(s, now)
BY LockStateAssumption, EmptySeq DEF BothLet, Lets

\* How long the keypad is closed: until both logs let a code be tried, and not
\* longer than an hour from now.
LEMMA DisableTimeBound ==
    ASSUME NEW log \in Seq(Nat), NEW limit \in Nat \ {0}, NEW window \in Nat, window <= Hour,
           NEW now \in Nat, \A i \in DOMAIN log : log[i] <= now
    PROVE  /\ DisableTime(log, limit, window, now) \in Int
           /\ \A time \in Int : time >= DisableTime(log, limit, window, now) =>
                 Lets(log, limit, window, now + time)
           /\ Lets(log, limit, window, now + Hour)
<1>1. Len(log) \in Nat /\ DOMAIN log = 1..Len(log)
    BY LenProperties
<1>2. CASE Len(log) >= limit
    <2>1. PICK first \in Nat : first = log[1] /\ first <= now
        BY <1>1, <1>2, ElementOfSeq
    <2>2. PICK hour \in Nat : hour = Hour
        BY LockStateAssumption
    <2>3. /\ window - (now - first) \in Int
          /\ \A time \in Int : time >= window - (now - first) => first + window <= now + time
          /\ first + window <= now + hour
        BY <2>1, <2>2
    <2> QED BY <1>2, <2>1, <2>2, <2>3 DEF DisableTime, Lets
<1>3. CASE ~(Len(log) >= limit)
    BY <1>3 DEF DisableTime, Lets
<1> QED BY <1>2, <1>3

LEMMA LongestBound ==
    ASSUME NEW s \in StateSet, NEW now \in Nat,
           \A i \in DOMAIN s.ten : s.ten[i] <= now, \A i \in DOMAIN s.hour : s.hour[i] <= now
    PROVE  /\ LongestDisableTime(s, now) \in Int
           /\ \A time \in Int : time >= LongestDisableTime(s, now) => BothLet(s, now + time)
           /\ BothLet(s, now + Hour)
<1> DEFINE a == DisableTime(s.ten, TenLimit, TenMinutes, now)
           b == DisableTime(s.hour, HourLimit, Hour, now)
<1>1. s.ten \in Seq(Nat) /\ s.hour \in Seq(Nat)
    BY StateParts
<1>2. /\ a \in Int
      /\ \A time \in Int : time >= a => Lets(s.ten, TenLimit, TenMinutes, now + time)
      /\ Lets(s.ten, TenLimit, TenMinutes, now + Hour)
    BY <1>1, DisableTimeBound, LockStateAssumption
<1>3. /\ b \in Int
      /\ \A time \in Int : time >= b => Lets(s.hour, HourLimit, Hour, now + time)
      /\ Lets(s.hour, HourLimit, Hour, now + Hour)
    BY <1>1, DisableTimeBound, LockStateAssumption
<1> HIDE DEF a, b
<1>4. Max({a, b}) \in Int /\ Max({a, b}) >= a /\ Max({a, b}) >= b
    BY <1>2, <1>3, MaxOfTwo
<1>5. LongestDisableTime(s, now) = Max({a, b})
    BY DEF LongestDisableTime, a, b
<1>6. ASSUME NEW time \in Int, time >= Max({a, b})
      PROVE  BothLet(s, now + time)
    <2>1. time >= a /\ time >= b
        BY <1>2, <1>3, <1>4, <1>6
    <2> QED BY <1>2, <1>3, <2>1 DEF BothLet
<1> QED BY <1>2, <1>3, <1>4, <1>5, <1>6 DEF BothLet

-----------------------------------------------------------------------------
(* The invariant, and the requests that the HAP thread takes.              *)

\* What a start would bring back is the state, as far as it matters.
Agrees(s) ==
    s.target = state.target /\ s.current = state.current /\ s.active = state.active

\* The copy belongs to the one thread that writes it.
OneWriter ==
    /\ \A t \in {"hap", "worker"} : thread[t].phase = "write" => copy # None
    /\ copy # None => \E t \in {"hap", "worker"} : thread[t].phase = "write"
    /\ ~(thread.hap.phase = "write" /\ thread.worker.phase = "write")

\* Unless a save is still to begin, what is stored, or about to be, is the state.
SaveUnderWay ==
    thread.hap.phase # "off" =>
        \/ \E t \in {"hap", "worker"} : thread[t].phase = "save"
        \/ copy # None /\ Agrees(copy)
        \/ copy = None /\ Agrees(Stored)

\* Before AppCreate nothing runs, and no server before the keypad is judged.
StartInOrder ==
    /\ thread.hap.phase = "off" =>
          ~serving /\ thread.worker.phase = "idle" /\ copy = None /\ deadline = {} /\ ~keypadTimer
    /\ ~serving => actor = None

\* What a thread knows when it goes on, and where it can be.
ThreadKnows ==
    /\ "status" \in {thread.hap.phase, thread.hap.then} =>
          thread.hap.time \in Nat /\ thread.hap.time <= clock
    /\ "timer" \in {thread.hap.phase, thread.hap.then} => thread.hap.time \in Nat \ {0}
    /\ thread.worker.phase \in {"idle", "save", "write"} /\ thread.worker.then = "idle"
    /\ thread.hap.phase \in {"off", "idle"} => thread.hap.then = "idle"
    /\ thread.hap.phase = "timer" => thread.hap.then # "status"
    /\ ~keypadTimer => deadline = {}

\* The keypad's log has changed and SetKeypadStatus has not looked at it.
Unjudged == thread.hap.phase = "off" \/ "status" \in {thread.hap.phase, thread.hap.then}

\* The HAP thread has still to register the timer.
Pending == "timer" \in {thread.hap.phase, thread.hap.then}

\* As long as nobody opens the keypad early, a timer runs only while the keypad
\* is closed, it runs until the log lets a code be tried, and the log of an open
\* keypad lets one be tried.
LockoutInv ==
    ~early =>
        /\ state.active \/ Unjudged \/ Pending => deadline = {}
        /\ Pending => ~state.active /\ BothLet(state, clock + Min({thread.hap.time, Hour}))
        /\ state.active /\ ~Unjudged => BothLet(state, clock)
        /\ \A time \in deadline : BothLet(state, time)

\* The part of TypeOK about the threads.
ThreadsTyped ==
    \A t \in {"hap", "worker"} :
        /\ thread[t].phase \in {"off", "idle", "save", "write", "status", "timer"}
        /\ thread[t].then \in {"idle", "status", "timer"}
        /\ thread[t].time \in Int \cup {None}

SInv ==
    /\ TypeOK /\ ThreadsOK /\ TimerComesNext /\ TimerIsReal
    /\ OneWriter /\ SaveUnderWay /\ StartInOrder /\ ContextNamesActor
    /\ ThreadKnows /\ LockoutInv

LEMMA SInvInit == Init => SInv
<1> SUFFICES ASSUME Init PROVE SInv
    OBVIOUS
<1>1. state = DefaultState /\ state \in StateSet
    BY DefaultTyped DEF Init
<1>2. TypeOK
    <2>1. Cardinality({}) <= 1
        BY FS_EmptySet
    <2>2. ThreadsTyped
        BY DEF Init, ThreadsTyped, At, Idle
    <2>3. useAAD \in BOOLEAN /\ jammed \in BOOLEAN /\ keypadTimer \in BOOLEAN /\ serving \in BOOLEAN
          /\ early \in BOOLEAN
        BY DEF Init
    <2>4. deadline \in SUBSET Nat /\ Cardinality(deadline) <= 1 /\ clock \in Nat
        BY <2>1 DEF Init
    <2> QED BY <1>1, <2>2, <2>3, <2>4 DEF Init, TypeOK, ThreadsTyped
<1>3. ThreadsOK /\ TimerComesNext /\ TimerIsReal
    BY LInvInit DEF LInv
<1>4. OneWriter /\ SaveUnderWay /\ StartInOrder /\ ContextNamesActor /\ ThreadKnows
    BY DEF Init, OneWriter, SaveUnderWay, StartInOrder, ContextNamesActor, ThreadKnows, At, Idle
<1>5. LockoutInv
    BY DEF Init, LockoutInv, Unjudged, Pending, At, Idle
<1> QED BY <1>2, <1>3, <1>4, <1>5 DEF SInv

\* A request leaves everything but the state, the threads and what the
\* properties remember; it saves what it changes, and it opens a keypad that
\* its timer keeps closed only as an early opening.
Request ==
    /\ Ready
    /\ UNCHANGED <<flash, copy, jammed, keypadTimer, deadline, clock, serving, failure, useAAD>>
    /\ state' \in StateSet
    /\ \/ thread' = thread /\ Agrees(state')
       \/ Save("hap", "idle", None)
       \/ Save("hap", "status", clock) /\ state.active /\ state'.active
    /\ actor' \in Sources \cup {None}
    /\ closedBy' \in {"nobody", "controller", "attempts"}
    /\ ~useAAD => state'.context = actor'
    /\ early' \in BOOLEAN
    /\ ~early' =>
          /\ ~early
          /\ \/ state'.active = state.active /\ state'.ten = state.ten /\ state'.hour = state.hour
             \/ ~state'.active /\ state.active
             \/ state'.ten = <<>> /\ state'.hour = <<>> /\ deadline = {}
             \/ Save("hap", "status", clock)

LEMMA RequestStep ==
    ASSUME SInv, Request
    PROVE  /\ OneWriter' /\ SaveUnderWay' /\ StartInOrder' /\ ContextNamesActor' /\ ThreadKnows'
           /\ LockoutInv' /\ ThreadsOK' /\ TimerComesNext' /\ TimerIsReal'
<1>1. thread.hap.phase = "idle" /\ thread.hap.then = "idle" /\ serving /\ failure = "none"
    BY DEF Request, Ready, HapAt, SInv, ThreadKnows
<1>2. \/ thread' = thread /\ Agrees(state')
      \/ \E then \in {"idle", "status"}, time \in {None, clock} :
            /\ thread'.hap = [phase |-> "save", then |-> then, time |-> time]
            /\ thread'.worker = thread.worker
            /\ then = "status" => time = clock /\ state.active /\ state'.active
    BY SaveShape DEF Request, SInv
<1>3. ThreadsOK' /\ TimerComesNext' /\ TimerIsReal'
    <2>1. CASE thread' = thread
        BY <2>1 DEF SInv, Request, ThreadsOK, TimerComesNext, TimerIsReal
    <2>2. ASSUME NEW then \in {"idle", "status"}, NEW time, Save("hap", then, time)
          PROVE  ThreadsOK' /\ TimerComesNext' /\ TimerIsReal'
        <3>1. /\ DOMAIN thread' = {"hap", "worker"}
              /\ thread' = [u \in {"hap", "worker"} |-> thread'[u]]
              /\ thread'.hap = [phase |-> "save", then |-> then, time |-> time]
              /\ thread'.worker = thread.worker
            BY <2>2, SaveShape DEF SInv
        <3> QED BY <3>1 DEF SInv, Request, ThreadsOK, TimerComesNext, TimerIsReal
    <2> QED BY <2>1, <2>2 DEF Request
<1>4. OneWriter' /\ SaveUnderWay'
    BY <1>1, <1>2 DEF SInv, Request, OneWriter, SaveUnderWay, Agrees, Stored
<1>5. StartInOrder' /\ ContextNamesActor'
    BY <1>1, <1>2 DEF SInv, Request, StartInOrder, ContextNamesActor
<1>6. ThreadKnows'
    BY <1>1, <1>2 DEF SInv, TypeOK, Request, ThreadKnows
<1>7. ASSUME ~early' PROVE LockoutInv'
    <2>1. ~early /\ ~Unjudged /\ ~Pending /\ ~Pending'
        BY <1>1, <1>2, <1>7 DEF Unjudged, Pending, Request
    <2>2. /\ state.active => deadline = {} /\ BothLet(state, clock)
          /\ \A time \in deadline : BothLet(state, time)
        BY <2>1 DEF SInv, LockoutInv
    <2>3. CASE state'.active = state.active /\ state'.ten = state.ten /\ state'.hour = state.hour
        <3>1. \A time : BothLet(state', time) <=> BothLet(state, time)
            BY <2>3 DEF BothLet
        <3>2. Unjudged' => state.active
            BY <1>1, <1>2 DEF Unjudged
        <3> QED BY <2>1, <2>2, <2>3, <3>1, <3>2 DEF LockoutInv, Request
    <2>4. CASE ~state'.active /\ state.active
        <3>1. ~Unjudged'
            BY <1>1, <1>2, <2>4 DEF Unjudged
        <3> QED BY <2>1, <2>2, <2>4, <3>1 DEF LockoutInv, Request
    <2>5. CASE state'.ten = <<>> /\ state'.hour = <<>> /\ deadline = {}
        <3>1. \A time : BothLet(state', time)
            BY <2>5, EmptyLets
        <3> QED BY <2>1, <2>5, <3>1 DEF LockoutInv, Request
    <2>6. CASE Save("hap", "status", clock)
        <3>1. thread'.hap = [phase |-> "save", then |-> "status", time |-> clock]
            BY <2>6, SaveShape DEF SInv
        <3>2. state.active /\ Unjudged'
            BY <1>1, <1>2, <3>1 DEF Unjudged
        <3> QED BY <2>1, <2>2, <3>2 DEF LockoutInv, Request
    <2> QED BY <1>7, <2>3, <2>4, <2>5, <2>6 DEF Request
<1>8. LockoutInv'
    BY <1>7 DEF LockoutInv
<1> QED BY <1>3, <1>4, <1>5, <1>6, <1>8

LEMMA RequestTyped ==
    ASSUME SInv, Request
    PROVE  TypeOK'
<1>1. /\ UNCHANGED <<flash, copy, jammed, keypadTimer, deadline, clock, serving, failure, useAAD>>
      /\ state' \in StateSet /\ actor' \in Sources \cup {None}
      /\ closedBy' \in {"nobody", "controller", "attempts"} /\ early' \in BOOLEAN
    BY DEF Request
<1>2. ThreadsTyped'
    <2>1. CASE thread' = thread
        BY <2>1 DEF SInv, TypeOK, ThreadsTyped
    <2>2. ASSUME NEW then \in {"idle", "status"}, NEW time \in {None, clock}, Save("hap", then, time)
          PROVE  ThreadsTyped'
        <3>1. /\ thread'.hap = [phase |-> "save", then |-> then, time |-> time]
              /\ thread'.worker = thread.worker
            BY <2>2, SaveShape DEF SInv
        <3>2. clock \in Int /\ ThreadsTyped
            <4>1. TypeOK
                BY DEF SInv
            <4>2. clock \in Nat
                BY <4>1 DEF TypeOK
            <4>3. ThreadsTyped
                BY <4>1 DEF TypeOK, ThreadsTyped
            <4> QED BY <4>2, <4>3
        <3>3. /\ thread'.hap.phase = "save" /\ thread'.hap.then = then /\ thread'.hap.time = time
              /\ time \in Int \cup {None}
            BY <3>1, <3>2
        <3>4. /\ thread'["hap"].phase = "save" /\ thread'["hap"].then \in {"idle", "status", "timer"}
              /\ thread'["hap"].time \in Int \cup {None}
            BY <3>3
        <3>5. /\ thread'["worker"].phase \in {"off", "idle", "save", "write", "status", "timer"}
              /\ thread'["worker"].then \in {"idle", "status", "timer"}
              /\ thread'["worker"].time \in Int \cup {None}
            BY <3>1, <3>2 DEF ThreadsTyped
        <3> QED BY <3>4, <3>5 DEF ThreadsTyped
    <2> QED BY <2>1, <2>2 DEF Request
<1> QED BY <1>1, <1>2 DEF SInv, TypeOK, ThreadsTyped

Unrelated == <<flash, copy, jammed, keypadTimer, deadline, clock, serving, failure, useAAD>>

\* While the keypad is open, no timer runs, unless it was opened early.
LEMMA OpenNoTimer ==
    ASSUME SInv, ~early, state.active \/ ~keypadTimer
    PROVE  deadline = {}
BY DEF SInv, LockoutInv, ThreadKnows

LEMMA TargetIsRequest ==
    ASSUME SInv, Ready, UNCHANGED Unrelated,
           NEW context \in Sources \cup {None}, NEW s, s = [state EXCEPT !.context = context],
           NEW target \in TargetStates, SetLockTargetState(s, target),
           actor' \in Sources \cup {None}, ~useAAD => context = actor'
    PROVE  Request
<1>1. TypeOK /\ state \in StateSet /\ jammed \in BOOLEAN /\ early \in BOOLEAN /\ keypadTimer \in BOOLEAN
    BY DEF SInv, TypeOK
<1>2. /\ s \in StateSet /\ s.context = context /\ s.target = state.target /\ s.current = state.current
      /\ s.active = state.active /\ s.ten = state.ten /\ s.hour = state.hour
    BY <1>1, ContextParts
<1>3. state' = WithTarget(s, target)
    BY DEF SetLockTargetState
<1>4. /\ state' \in StateSet /\ state'.context = context
      /\ s.target = target =>
            state'.active = s.active /\ state'.ten = s.ten /\ state'.hour = s.hour
      /\ s.target # target =>
            state'.active = TRUE /\ state'.ten = <<>> /\ state'.hour = <<>>
    BY <1>1, <1>2, <1>3, WithTargetParts
<1>5. \/ thread' = thread /\ Agrees(state')
      \/ Save("hap", "idle", None)
    BY <1>2 DEF SetLockTargetState, Agrees
<1>6. closedBy' \in {"nobody", "controller", "attempts"} /\ early' \in BOOLEAN
    <2>1. closedBy' = "nobody" \/ closedBy' = closedBy
        BY DEF SetLockTargetState, Opened
    <2>2. early' \in BOOLEAN
        BY <1>1 DEF SetLockTargetState, Opened
    <2> QED BY <2>1, <2>2 DEF SInv, TypeOK
<1>7. ASSUME ~early'
      PROVE  /\ ~early
             /\ \/ state'.active = state.active /\ state'.ten = state.ten /\ state'.hour = state.hour
                \/ state'.ten = <<>> /\ state'.hour = <<>> /\ deadline = {}
    <2>1. CASE s.target = target
        <3>1. early' = early
            BY <2>1 DEF SetLockTargetState
        <3> QED BY <1>2, <1>4, <1>7, <2>1, <3>1
    <2>2. CASE s.target # target
        <3>1. ~early /\ (s.active \/ ~keypadTimer)
            BY <1>7, <2>2 DEF SetLockTargetState, Opened
        <3>2. deadline = {}
            BY <1>2, <3>1, OpenNoTimer
        <3> QED BY <1>4, <2>2, <3>1, <3>2
    <2> QED BY <2>1, <2>2
<1>8. ~useAAD => state'.context = actor'
    BY <1>4
<1> QED BY <1>4, <1>5, <1>6, <1>7, <1>8 DEF Request, Unrelated

LEMMA LockTargetStateWriteIsRequest ==
    ASSUME SInv, NEW target \in TargetStates, NEW context \in {"HAP", None},
           NEW authorization \in BOOLEAN, LockTargetStateWrite(target, context, authorization)
    PROVE  Request
<1>1. context \in Sources \cup {None}
    BY DEF Sources
<1>2. Ready /\ UNCHANGED Unrelated
    BY DEF LockTargetStateWrite, Unrelated
<1>3. CASE ~(useAAD /\ ~authorization)
    <2>1. PICK s : s = [state EXCEPT !.context = context]
        OBVIOUS
    <2>2. SetLockTargetState(s, target) /\ actor' = context
        BY <1>3, <2>1 DEF LockTargetStateWrite
    <2> QED BY <1>1, <1>2, <2>1, <2>2, TargetIsRequest
<1>4. CASE useAAD /\ ~authorization
    <2>1. /\ state' = [state EXCEPT !.context = context]
          /\ UNCHANGED <<thread, closedBy, early, actor>>
        BY <1>4 DEF LockTargetStateWrite
    <2>2. state \in StateSet /\ actor \in Sources \cup {None} /\ early \in BOOLEAN
          /\ closedBy \in {"nobody", "controller", "attempts"}
        BY DEF SInv, TypeOK
    <2>3. /\ state' \in StateSet /\ Agrees(state') /\ state'.active = state.active
          /\ state'.ten = state.ten /\ state'.hour = state.hour
        BY <1>1, <2>1, <2>2, ContextParts DEF Agrees
    <2> QED BY <1>2, <1>4, <2>1, <2>2, <2>3 DEF Request, Unrelated
<1> QED BY <1>3, <1>4

LEMMA OtherTargetsAreRequests ==
    ASSUME SInv,
           \/ \E target \in TargetStates : LockStateChangeByNfc(target)
           \/ ToggleLockState
           \/ RightCode
    PROVE  Request
<1>1. PICK context \in Sources \cup {None}, target \in TargetStates :
          /\ SetLockTargetState([state EXCEPT !.context = context], target)
          /\ actor' = context
    BY DEF LockStateChangeByNfc, ToggleLockState, RightCode, Sources, TargetStates
<1>2. Ready /\ UNCHANGED Unrelated
    BY DEF LockStateChangeByNfc, ToggleLockState, RightCode, Unrelated
<1>3. PICK s : s = [state EXCEPT !.context = context]
    OBVIOUS
<1> QED BY <1>1, <1>2, <1>3, TargetIsRequest

LEMMA SetLockCurrentStateIsRequest ==
    ASSUME SInv, NEW current \in CurrentStates, SetLockCurrentState(current)
    PROVE  Request
<1>1. state \in StateSet /\ actor \in Sources \cup {None} /\ early \in BOOLEAN
      /\ closedBy \in {"nobody", "controller", "attempts"}
    BY DEF SInv, TypeOK
<1>2. state' = [state EXCEPT !.current = current] /\ Save("hap", "idle", None)
      /\ UNCHANGED <<actor, closedBy, early>> /\ Ready /\ UNCHANGED Unrelated
    BY DEF SetLockCurrentState, Unrelated
<1>3. /\ state' \in StateSet /\ state'.context = state.context /\ state'.active = state.active
      /\ state'.ten = state.ten /\ state'.hour = state.hour
    BY <1>1, <1>2, CurrentParts
<1>4. ~useAAD => state.context = actor
    BY <1>2 DEF SInv, ContextNamesActor, Ready
<1> QED BY <1>1, <1>2, <1>3, <1>4 DEF Request, Unrelated

LEMMA AccessCodeActiveWriteIsRequest ==
    ASSUME SInv, NEW active \in BOOLEAN, AccessCodeActiveWrite(active)
    PROVE  Request
<1>1. state \in StateSet /\ actor \in Sources \cup {None} /\ early \in BOOLEAN
      /\ closedBy \in {"nobody", "controller", "attempts"} /\ keypadTimer \in BOOLEAN
    BY DEF SInv, TypeOK
<1>2. UNCHANGED actor /\ Save("hap", "idle", None) /\ Ready /\ UNCHANGED Unrelated
    BY DEF AccessCodeActiveWrite, Unrelated
<1>3. ~useAAD => state.context = actor
    BY <1>2 DEF SInv, ContextNamesActor, Ready
<1>4. CASE active = TRUE
    <2>1. /\ ~state.active
          /\ state' = [state EXCEPT !.active = TRUE, !.ten = <<>>, !.hour = <<>>]
          /\ Opened
        BY <1>1, <1>4, StateParts DEF AccessCodeActiveWrite
    <2>2. PICK ac, tn, ho : state = [target |-> state.target, current |-> state.current, context |-> state.context,
                   active |-> ac, ten |-> tn, hour |-> ho]
        BY <1>1, StateParts
    <2>3. state' = [target |-> state.target, current |-> state.current, context |-> state.context,
                    active |-> TRUE, ten |-> <<>>, hour |-> <<>>]
        <3>1. PICK te, cu, co : te = state.target /\ cu = state.current /\ co = state.context
            OBVIOUS
        <3>2. state = [target |-> te, current |-> cu, context |-> co, active |-> ac, ten |-> tn, hour |-> ho]
            BY <2>2, <3>1
        <3>3. state' = [target |-> te, current |-> cu, context |-> co, active |-> TRUE, ten |-> <<>>, hour |-> <<>>]
            BY <2>1, <3>2
        <3> QED BY <3>1, <3>3
    <2>4. <<>> \in Seq(Nat) /\ Len(<<>>) <= TenLimit /\ Len(<<>>) <= HourLimit
        BY EmptySeq, LockStateAssumption
    <2>5. state' \in StateSet /\ state'.context = state.context /\ state'.ten = <<>> /\ state'.hour = <<>>
        <3>1. PICK b \in BOOLEAN : b = TRUE
            OBVIOUS
        <3>2. state' = [target |-> state.target, current |-> state.current, context |-> state.context,
                        active |-> b, ten |-> <<>>, hour |-> <<>>]
            BY <2>3, <3>1
        <3>3. PICK e : e = <<>>
            OBVIOUS
        <3>4. state' = [target |-> state.target, current |-> state.current, context |-> state.context,
                        active |-> b, ten |-> e, hour |-> e]
            BY <3>2, <3>3
        <3>5. e \in Seq(Nat) /\ Len(e) <= TenLimit /\ Len(e) <= HourLimit
            BY <2>4, <3>3
        <3>6. state' \in StateSet /\ state'.context = state.context /\ state'.ten = e /\ state'.hour = e
            BY <1>1, <3>4, <3>5, KeypadParts
        <3> QED BY <3>3, <3>6
    <2>6. closedBy' = "nobody" /\ early' = (early \/ keypadTimer)
        BY <2>1 DEF Opened
    <2>7. ~early' => ~early /\ deadline = {}
        BY <2>6, OpenNoTimer
    <2> QED BY <1>1, <1>2, <1>3, <2>5, <2>6, <2>7 DEF Request, Unrelated
<1>5. CASE active = FALSE
    <2>1. /\ state.active
          /\ state' = [state EXCEPT !.active = FALSE]
          /\ closedBy' = "controller" /\ UNCHANGED early
        BY <1>1, <1>5, StateParts DEF AccessCodeActiveWrite
    <2>2. state' \in StateSet /\ state'.context = state.context /\ state'.active = FALSE
        <3>1. PICK b \in BOOLEAN : b = FALSE
            OBVIOUS
        <3> QED BY <1>1, <2>1, <3>1, ActiveParts
    <2> QED BY <1>1, <1>2, <1>3, <2>1, <2>2 DEF Request, Unrelated
<1> QED BY <1>4, <1>5

\* A wrong code is a request that has its log judged next.
LEMMA WrongCodeIsRequest ==
    ASSUME SInv, WrongCode, failure' = failure
    PROVE  Request
<1>1. state \in StateSet /\ actor \in Sources \cup {None} /\ early \in BOOLEAN
      /\ closedBy \in {"nobody", "controller", "attempts"} /\ clock \in Nat
    BY DEF SInv, TypeOK
<1>2. PICK s : s = RefreshedLog(clock)
    OBVIOUS
<1>3. /\ UNCHANGED <<actor, closedBy, early>> /\ Save("hap", "status", clock) /\ Ready
      /\ UNCHANGED Unrelated /\ state.active
      /\ HasRoom(s.ten, TenLimit) /\ HasRoom(s.hour, HourLimit)
      /\ state' = [s EXCEPT !.ten = Append(@, clock), !.hour = Append(@, clock)]
    BY <1>2 DEF WrongCode, Unrelated, Fail, Ready, HapAt
<1>4. ~useAAD => state.context = actor
    BY <1>3 DEF SInv, ContextNamesActor, Ready
<1>5. s \in StateSet /\ s.context = state.context /\ s.active = state.active
    BY <1>1, <1>2, RefreshedLogParts
<1>6. PICK tn, ho : tn = Append(s.ten, clock) /\ ho = Append(s.hour, clock)
    OBVIOUS
<1>7. tn \in Seq(Nat) /\ Len(tn) <= TenLimit /\ ho \in Seq(Nat) /\ Len(ho) <= HourLimit
    <2>1. s.ten \in Seq(Nat) /\ s.hour \in Seq(Nat) /\ Len(s.ten) \in Nat /\ Len(s.hour) \in Nat
        BY <1>5, StateParts, LenProperties
    <2>2. /\ tn \in Seq(Nat) /\ Len(tn) = Len(s.ten) + 1
          /\ ho \in Seq(Nat) /\ Len(ho) = Len(s.hour) + 1
        BY <1>1, <1>6, <2>1, AppendProperties
    <2>3. Len(s.ten) < TenLimit /\ Len(s.hour) < HourLimit
        BY <1>3 DEF HasRoom
    <2>4. \A n \in Nat, limit \in Nat : n < limit => n + 1 <= limit
        OBVIOUS
    <2>5. TenLimit \in Nat /\ HourLimit \in Nat
        BY LockStateAssumption
    <2>6. Len(s.ten) + 1 <= TenLimit /\ Len(s.hour) + 1 <= HourLimit
        BY <2>1, <2>3, <2>4, <2>5, Zenon
    <2> QED BY <2>2, <2>6, Zenon
<1>8. PICK ac \in BOOLEAN : ac = s.active
    BY <1>5, StateParts
<1>9. state' = [target |-> s.target, current |-> s.current, context |-> s.context,
                active |-> ac, ten |-> tn, hour |-> ho]
    <2>1. PICK te, cu, co, otn, oho :
              /\ s = [target |-> te, current |-> cu, context |-> co, active |-> ac, ten |-> otn, hour |-> oho]
              /\ te = s.target /\ cu = s.current /\ co = s.context /\ otn = s.ten /\ oho = s.hour
        BY <1>5, <1>8, StateParts
    <2>2. state' = [s EXCEPT !.ten = tn, !.hour = ho]
        BY <1>3, <1>6
    <2>3. s = [target |-> te, current |-> cu, context |-> co, active |-> ac, ten |-> otn, hour |-> oho]
        BY <2>1
    <2>4. state' = [target |-> te, current |-> cu, context |-> co, active |-> ac, ten |-> tn, hour |-> ho]
        BY <2>2, <2>3
    <2> QED BY <2>1, <2>4
<1>10. state' \in StateSet /\ state'.context = s.context /\ state'.active = ac
    BY <1>5, <1>7, <1>9, KeypadParts
<1>11. state'.active
    BY <1>3, <1>5, <1>8, <1>10
<1> QED BY <1>1, <1>3, <1>4, <1>5, <1>10, <1>11 DEF Request, Unrelated

-----------------------------------------------------------------------------
(* The other steps.                                                        *)

\* Where the HAP thread goes, everything else about threads stays.
LEMMA HapShape ==
    ASSUME ThreadsOK, NEW r, thread' = [thread EXCEPT !.hap = r]
    PROVE  /\ DOMAIN thread' = {"hap", "worker"}
           /\ thread' = [u \in {"hap", "worker"} |-> thread'[u]]
           /\ thread'.hap = r
           /\ thread'.worker = thread.worker
BY DEF ThreadsOK

LEMMA Typed ==
    ASSUME SInv
    PROVE  /\ ThreadsTyped /\ TypeOK /\ state \in StateSet /\ flash \in StateSet \cup {None}
           /\ copy \in StateSet \cup {None} /\ clock \in Nat
           /\ keypadTimer \in BOOLEAN /\ early \in BOOLEAN /\ serving \in BOOLEAN
           /\ jammed \in BOOLEAN
           /\ closedBy \in {"nobody", "controller", "attempts"}
           /\ failure \in {"none", "logged time", "attempts", "timer"}
<1>1. TypeOK
    BY DEF SInv
<1> QED BY <1>1 DEF TypeOK, ThreadsTyped

\* The types after a step of the HAP thread that writes nothing.
LEMMA TypeStays ==
    ASSUME TypeOK, UNCHANGED <<flash, copy, keypadTimer, deadline, useAAD, actor, closedBy, early>>,
           thread' = thread \/ ThreadsTyped',
           state' \in StateSet, clock' \in Nat, jammed' \in BOOLEAN, serving' \in BOOLEAN,
           failure' \in {"none", "logged time", "attempts", "timer"}
    PROVE  TypeOK'
<1>1. /\ flash' \in StateSet \cup {None} /\ copy' \in StateSet \cup {None}
      /\ deadline' \in SUBSET Nat /\ Cardinality(deadline') <= 1
      /\ actor' \in Sources \cup {None} /\ closedBy' \in {"nobody", "controller", "attempts"}
    <2>1. /\ flash \in StateSet \cup {None} /\ copy \in StateSet \cup {None}
          /\ deadline \in SUBSET Nat /\ Cardinality(deadline) <= 1
          /\ actor \in Sources \cup {None} /\ closedBy \in {"nobody", "controller", "attempts"}
        BY DEF TypeOK
    <2> QED BY <2>1, Zenon
<1>2. keypadTimer' \in BOOLEAN /\ useAAD' \in BOOLEAN /\ early' \in BOOLEAN
    <2>1. keypadTimer \in BOOLEAN /\ useAAD \in BOOLEAN /\ early \in BOOLEAN
        BY Zenon DEF TypeOK
    <2> QED BY <2>1, Zenon
<1>3. ThreadsTyped'
    <2>1. ThreadsTyped
        BY Zenon DEF TypeOK, ThreadsTyped
    <2> QED BY <2>1, Zenon DEF ThreadsTyped
<1> QED BY <1>1, <1>2, <1>3, Zenon DEF TypeOK, ThreadsTyped

\* An assertion stops the accessory as it is.
LEMMA FailStep ==
    ASSUME SInv, NEW reason \in {"logged time", "attempts", "timer"}, Fail(reason)
    PROVE  SInv'
<1>1. TypeOK'
    <2>1. failure' \in {"none", "logged time", "attempts", "timer"}
        BY DEF Fail
    <2> QED BY <2>1, Typed, TypeStays DEF Fail
<1>2. LockoutInv'
    <2>1. \A time : BothLet(state', time) <=> BothLet(state, time)
        BY DEF Fail
    <2> QED BY <2>1 DEF SInv, LockoutInv, Fail, Unjudged, Pending
<1>3. ThreadsOK' /\ TimerComesNext' /\ TimerIsReal'
    BY DEF SInv, Fail, ThreadsOK, TimerComesNext, TimerIsReal
<1>4. OneWriter'
    BY DEF SInv, Fail, OneWriter
<1>5. SaveUnderWay'
    BY DEF SInv, Fail, SaveUnderWay, Agrees, Stored
<1>6. StartInOrder' /\ ContextNamesActor'
    BY DEF SInv, Fail, StartInOrder, ContextNamesActor
<1>7. ThreadKnows'
    BY DEF SInv, Fail, ThreadKnows
<1> QED BY <1>1, <1>2, <1>3, <1>4, <1>5, <1>6, <1>7 DEF SInv

LEMMA JammedStep ==
    ASSUME SInv, ToggleLockJammed
    PROVE  SInv'
<1>1. TypeOK'
    <2>1. jammed' \in BOOLEAN
        BY DEF ToggleLockJammed
    <2> QED BY <2>1, Typed, TypeStays DEF ToggleLockJammed
<1>2. LockoutInv'
    BY DEF SInv, LockoutInv, ToggleLockJammed, Unjudged, Pending, BothLet
<1> QED
    BY <1>1, <1>2 DEF SInv, ToggleLockJammed, ThreadsOK, TimerComesNext, TimerIsReal, OneWriter, SaveUnderWay,
       Agrees, Stored, StartInOrder, ContextNamesActor, ThreadKnows

LEMMA TickStep ==
    ASSUME SInv, Tick
    PROVE  SInv'
<1>1. clock \in Nat /\ clock' = clock + 1 /\ state \in StateSet
    BY DEF SInv, TypeOK, Tick
<1>2. UNCHANGED <<state, flash, copy, jammed, keypadTimer, deadline, thread, serving,
                   failure, useAAD, actor, closedBy, early>>
    BY DEF Tick
<1>3. TypeOK'
    <2>1. clock' \in Nat
        BY <1>1
    <2> QED BY <1>1, <1>2, <2>1, Typed, TypeStays
<1>4. LockoutInv'
    <2> SUFFICES ASSUME ~early PROVE LockoutInv'
        BY <1>2 DEF LockoutInv
    <2>1. ASSUME BothLet(state, clock) PROVE BothLet(state, clock')
        <3>1. clock \in Int /\ clock' \in Int /\ clock <= clock'
            BY <1>1
        <3> QED BY <1>1, <2>1, <3>1, LetsLater
    <2>2. ASSUME Pending, BothLet(state, clock + Min({thread.hap.time, Hour}))
          PROVE  BothLet(state, clock' + Min({thread.hap.time, Hour}))
        <3>1. PICK m \in Int : m = Min({thread.hap.time, Hour})
            <4>1. thread.hap.time \in Int
                BY <2>2 DEF SInv, ThreadKnows, Pending
            <4>2. Hour \in Int
                BY LockStateAssumption
            <4> QED BY <4>1, <4>2, MinOfTwo
        <3>2. clock + m \in Int /\ clock' + m \in Int /\ clock + m <= clock' + m
            BY <1>1, <3>1
        <3> QED BY <1>1, <2>2, <3>1, <3>2, LetsLater
    <2>3. \A time : BothLet(state', time) <=> BothLet(state, time)
        BY <1>2
    <2> QED BY <1>2, <2>1, <2>2, <2>3 DEF SInv, LockoutInv, Unjudged, Pending
<1>5. ThreadKnows'
    BY <1>1, <1>2 DEF SInv, ThreadKnows
<1> QED
    BY <1>2, <1>3, <1>4, <1>5 DEF SInv, ThreadsOK, TimerComesNext, TimerIsReal, OneWriter, SaveUnderWay,
       Agrees, Stored, StartInOrder, ContextNamesActor

\* SetKeypadStatus closes the keypad for as long as the log says, or opens it
\* because the log lets a code be tried.
LEMMA StatusParts ==
    ASSUME SInv, HapAt("status"), TimesPassed(thread.hap.time), NEW time,
           time = LongestDisableTime(RefreshedLog(thread.hap.time), thread.hap.time),
           state' = [RefreshedLog(thread.hap.time) EXCEPT !.active = time <= 0]
    PROVE  /\ time \in Int
           /\ state' \in StateSet /\ state'.target = state.target /\ state'.current = state.current
           /\ state'.context = state.context
           /\ time <= 0 => state'.active = TRUE /\ BothLet(state', clock)
           /\ time > 0 => state'.active = FALSE /\ BothLet(state', clock + Min({time, Hour}))
<1>1. PICK now \in Nat : now = thread.hap.time /\ now <= clock
    BY DEF SInv, ThreadKnows, HapAt
<1>2. PICK s : s = RefreshedLog(now)
    OBVIOUS
<1>3. state \in StateSet /\ clock \in Nat
    BY DEF SInv, TypeOK
<1>4. /\ s \in StateSet /\ s.target = state.target /\ s.current = state.current /\ s.context = state.context
      /\ s.ten = Refreshed(state.ten, now, TenMinutes) /\ s.hour = Refreshed(state.hour, now, Hour)
    BY <1>2, <1>3, RefreshedLogParts
<1>5. /\ \A i \in DOMAIN s.ten : s.ten[i] <= now
      /\ \A i \in DOMAIN s.hour : s.hour[i] <= now
    <2>1. state.ten \in Seq(Nat) /\ state.hour \in Seq(Nat)
        BY <1>3, StateParts
    <2>2. /\ \A i \in DOMAIN state.ten : state.ten[i] <= now
          /\ \A i \in DOMAIN state.hour : state.hour[i] <= now
        BY <1>1 DEF TimesPassed
    <2>3. /\ \A i \in DOMAIN s.ten : \E j \in DOMAIN state.ten : s.ten[i] = state.ten[j]
          /\ \A i \in DOMAIN s.hour : \E j \in DOMAIN state.hour : s.hour[i] = state.hour[j]
        BY <1>4, <2>1, RefreshedPart
    <2> QED BY <2>2, <2>3
<1>6. time = LongestDisableTime(s, now)
    BY <1>1, <1>2
<1>7. /\ time \in Int
      /\ \A x \in Int : x >= time => BothLet(s, now + x)
      /\ BothLet(s, now + Hour)
    BY <1>4, <1>5, <1>6, LongestBound
<1>8. PICK b \in BOOLEAN :
          /\ state' = [s EXCEPT !.active = b]
          /\ (b = TRUE /\ time <= 0) \/ (b = FALSE /\ ~(time <= 0))
    <2>1. state' = [s EXCEPT !.active = time <= 0]
        BY <1>1, <1>2
    <2>2. CASE time <= 0
        <3>1. (time <= 0) = TRUE
            BY <2>2
        <3>2. state' = [s EXCEPT !.active = TRUE]
            BY <2>1, <3>1, Zenon
        <3> QED BY <2>2, <3>2, Zenon
    <2>3. CASE ~(time <= 0)
        <3>1. (time <= 0) = FALSE
            BY <2>3
        <3>2. state' = [s EXCEPT !.active = FALSE]
            BY <2>1, <3>1, Zenon
        <3> QED BY <2>3, <3>2, Zenon
    <2> QED BY <2>2, <2>3
<1>9. state' = [s EXCEPT !.active = b]
    BY <1>8
<1>10. /\ state' \in StateSet /\ state'.target = s.target /\ state'.current = s.current
       /\ state'.context = s.context /\ state'.active = b
       /\ state'.ten = s.ten /\ state'.hour = s.hour
    <2>1. PICK w : w = [s EXCEPT !.active = b]
        OBVIOUS
    <2>2. /\ w \in StateSet /\ w.target = s.target /\ w.current = s.current
          /\ w.context = s.context /\ w.active = b /\ w.ten = s.ten /\ w.hour = s.hour
        BY <1>4, <2>1, ActiveParts
    <2> QED BY <1>9, <2>1, <2>2
<1>11. \A x : BothLet(state', x) <=> BothLet(s, x)
    BY <1>10 DEF BothLet
<1>12. ASSUME time <= 0 PROVE state'.active = TRUE /\ BothLet(state', clock)
    <2>1. BothLet(s, now + 0)
        BY <1>7, <1>12
    <2>2. now + 0 \in Int /\ clock \in Int /\ now + 0 <= clock
        BY <1>1, <1>3
    <2>3. BothLet(s, clock)
        BY <1>4, <2>1, <2>2, LetsLater
    <2>4. b = TRUE
        BY <1>8, <1>12
    <2>5. BothLet(state', clock)
        BY <1>11, <2>3, Zenon
    <2>6. state'.active = TRUE
        BY <1>10, <2>4, Zenon
    <2> QED BY <2>5, <2>6
<1>13. ASSUME time > 0 PROVE state'.active = FALSE /\ BothLet(state', clock + Min({time, Hour}))
    <2>0. time \in Int /\ Hour \in Int
        BY <1>7, LockStateAssumption
    <2>1. PICK m \in Int : m = Min({time, Hour}) /\ m \in {time, Hour}
        BY <2>0, MinOfTwo
    <2>2. BothLet(s, now + m)
        BY <1>7, <2>1
    <2>3. now + m \in Int /\ clock + m \in Int /\ now + m <= clock + m
        BY <1>1, <1>3, <2>1
    <2>4. BothLet(s, clock + m)
        BY <1>4, <2>2, <2>3, LetsLater
    <2>5. b = FALSE
        BY <1>7, <1>8, <1>13
    <2>6. BothLet(state', clock + Min({time, Hour}))
        BY <1>11, <2>1, <2>4
    <2> QED BY <1>10, <2>5, <2>6
<1> QED BY <1>4, <1>7, <1>10, <1>12, <1>13

LEMMA SetKeypadStatusStep ==
    ASSUME SInv, SetKeypadStatus
    PROVE  SInv'
<1>1. PICK time : time = LongestDisableTime(RefreshedLog(thread.hap.time), thread.hap.time)
    OBVIOUS
<1>2. CASE Fail("logged time")
    BY <1>2, FailStep
<1>3. CASE ~Fail("logged time")
    <2>1. /\ HapAt("status") /\ TimesPassed(thread.hap.time)
          /\ state' = [RefreshedLog(thread.hap.time) EXCEPT !.active = time <= 0]
          /\ UNCHANGED <<flash, copy, jammed, keypadTimer, deadline, clock, serving, failure,
                         useAAD, actor>>
        BY <1>1, <1>3 DEF SetKeypadStatus
    <2>2. /\ IF state'.active # state.active
             THEN Save("hap", IF time > 0 THEN "timer" ELSE "idle", time)
             ELSE thread' = [thread EXCEPT !.hap = IF time > 0 THEN At("timer", "idle", time) ELSE Idle]
          /\ IF time > 0
             THEN closedBy' = "attempts" /\ UNCHANGED early
             ELSE IF ~state.active THEN Opened ELSE UNCHANGED <<closedBy, early>>
        BY <1>1, <1>3 DEF SetKeypadStatus
    <2>3. /\ time \in Int
          /\ state' \in StateSet /\ state'.target = state.target /\ state'.current = state.current
          /\ state'.context = state.context
          /\ time <= 0 => state'.active = TRUE /\ BothLet(state', clock)
          /\ time > 0 => state'.active = FALSE /\ BothLet(state', clock + Min({time, Hour}))
        BY <1>1, <2>1, StatusParts
    <2>4. thread.hap.phase = "status"
        BY <2>1 DEF HapAt
    <2>5. /\ thread'.worker = thread.worker
          /\ thread'.hap.time = time \/ (thread'.hap.time = None /\ time <= 0)
          /\ IF state'.active # state.active
             THEN thread'.hap.phase = "save" /\ thread'.hap.then = IF time > 0 THEN "timer" ELSE "idle"
             ELSE thread'.hap.phase = (IF time > 0 THEN "timer" ELSE "idle") /\ thread'.hap.then = "idle"
          /\ ThreadsOK'
        <3>1. CASE state'.active # state.active
            <4>1. /\ DOMAIN thread' = {"hap", "worker"}
                  /\ thread' = [u \in {"hap", "worker"} |-> thread'[u]]
                  /\ thread'.hap = [phase |-> "save", then |-> IF time > 0 THEN "timer" ELSE "idle", time |-> time]
                  /\ thread'.worker = thread.worker
                BY <2>2, <3>1, SaveShape DEF SInv
            <4> QED BY <3>1, <4>1 DEF SInv, ThreadsOK
        <3>2. CASE ~(state'.active # state.active)
            <4>1. /\ DOMAIN thread' = {"hap", "worker"}
                  /\ thread' = [u \in {"hap", "worker"} |-> thread'[u]]
                  /\ thread'.hap = IF time > 0 THEN At("timer", "idle", time) ELSE Idle
                  /\ thread'.worker = thread.worker
                BY <2>2, <3>2, HapShape DEF SInv
            <4>2. CASE time > 0
                BY <3>2, <4>1, <4>2 DEF SInv, ThreadsOK, At
            <4>3. CASE ~(time > 0)
                BY <2>3, <3>2, <4>1, <4>3 DEF SInv, ThreadsOK, At, Idle
            <4> QED BY <4>2, <4>3
        <3> QED BY <3>1, <3>2
    <2>6. TypeOK'
        <3>1. ThreadsTyped'
            <4>1. /\ thread'.hap.phase \in {"save", "timer", "idle"}
                  /\ thread'.hap.then \in {"timer", "idle"}
                  /\ thread'.hap.time \in Int \cup {None}
                BY <2>3, <2>5
            <4> QED BY <2>5, <4>1, Typed DEF ThreadsTyped
        <3>2. closedBy' \in {"nobody", "controller", "attempts"} /\ early' \in BOOLEAN
            BY <2>2, Typed DEF Opened
        <3> QED BY <2>1, <2>3, <3>1, <3>2, Typed DEF TypeOK, ThreadsTyped
    <2>7. TimerComesNext' /\ TimerIsReal'
        BY <2>1, <2>5 DEF SInv, TimerComesNext, TimerIsReal
    <2>8. OneWriter' /\ SaveUnderWay'
        <3>1. OneWriter'
            BY <2>1, <2>4, <2>5 DEF SInv, OneWriter
        <3>2. SaveUnderWay'
            BY <2>1, <2>3, <2>4, <2>5 DEF SInv, SaveUnderWay, Agrees, Stored
        <3> QED BY <3>1, <3>2
    <2>9. StartInOrder' /\ ContextNamesActor'
        BY <2>1, <2>3, <2>4, <2>5 DEF SInv, StartInOrder, ContextNamesActor
    <2>10. ThreadKnows'
        BY <2>1, <2>3, <2>4, <2>5 DEF SInv, ThreadKnows
    <2>11. LockoutInv'
        <3> SUFFICES ASSUME ~early' PROVE LockoutInv'
            BY DEF LockoutInv
        <3>1. ~early
            BY <2>2 DEF Opened
        <3>2. deadline = {}
            BY <2>4, <3>1 DEF SInv, LockoutInv, Unjudged
        <3>3. ~Unjudged' /\ (Pending' => time > 0 /\ thread'.hap.time = time)
            BY <2>3, <2>5 DEF Unjudged, Pending
        <3>4. CASE time > 0
            <4>1. Pending' => BothLet(state', clock + Min({thread'.hap.time, Hour}))
                BY <2>3, <3>3, <3>4
            <4>2. ~state'.active
                BY <2>3, <3>4
            <4> QED BY <2>1, <3>2, <4>1, <4>2 DEF LockoutInv
        <3>5. CASE time <= 0
            <4>1. ~Pending'
                BY <2>3, <3>3, <3>5
            <4> QED BY <2>1, <2>3, <3>2, <3>5, <4>1 DEF LockoutInv
        <3> QED BY <2>3, <3>4, <3>5
    <2> QED BY <2>5, <2>6, <2>7, <2>8, <2>9, <2>10, <2>11 DEF SInv
<1> QED BY <1>2, <1>3

LEMMA EnableStep ==
    ASSUME SInv, EnableKeypadDisableTimer
    PROVE  SInv'
<1>1. /\ thread.hap.phase = "timer" /\ failure = "none"
      /\ UNCHANGED <<state, flash, copy, jammed, clock, serving, failure, useAAD, actor,
                     closedBy, early>>
    BY DEF EnableKeypadDisableTimer, HapAt
<1>2. /\ DOMAIN thread' = {"hap", "worker"}
      /\ thread' = [u \in {"hap", "worker"} |-> thread'[u]]
      /\ thread'.hap = [phase |-> "idle", then |-> "idle", time |-> None]
      /\ thread'.worker = thread.worker
    BY HapShape DEF EnableKeypadDisableTimer, SInv, Idle, At
<1>3. PICK m \in Nat : m = Min({thread.hap.time, Hour})
    <2>1. thread.hap.time \in Nat /\ Hour \in Nat
        BY <1>1, LockStateAssumption DEF SInv, ThreadKnows
    <2>2. PICK a \in Nat, b \in Nat : a = thread.hap.time /\ b = Hour
        BY <2>1
    <2>3. Min({a, b}) \in {a, b}
        BY MinOfTwo
    <2> QED BY <2>2, <2>3
<1>4. /\ keypadTimer' = TRUE
      /\ (deadline' = deadline /\ keypadTimer) \/ (deadline' = {clock + m} /\ ~keypadTimer)
    BY <1>3, Typed DEF EnableKeypadDisableTimer
<1>5. deadline' # {} /\ deadline' \in SUBSET Nat /\ Cardinality(deadline') <= 1
    <2>1. deadline \in SUBSET Nat /\ Cardinality(deadline) <= 1
        BY DEF SInv, TypeOK
    <2>2. CASE keypadTimer /\ deadline' = deadline
        BY <2>1, <2>2 DEF SInv, TimerIsReal
    <2>3. CASE deadline' = {clock + m}
        <3>1. Cardinality({clock + m}) = 1 /\ clock + m \in Nat
            <4>1. clock \in Nat
                BY Typed
            <4> QED BY <4>1, FS_Singleton
        <3> QED BY <2>3, <3>1
    <2> QED BY <1>4, <2>2, <2>3
<1>6. TypeOK'
    <2>1. ThreadsTyped'
        <3>1. thread'.hap.phase = "idle" /\ thread'.hap.then = "idle" /\ thread'.hap.time = None
            BY <1>2
        <3> QED BY <1>2, <3>1, Typed DEF ThreadsTyped
    <2>2. keypadTimer' \in BOOLEAN
        BY <1>4
    <2> QED BY <1>1, <1>5, <2>1, <2>2, Typed DEF TypeOK, ThreadsTyped
<1>7. ThreadsOK' /\ TimerComesNext' /\ TimerIsReal'
    BY <1>2, <1>5 DEF SInv, ThreadsOK, TimerComesNext, TimerIsReal
<1>8. OneWriter' /\ SaveUnderWay' /\ StartInOrder' /\ ContextNamesActor'
    BY <1>1, <1>2 DEF SInv, OneWriter, SaveUnderWay, Agrees, Stored, StartInOrder, ContextNamesActor
<1>9. ThreadKnows'
    BY <1>1, <1>2, <1>4 DEF SInv, ThreadKnows
<1>10. LockoutInv'
    <2> SUFFICES ASSUME ~early PROVE LockoutInv'
        BY <1>1 DEF LockoutInv
    <2>1. Pending /\ deadline = {} /\ ~state.active /\ BothLet(state, clock + m)
        BY <1>1, <1>3 DEF SInv, LockoutInv, Pending
    <2>2. ~Unjudged' /\ ~Pending'
        BY <1>2 DEF Unjudged, Pending
    <2>3. \A time \in deadline' : BothLet(state, time)
        BY <1>4, <2>1
    <2> QED BY <1>1, <2>1, <2>2, <2>3 DEF LockoutInv
<1> QED BY <1>6, <1>7, <1>8, <1>9, <1>10 DEF SInv

LEMMA CallbackStep ==
    ASSUME SInv, HandleKeypadDisableTimerCallback
    PROVE  SInv'
<1>1. /\ thread.worker.phase = "idle" /\ deadline' = {} /\ keypadTimer' = FALSE
      /\ state' = [state EXCEPT !.active = TRUE] /\ closedBy' = "nobody"
      /\ UNCHANGED <<flash, copy, jammed, clock, serving, failure, useAAD, actor, early>>
    BY DEF HandleKeypadDisableTimerCallback
<1>2. PICK time \in deadline : time <= clock
    BY DEF HandleKeypadDisableTimerCallback
<1>3. /\ DOMAIN thread' = {"hap", "worker"}
      /\ thread' = [u \in {"hap", "worker"} |-> thread'[u]]
      /\ thread'.worker = [phase |-> "save", then |-> "idle", time |-> None]
      /\ thread'.hap = thread.hap
    BY SaveShape DEF HandleKeypadDisableTimerCallback, SInv
<1>4. /\ state' \in StateSet /\ state'.context = state.context /\ state'.active = TRUE
      /\ state'.ten = state.ten /\ state'.hour = state.hour
    <2>1. PICK b \in BOOLEAN : b = TRUE
        OBVIOUS
    <2> QED BY <1>1, <2>1, ActiveParts, Typed
<1>5. thread.hap.phase # "off"
    BY <1>2 DEF SInv, StartInOrder
<1>6. TypeOK'
    <2>1. ThreadsTyped'
        <3>1. thread'.worker.phase = "save" /\ thread'.worker.then = "idle" /\ thread'.worker.time = None
            BY <1>3
        <3> QED BY <1>3, <3>1, Typed DEF ThreadsTyped
    <2>2. deadline' \in SUBSET Nat /\ Cardinality(deadline') <= 1 /\ keypadTimer' \in BOOLEAN
        <3>1. Cardinality({}) <= 1
            BY FS_EmptySet
        <3>2. deadline' = {} /\ keypadTimer' = FALSE
            BY <1>1
        <3>3. Cardinality(deadline') <= 1
            BY <3>1, <3>2, Zenon
        <3> QED BY <3>2, <3>3
    <2> QED BY <1>1, <1>4, <2>1, <2>2, Typed DEF TypeOK, ThreadsTyped
<1>7. ThreadsOK' /\ TimerComesNext' /\ TimerIsReal'
    BY <1>1, <1>3 DEF SInv, ThreadsOK, TimerComesNext, TimerIsReal
<1>8. OneWriter' /\ SaveUnderWay' /\ StartInOrder' /\ ContextNamesActor'
    BY <1>1, <1>3, <1>4, <1>5 DEF SInv, OneWriter, SaveUnderWay, StartInOrder, ContextNamesActor
<1>9. ThreadKnows'
    BY <1>1, <1>3 DEF SInv, ThreadKnows
<1>10. LockoutInv'
    <2> SUFFICES ASSUME ~early PROVE LockoutInv'
        BY <1>1 DEF LockoutInv
    <2>1. ~Pending /\ ~Pending'
        BY <1>2, <1>3 DEF SInv, LockoutInv, Pending
    <2>2. BothLet(state, time)
        BY <1>2 DEF SInv, LockoutInv
    <2>3. time \in Int /\ clock \in Int
        <3>1. deadline \in SUBSET Nat /\ clock \in Nat
            BY Typed DEF TypeOK
        <3> QED BY <1>2, <3>1
    <2>4. BothLet(state, clock)
        BY <1>2, <2>2, <2>3, LetsLater, Typed
    <2>5. BothLet(state', clock)
        BY <1>4, <2>4 DEF BothLet
    <2> QED BY <1>1, <2>1, <2>5 DEF LockoutInv
<1> QED BY <1>6, <1>7, <1>8, <1>9, <1>10 DEF SInv

LEMMA AppCreateStep ==
    ASSUME SInv, AppCreate
    PROVE  SInv'
<1>1. /\ thread.hap.phase = "off" /\ state' = Stored
      /\ UNCHANGED <<flash, copy, jammed, keypadTimer, deadline, clock, serving, failure,
                     useAAD, actor, closedBy, early>>
    BY DEF AppCreate, HapAt
<1>2. /\ DOMAIN thread' = {"hap", "worker"}
      /\ thread' = [u \in {"hap", "worker"} |-> thread'[u]]
      /\ thread'.hap = [phase |-> "status", then |-> "idle", time |-> clock]
      /\ thread'.worker = thread.worker
    BY HapShape DEF AppCreate, SInv, At
<1>3. Stored \in StateSet
    BY DefaultTyped, Typed DEF Stored
<1>4. ~serving /\ thread.worker.phase = "idle" /\ copy = None /\ deadline = {} /\ ~keypadTimer
    BY <1>1 DEF SInv, StartInOrder
<1>5. TypeOK'
    <2>1. ThreadsTyped'
        <3>1. thread'.hap.phase = "status" /\ thread'.hap.then = "idle" /\ thread'.hap.time = clock
            BY <1>2
        <3>2. clock \in Nat /\ ThreadsTyped
            BY Typed
        <3>3. thread'.worker = thread.worker
            BY <1>2
        <3> QED BY <3>1, <3>2, <3>3 DEF ThreadsTyped
    <2> QED BY <1>1, <1>3, <2>1, Typed, TypeStays
<1>6. ThreadsOK' /\ TimerComesNext' /\ TimerIsReal'
    BY <1>1, <1>2 DEF SInv, ThreadsOK, TimerComesNext, TimerIsReal
<1>7. OneWriter' /\ StartInOrder' /\ ContextNamesActor'
    BY <1>1, <1>2, <1>4 DEF SInv, OneWriter, StartInOrder, ContextNamesActor
<1>8. SaveUnderWay'
    BY <1>1, <1>4 DEF SaveUnderWay, Agrees, Stored
<1>9. ThreadKnows'
    <2>1. clock \in Nat
        BY Typed
    <2> QED BY <1>1, <1>2, <2>1 DEF SInv, ThreadKnows
<1>10. LockoutInv'
    BY <1>1, <1>2, <1>4 DEF LockoutInv, Unjudged, Pending
<1> QED BY <1>5, <1>6, <1>7, <1>8, <1>9, <1>10 DEF SInv

LEMMA ServerStartStep ==
    ASSUME SInv, AppAccessoryServerStart
    PROVE  SInv'
<1>1. /\ thread.hap.phase = "idle" /\ ~serving /\ serving' = TRUE
      /\ state' = [state EXCEPT !.context = None]
      /\ UNCHANGED <<flash, copy, jammed, keypadTimer, deadline, clock, thread, failure,
                     useAAD, actor, closedBy, early>>
    BY DEF AppAccessoryServerStart, HapAt
<1>2. /\ state' \in StateSet /\ state'.context = None
      /\ state'.target = state.target /\ state'.current = state.current
      /\ state'.active = state.active /\ state'.ten = state.ten /\ state'.hour = state.hour
    BY <1>1, ContextParts, Typed
<1>3. TypeOK'
    <2>1. serving' \in BOOLEAN
        BY <1>1
    <2> QED BY <1>1, <1>2, <2>1, Typed, TypeStays
<1>4. StartInOrder' /\ ContextNamesActor'
    <2>1. actor = None
        BY <1>1 DEF SInv, StartInOrder
    <2> QED BY <1>1, <1>2, <2>1 DEF StartInOrder, ContextNamesActor
<1>5. ThreadsOK' /\ TimerComesNext' /\ TimerIsReal' /\ OneWriter' /\ ThreadKnows'
    BY <1>1 DEF SInv, ThreadsOK, TimerComesNext, TimerIsReal, OneWriter, ThreadKnows
<1>6. SaveUnderWay'
    BY <1>1, <1>2 DEF SInv, SaveUnderWay, Agrees, Stored
<1>7. LockoutInv'
    <2>1. \A x : BothLet(state', x) <=> BothLet(state, x)
        BY <1>2 DEF BothLet
    <2> QED BY <1>1, <1>2, <2>1 DEF SInv, LockoutInv, Unjudged, Pending
<1> QED BY <1>3, <1>4, <1>5, <1>6, <1>7 DEF SInv

LEMMA WriteStep ==
    ASSUME SInv, NEW t \in {"hap", "worker"}, BeginWrite(t) \/ EndWrite(t)
    PROVE  SInv'
<1>1. PICK phase : /\ thread' = [thread EXCEPT ![t].phase = phase]
                   /\ \/ BeginWrite(t) /\ phase = "write"
                      \/ EndWrite(t) /\ phase = thread[t].then
    BY DEF BeginWrite, EndWrite
<1>2. /\ DOMAIN thread' = {"hap", "worker"}
      /\ thread' = [u \in {"hap", "worker"} |-> thread'[u]]
      /\ thread'[t] = [phase |-> phase, then |-> thread[t].then, time |-> thread[t].time]
      /\ \A u \in {"hap", "worker"} : u # t => thread'[u] = thread[u]
    BY <1>1, PhaseShape DEF SInv
<1>3. /\ \/ thread[t].phase = "save" /\ phase = "write"
         \/ thread[t].phase = "write" /\ phase = thread[t].then
      /\ UNCHANGED <<state, jammed, keypadTimer, deadline, clock, serving,
                     failure, useAAD, actor, closedBy, early>>
    BY <1>1 DEF BeginWrite, EndWrite
<1>4. thread[t].then \in {"idle", "status", "timer"}
    BY Typed DEF ThreadsTyped
<1>5. thread'[t].phase = phase /\ thread'[t].then = thread[t].then /\ thread'[t].time = thread[t].time
    BY <1>2
<1>6. TypeOK'
    <2>1. ThreadsTyped'
        BY <1>2, <1>3, <1>4, <1>5, Typed DEF ThreadsTyped
    <2>2. flash' \in StateSet \cup {None} /\ copy' \in StateSet \cup {None}
        <3>1. CASE BeginWrite(t)
            BY <3>1, ContextParts, Typed DEF BeginWrite
        <3>2. CASE EndWrite(t)
            BY <3>2, Typed DEF EndWrite
        <3> QED BY <3>1, <3>2
    <2> QED BY <1>3, <2>1, <2>2, Typed DEF TypeOK, ThreadsTyped
<1>7. ThreadsOK' /\ TimerIsReal' /\ TimerComesNext'
    <2>1. ThreadsOK'
        <3>1. \A u \in {"hap", "worker"} :
                 thread'[u] = [phase |-> thread'[u].phase, then |-> thread'[u].then, time |-> thread'[u].time]
            BY <1>2, <1>5 DEF SInv, ThreadsOK
        <3>2. thread'.hap.then = thread.hap.then
            BY <1>2, <1>5
        <3> QED BY <1>2, <3>1, <3>2 DEF SInv, ThreadsOK
    <2>2. TimerIsReal' /\ TimerComesNext'
        BY <1>2, <1>3, <1>5 DEF SInv, TimerIsReal, TimerComesNext
    <2> QED BY <2>1, <2>2
<1>8. OneWriter' /\ SaveUnderWay'
    <2>1. CASE BeginWrite(t)
        <3>1. copy = None /\ copy' = [state EXCEPT !.context = None] /\ flash' = flash
            BY <2>1 DEF BeginWrite
        <3>2. copy' \in StateSet /\ copy' # None /\ copy'.target = state.target
              /\ copy'.current = state.current /\ copy'.active = state.active
            BY <3>1, ContextParts, Typed, ValueAssumption
        <3>3. phase = "write"
            BY <2>1, <1>1 DEF EndWrite, BeginWrite
        <3>4. OneWriter'
            BY <1>2, <1>5, <3>1, <3>2, <3>3 DEF SInv, OneWriter
        <3>5. SaveUnderWay'
            BY <1>3, <3>2 DEF SaveUnderWay, Agrees
        <3> QED BY <3>4, <3>5
    <2>2. CASE EndWrite(t)
        <3>1. thread[t].phase = "write" /\ phase = thread[t].then /\ flash' = copy /\ copy' = None
            BY <1>1, <2>2 DEF EndWrite, BeginWrite
        <3>2. copy # None /\ \A u \in {"hap", "worker"} : u # t => thread[u].phase # "write"
            BY <3>1 DEF SInv, OneWriter
        <3>3. OneWriter'
            BY <1>2, <1>4, <1>5, <3>1, <3>2 DEF OneWriter
        <3>4. SaveUnderWay'
            BY <1>2, <1>3, <1>4, <1>5, <3>1, <3>2 DEF SInv, SaveUnderWay, Agrees, Stored
        <3> QED BY <3>3, <3>4
    <2> QED BY <2>1, <2>2
<1>9. copy' = None \/ thread'.hap.phase # "off"
    BY <1>2, <1>3, <1>4, <1>5 DEF SInv, StartInOrder
<1>10. StartInOrder' /\ ContextNamesActor'
    BY <1>2, <1>3, <1>4, <1>5, <1>9 DEF SInv, StartInOrder, ContextNamesActor, ThreadKnows
<1>11. ThreadKnows'
    BY <1>2, <1>3, <1>4, <1>5 DEF SInv, ThreadKnows
<1>12. LockoutInv'
    <2> SUFFICES ASSUME ~early PROVE LockoutInv'
        BY <1>3 DEF LockoutInv
    <2>1. Unjudged' <=> Unjudged
        BY <1>2, <1>3, <1>4, <1>5 DEF Unjudged
    <2>2. Pending' <=> Pending
        BY <1>2, <1>3, <1>4, <1>5 DEF Pending
    <2>3. thread'.hap.time = thread.hap.time
        BY <1>2, <1>5
    <2> QED BY <1>3, <2>1, <2>2, <2>3 DEF SInv, LockoutInv
<1> QED BY <1>6, <1>7, <1>8, <1>10, <1>11, <1>12 DEF SInv

LEMMA RestartStep ==
    ASSUME SInv, Restart
    PROVE  SInv'
<1>1. /\ state' = DefaultState /\ copy' = None /\ jammed' = FALSE /\ keypadTimer' = FALSE
      /\ deadline' = {} /\ clock' = 0
      /\ thread' = [hap |-> [phase |-> "off", then |-> "idle", time |-> None],
                    worker |-> [phase |-> "idle", then |-> "idle", time |-> None]]
      /\ serving' = FALSE /\ failure' = "none" /\ actor' = None /\ closedBy' = "nobody"
      /\ early' = FALSE /\ UNCHANGED <<flash, useAAD>>
    BY DEF Restart, At, Idle
<1>2. /\ thread'.hap.phase = "off" /\ thread'.hap.then = "idle" /\ thread'.hap.time = None
      /\ thread'.worker.phase = "idle" /\ thread'.worker.then = "idle" /\ thread'.worker.time = None
    BY <1>1
<1>3. ThreadsTyped'
    BY <1>2 DEF ThreadsTyped
<1>4. TypeOK'
    <2>1. deadline' \in SUBSET Nat /\ Cardinality(deadline') <= 1
        <3>1. Cardinality({}) <= 1
            BY FS_EmptySet
        <3>2. deadline' = {}
            BY <1>1
        <3>3. Cardinality(deadline') <= 1
            BY <3>1, <3>2, Zenon
        <3> QED BY <3>2, <3>3
    <2>2. /\ jammed' \in BOOLEAN /\ keypadTimer' \in BOOLEAN /\ serving' \in BOOLEAN
          /\ useAAD' \in BOOLEAN /\ early' \in BOOLEAN
        BY <1>1, Typed DEF TypeOK
    <2>3. clock' \in Nat /\ state' \in StateSet
        BY <1>1, DefaultTyped
    <2> QED BY <1>1, <1>3, <2>1, <2>2, <2>3, Typed DEF TypeOK, ThreadsTyped
<1>5. ThreadsOK' /\ TimerComesNext' /\ TimerIsReal'
    BY <1>1 DEF ThreadsOK, TimerComesNext, TimerIsReal
<1>6. OneWriter' /\ SaveUnderWay' /\ StartInOrder' /\ ContextNamesActor' /\ ThreadKnows'
    BY <1>1, <1>2 DEF OneWriter, SaveUnderWay, StartInOrder, ContextNamesActor, ThreadKnows
<1>7. LockoutInv'
    BY <1>1, <1>2 DEF LockoutInv, Unjudged, Pending
<1> QED BY <1>4, <1>5, <1>6, <1>7 DEF SInv

LEMMA StutterStep ==
    ASSUME SInv, UNCHANGED vars
    PROVE  SInv'
<1>1. TypeOK'
    BY Typed, TypeStays DEF vars
<1>2. LockoutInv'
    BY DEF SInv, vars, LockoutInv, Unjudged, Pending, BothLet
<1> QED
    BY <1>1, <1>2 DEF SInv, vars, ThreadsOK, TimerComesNext, TimerIsReal, OneWriter, SaveUnderWay,
       Agrees, Stored, StartInOrder, ContextNamesActor, ThreadKnows

LEMMA SInvStep == SInv /\ [Next]_vars => SInv'
<1> SUFFICES ASSUME SInv, [Next]_vars PROVE SInv'
    OBVIOUS
<1>1. ASSUME Request PROVE SInv'
    BY <1>1, RequestStep, RequestTyped DEF SInv
<1>2. ASSUME NEW target \in TargetStates, NEW context \in {"HAP", None},
             NEW authorization \in BOOLEAN, LockTargetStateWrite(target, context, authorization)
      PROVE  SInv'
    BY <1>1, <1>2, LockTargetStateWriteIsRequest
<1>3. ASSUME NEW target \in TargetStates, LockStateChangeByNfc(target) PROVE SInv'
    BY <1>1, <1>3, OtherTargetsAreRequests
<1>4. CASE ToggleLockState \/ RightCode
    BY <1>1, <1>4, OtherTargetsAreRequests
<1>5. ASSUME NEW current \in Reported, SetLockCurrentState(current) PROVE SInv'
    BY <1>1, <1>5, SetLockCurrentStateIsRequest, ValueAssumption
<1>6. ASSUME NEW active \in BOOLEAN, AccessCodeActiveWrite(active) PROVE SInv'
    BY <1>1, <1>6, AccessCodeActiveWriteIsRequest
<1>7. CASE WrongCode
    <2>1. CASE Fail("logged time") \/ Fail("attempts")
        BY <2>1, FailStep
    <2>2. CASE failure' = failure
        BY <1>1, <1>7, <2>2, WrongCodeIsRequest
    <2> QED BY <1>7, <2>1, <2>2 DEF WrongCode
<1>8. CASE TimerRefused
    BY <1>8, FailStep DEF TimerRefused
<1>9. ASSUME NEW t \in {"hap", "worker"}, BeginWrite(t) \/ EndWrite(t) PROVE SInv'
    BY <1>9, WriteStep
<1> QED
    BY <1>2, <1>3, <1>4, <1>5, <1>6, <1>7, <1>8, <1>9, JammedStep, TickStep, SetKeypadStatusStep,
       EnableStep, CallbackStep, AppCreateStep, ServerStartStep, RestartStep, StutterStep
    DEF Next

\* A log that lets a code be tried holds fewer recent times than the limit.
LEMMA FewRecent ==
    ASSUME NEW log \in Seq(Nat), NEW limit \in Nat \ {0}, Len(log) <= limit, NEW window \in Nat,
           clock \in Nat, Lets(log, limit, window, clock)
    PROVE  Cardinality(Recent(log, window)) < limit
<1>1. Len(log) \in Nat /\ DOMAIN log = 1..Len(log)
    BY LenProperties
<1>2. CASE Len(log) < limit
    <2>1. Recent(log, window) \in SUBSET (1..Len(log))
        BY <1>1 DEF Recent
    <2>2. IsFiniteSet(1..Len(log)) /\ Cardinality(1..Len(log)) = Len(log)
        <3>1. \A n \in Nat : IsFiniteSet(1..n) /\ Cardinality(1..n) = n
            BY FS_Interval
        <3> QED BY <1>1, <3>1, Zenon
    <2>3. Cardinality(Recent(log, window)) <= Len(log) /\ Cardinality(Recent(log, window)) \in Nat
        BY <2>1, <2>2, FS_Subset, FS_CardinalityType
    <2> QED BY <1>1, <1>2, <2>3
<1>3. CASE Len(log) = limit
    <2>1. log[1] \in Nat /\ log[1] + window <= clock
        BY <1>1, <1>3, ElementOfSeq DEF Lets
    <2>2. ~(clock - log[1] < window)
        BY <2>1
    <2>3. Recent(log, window) \in SUBSET (2..Len(log))
        <3>1. ASSUME NEW i \in Recent(log, window) PROVE i \in 2..Len(log)
            <4>1. i \in 1..Len(log) /\ i # 1
                BY <1>1, <2>2, <3>1 DEF Recent
            <4> QED BY <1>1, <4>1
        <3> QED BY <3>1
    <2>4. IsFiniteSet(2..Len(log)) /\ Cardinality(2..Len(log)) = Len(log) - 1
        BY <1>1, <1>3, FS_Interval
    <2>5. Cardinality(Recent(log, window)) <= Len(log) - 1 /\ Cardinality(Recent(log, window)) \in Nat
        BY <2>3, <2>4, FS_Subset, FS_CardinalityType
    <2> QED BY <1>1, <1>3, <2>5
<1>4. Len(log) < limit \/ Len(log) = limit
    <2>1. \A n \in Nat : n <= limit => n < limit \/ n = limit
        OBVIOUS
    <2> QED BY <1>1, <2>1, Zenon
<1> QED BY <1>2, <1>3, <1>4

LEMMA SInvImplies == SInv => TypeOK /\ SavedWhenQuiet /\ ContextNamesActor /\ LockoutLasts
<1> SUFFICES ASSUME SInv PROVE TypeOK /\ SavedWhenQuiet /\ ContextNamesActor /\ LockoutLasts
    OBVIOUS
<1>1. Quiet => /\ thread.hap.phase = "idle" /\ thread.hap.then = "idle" /\ thread.worker.phase = "idle"
    BY DEF Quiet, Idle, At
<1>2. SavedWhenQuiet
    BY <1>1 DEF SInv, SavedWhenQuiet, SaveUnderWay, OneWriter, Agrees
<1>3. LockoutLasts
    <2> SUFFICES ASSUME Quiet, state.active, ~early
                 PROVE  /\ Cardinality(Recent(state.ten, TenMinutes)) < TenLimit
                        /\ Cardinality(Recent(state.hour, Hour)) < HourLimit
        BY DEF LockoutLasts
    <2>1. ~Unjudged
        BY <1>1 DEF Unjudged
    <2>2. BothLet(state, clock)
        BY <2>1 DEF SInv, LockoutInv
    <2>3. /\ state.ten \in Seq(Nat) /\ Len(state.ten) <= TenLimit
          /\ state.hour \in Seq(Nat) /\ Len(state.hour) <= HourLimit
        BY Typed, StateParts
    <2> QED BY <2>2, <2>3, FewRecent, Typed, LockStateAssumption DEF BothLet
<1> QED BY <1>2, <1>3 DEF SInv

\* The state has its types, and the logs of wrong codes fit their arrays
\* (CheckForAccessCodeFailure, RefreshKeypadAttempts).
THEOREM LockStateTypeCorrect == Spec => []TypeOK
<1> QED BY SInvInit, SInvStep, SInvImplies, PTL DEF Spec

\* When no thread is about to write, the record in the flash is the state of
\* the lock and the keypad (SaveAccessoryState from two threads).
THEOREM QuietIsSaved == Spec => []SavedWhenQuiet
<1> QED BY SInvInit, SInvStep, SInvImplies, PTL DEF Spec

\* The context names whoever asked for the target state last
\* (SetLockTargetState and the handlers that call it).
THEOREM ContextIsActor == Spec => []ContextNamesActor
<1> QED BY SInvInit, SInvStep, SInvImplies, PTL DEF Spec

\* An open keypad has seen fewer wrong codes in either window than are allowed
\* (SetKeypadStatus, the keypad's timer, restarts).
THEOREM LockoutHolds == Spec => []LockoutLasts
<1> QED BY SInvInit, SInvStep, SInvImplies, PTL DEF Spec

=============================================================================
