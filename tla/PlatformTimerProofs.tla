------------------------ MODULE PlatformTimerProofs ------------------------
(***************************************************************************)
(* Proofs about PlatformTimer, for any number of clients and slots, any    *)
(* black list, and threads that switch anywhere or only where they block.  *)
(*                                                                         *)
(* That slots are accounted for is inductive with the types, because the   *)
(* list and the pool change together.  So is that a wake-up is arranged:   *)
(* when k_work_init loses the work item the list is empty.  What a callback*)
(* finds and a client removes depends on the references: with cooperative  *)
(* threads each registered timer is the one its client refers to, nothing  *)
(* takes the slot of a timer between the choice of its callback and the    *)
(* start, and a call goes on with the module and the reference as its      *)
(* Initialize left them; without a firmware update no reference outlives   *)
(* the timer but in between.                                               *)
(***************************************************************************)
EXTENDS PlatformTimer, SequenceTheorems, WellFoundedInduction, TLAPS

\* While threads switch only where they block, nobody has a timer before the
\* first registration and after a teardown, and nothing comes between the
\* Initialize of a call and its own lock.
CallsUndisturbed ==
    ~preemptible => \A c \in Clients :
        /\ handle[c] # 0 => initialized
        /\ calling[c] # NotCalling =>
              initialized /\ calling[c] = handle[c] /\ worker.phase # "picked"

\* While threads switch only where they block, a client refers to its timer.
TimersAreReferenced ==
    ~preemptible =>
        /\ \A s \in Slots : timerRepo[s] # NotUsed => handle[timerRepo[s].client] = s
        /\ worker.phase = "picked" => timerRepo[worker.timer] = NotUsed

\* Without a firmware update, a reference is that of a registered timer or of
\* the one whose callback is about to start.
ReferencesAreTimers ==
    ~preemptible /\ ~updateMode =>
        \A c \in Clients : handle[c] # 0 =>
            \/ timerRepo[handle[c]].client = c
            \/ worker.phase = "picked" /\ worker.client = c

TimerInv ==
    /\ TypeOK /\ SlotsAccounted /\ WakeupArranged /\ CallbackFindsItsTimer
    /\ CallsUndisturbed /\ TimersAreReferenced /\ ReferencesAreTimers

-----------------------------------------------------------------------------
(* Numbers and lists.                                                      *)

\* A set of natural numbers has a smallest one.
LEMMA MinExists ==
    ASSUME NEW S, S \subseteq Nat, S # {}
    PROVE  Min(S) \in S /\ \A x \in S : Min(S) <= x
<1>1. PICK m \in S : \A k \in S : <<k, m>> \notin OpToRel(<, Nat)
    BY NatLessThanWellFounded, WFMin
<1>2. \A k \in S : ~(k < m)
    BY <1>1 DEF OpToRel
<1>3. \A k \in S : m <= k
    <2>1. \A a, b \in Nat : ~(a < b) => b <= a
        OBVIOUS
    <2>2. m \in Nat /\ \A k \in S : k \in Nat
        OBVIOUS
    <2> QED BY <1>2, <2>1, <2>2, Zenon
<1>4. \E x \in S : \A y \in S : x <= y
    BY <1>3
<1> QED BY <1>4 DEF Min

\* The larger of two numbers.
LEMMA MaxOfTwo ==
    ASSUME NEW a \in Int, NEW b \in Int
    PROVE  Max({a, b}) \in {a, b} /\ Max({a, b}) >= a /\ Max({a, b}) >= b
<1>1. \E x \in {a, b} : \A y \in {a, b} : x >= y
    <2>1. CASE a >= b
        BY <2>1
    <2>2. CASE b >= a
        BY <2>2
    <2> QED BY <2>1, <2>2
<1> QED BY <1>1 DEF Max

\* What a list without repetitions holds after an element is appended.
LEMMA AppendParts ==
    ASSUME NEW S, NEW list \in Seq(S), IsInjective(list), NEW e \in S, e \notin Range(list)
    PROVE  /\ Append(list, e) \in Seq(S)
           /\ Range(Append(list, e)) = Range(list) \cup {e}
           /\ IsInjective(Append(list, e))
           /\ Append(list, e) # <<>>
<1> DEFINE longer == Append(list, e)
           n == Len(list)
<1>1. n \in Nat /\ DOMAIN list = 1..n
    BY LenProperties
<1>2. /\ longer \in Seq(S)
      /\ Len(longer) = n + 1
      /\ \A i \in 1..n : longer[i] = list[i]
      /\ longer[n + 1] = e
    BY AppendProperties
<1>3. DOMAIN longer = 1..(n + 1)
    BY <1>2, LenProperties
<1> HIDE DEF longer, n
<1>4. \A i \in 1..(n + 1) : i \in 1..n \/ i = n + 1
    BY <1>1
<1>5. /\ \A i \in 1..n : i \in 1..(n + 1)
      /\ n + 1 \in 1..(n + 1)
    BY <1>1
<1>6. Range(longer) = Range(list) \cup {e}
    <2>1. ASSUME NEW x \in Range(longer) PROVE x \in Range(list) \cup {e}
        BY <1>1, <1>2, <1>3, <1>4 DEF Range
    <2>2. ASSUME NEW x \in Range(list) \cup {e} PROVE x \in Range(longer)
        <3>1. CASE x = e
            BY <1>2, <1>3, <1>5, <3>1 DEF Range
        <3>2. CASE x \in Range(list)
            BY <1>1, <1>2, <1>3, <1>5, <3>2 DEF Range
        <3> QED BY <3>1, <3>2
    <2> QED BY <2>1, <2>2
<1>7. \A i \in 1..n : list[i] # e
    BY <1>1 DEF Range
<1>8. IsInjective(longer)
    <2> SUFFICES ASSUME NEW i \in 1..(n + 1), NEW j \in 1..(n + 1), longer[i] = longer[j]
                 PROVE  i = j
        BY <1>3 DEF IsInjective
    <2>1. (i \in 1..n \/ i = n + 1) /\ (j \in 1..n \/ j = n + 1)
        BY <1>4
    <2>2. CASE i \in 1..n /\ j \in 1..n
        BY <1>1, <1>2, <2>2 DEF IsInjective
    <2> QED BY <1>2, <1>7, <2>1, <2>2
<1>9. longer # <<>>
    BY <1>3, <1>5, EmptySeq
<1> QED BY <1>2, <1>6, <1>8, <1>9 DEF longer

\* The element that is found leaves the list, and the others stay in order.
LEMMA RemoveAtParts ==
    ASSUME NEW S, NEW list \in Seq(S), NEW k \in 1..Len(list)
    PROVE  /\ RemoveAt(list, k) \in Seq(S)
           /\ Len(RemoveAt(list, k)) = Len(list) - 1
           /\ \A i \in 1 .. Len(list) - 1 :
                 RemoveAt(list, k)[i] = IF i < k THEN list[i] ELSE list[i + 1]
<1> DEFINE n == Len(list)
           front == SubSeq(list, 1, k - 1)
           back == SubSeq(list, k + 1, n)
<1>1. n \in Nat /\ k \in 1..n /\ DOMAIN list = 1..n /\ \A i \in 1..n : list[i] \in S
    BY LenProperties, ElementOfSeq
<1> HIDE DEF n
<1>2. /\ front \in Seq(S)
      /\ Len(front) = k - 1
      /\ \A i \in 1 .. k - 1 : front[i] = list[i]
    <2>1. \A i \in 1 .. k - 1 : list[i] \in S
        BY <1>1
    <2>2. 1 \in Int /\ k - 1 \in Int /\ (IF 1 <= k - 1 THEN k - 1 - 1 + 1 ELSE 0) = k - 1
          /\ k - 1 - 1 + 1 = k - 1
        BY <1>1
    <2>3. \A i \in 1 .. k - 1 : 1 + i - 1 = i
        BY <1>1
    <2>4. /\ front \in Seq(S)
          /\ Len(front) = (IF 1 <= k - 1 THEN k - 1 - 1 + 1 ELSE 0)
          /\ \A i \in 1 .. (k - 1 - 1 + 1) : front[i] = list[1 + i - 1]
        BY <2>1, <2>2, SubSeqProperties
    <2> HIDE DEF front
    <2> QED BY <2>2, <2>3, <2>4
<1>3. /\ back \in Seq(S)
      /\ Len(back) = n - k
      /\ \A i \in 1 .. n - k : back[i] = list[k + i]
    <2>1. \A i \in k + 1 .. n : list[i] \in S
        BY <1>1
    <2>2. k + 1 \in Int /\ n \in Int /\ (IF k + 1 <= n THEN n - (k + 1) + 1 ELSE 0) = n - k
          /\ n - (k + 1) + 1 = n - k
        BY <1>1
    <2>3. \A i \in 1 .. n - k : k + 1 + i - 1 = k + i
        BY <1>1
    <2>4. /\ back \in Seq(S)
          /\ Len(back) = (IF k + 1 <= n THEN n - (k + 1) + 1 ELSE 0)
          /\ \A i \in 1 .. (n - (k + 1) + 1) : back[i] = list[k + 1 + i - 1]
        BY <2>1, <2>2, SubSeqProperties
    <2> HIDE DEF back
    <2> QED BY <2>2, <2>3, <2>4
<1> HIDE DEF front, back
<1>4. /\ front \o back \in Seq(S)
      /\ Len(front \o back) = Len(front) + Len(back)
      /\ \A i \in 1 .. Len(front) + Len(back) :
            (front \o back)[i] = IF i <= Len(front) THEN front[i] ELSE back[i - Len(front)]
    BY <1>2, <1>3, ConcatProperties
<1>5. Len(front) + Len(back) = n - 1
    BY <1>1, <1>2, <1>3
<1>6. ASSUME NEW i \in 1 .. n - 1
      PROVE  (front \o back)[i] = IF i < k THEN list[i] ELSE list[i + 1]
    <2>1. (front \o back)[i] = IF i <= Len(front) THEN front[i] ELSE back[i - Len(front)]
        BY <1>4, <1>5
    <2>2. CASE i < k
        <3>1. i <= k - 1 /\ i \in 1 .. k - 1
            BY <1>1, <2>2
        <3> QED BY <1>2, <2>1, <2>2, <3>1
    <2>3. CASE ~(i < k)
        <3>1. ~(i <= k - 1) /\ i - (k - 1) \in 1 .. n - k /\ k + (i - (k - 1)) = i + 1
            BY <1>1, <2>3
        <3> QED BY <1>2, <1>3, <2>1, <2>3, <3>1
    <2> QED BY <2>2, <2>3
<1> QED BY <1>4, <1>5, <1>6 DEF RemoveAt, front, back, n

LEMMA RemoveFirstParts ==
    ASSUME NEW S, NEW list \in Seq(S), IsInjective(list), NEW e
    PROVE  /\ RemoveFirst(list, e) \in Seq(S)
           /\ Range(RemoveFirst(list, e)) = Range(list) \ {e}
           /\ IsInjective(RemoveFirst(list, e))
<1> DEFINE n == Len(list)
           places == {i \in 1..n : list[i] = e}
           k == Min(places)
           shorter == RemoveAt(list, k)
<1>1. n \in Nat /\ DOMAIN list = 1..n
    BY LenProperties
<1>2. CASE places = {}
    <2>1. \A i \in 1..n : list[i] # e
        BY <1>2
    <2>2. RemoveFirst(list, e) = list
        BY <2>1 DEF RemoveFirst
    <2>3. e \notin Range(list)
        BY <1>1, <2>1 DEF Range
    <2> QED BY <2>2, <2>3
<1>3. CASE places # {}
    <2>1. \E i \in 1..n : list[i] = e
        BY <1>3
    <2>2. RemoveFirst(list, e) = shorter
        <3>1. SelectInSeq(list, LAMBDA v : v = e) = k
            BY <1>3 DEF SelectInSeq
        <3> QED BY <2>1, <3>1 DEF RemoveFirst
    <2>3. k \in 1..n /\ list[k] = e
        <3>1. places \subseteq Nat
            OBVIOUS
        <3> HIDE DEF places
        <3>2. k \in places
            BY <1>3, <3>1, MinExists
        <3> QED BY <3>2 DEF places
    <2> HIDE DEF k
    <2>4. /\ shorter \in Seq(S)
          /\ Len(shorter) = n - 1
          /\ \A i \in 1 .. n - 1 : shorter[i] = IF i < k THEN list[i] ELSE list[i + 1]
        BY <2>3, RemoveAtParts
    <2> HIDE DEF shorter
    <2>5. n - 1 \in Nat /\ DOMAIN shorter = 1 .. n - 1
        BY <1>1, <2>3, <2>4, LenProperties
    <2> DEFINE old(i) == IF i < k THEN i ELSE i + 1
    <2>6. \A i \in 1 .. n - 1 : old(i) \in 1..n /\ old(i) # k /\ shorter[i] = list[old(i)]
        <3>1. \A i \in 1 .. n - 1 : old(i) \in 1..n /\ old(i) # k
            BY <1>1, <2>3
        <3> QED BY <2>4, <3>1
    <2>7. \A j \in 1..n : j # k => \E i \in 1 .. n - 1 : old(i) = j
        <3> SUFFICES ASSUME NEW j \in 1..n, j # k PROVE \E i \in 1 .. n - 1 : old(i) = j
            OBVIOUS
        <3>1. CASE j < k
            <4>1. j \in 1 .. n - 1 /\ old(j) = j
                BY <1>1, <2>3, <3>1
            <4> QED BY <4>1
        <3>2. CASE ~(j < k)
            <4>1. j - 1 \in 1 .. n - 1 /\ old(j - 1) = j
                BY <1>1, <2>3, <3>2
            <4> QED BY <4>1
        <3> QED BY <3>1, <3>2
    <2>8. \A i, j \in 1 .. n - 1 : old(i) = old(j) => i = j
        BY <1>1, <2>3
    <2> HIDE DEF old
    <2>9. \A i \in 1..n : list[i] = e => i = k
        BY <1>1, <2>3 DEF IsInjective
    <2>10. Range(shorter) = Range(list) \ {e}
        <3>1. ASSUME NEW x \in Range(shorter) PROVE x \in Range(list) \ {e}
            <4>1. PICK i \in 1 .. n - 1 : x = shorter[i]
                BY <2>5 DEF Range
            <4> QED BY <1>1, <2>6, <2>9, <4>1 DEF Range
        <3>2. ASSUME NEW x \in Range(list) \ {e} PROVE x \in Range(shorter)
            <4>1. PICK j \in 1..n : x = list[j]
                BY <1>1 DEF Range
            <4>2. j # k
                BY <2>3, <4>1
            <4>3. PICK i \in 1 .. n - 1 : old(i) = j
                BY <2>7, <4>2
            <4> QED BY <2>5, <2>6, <4>1, <4>3 DEF Range
        <3> QED BY <3>1, <3>2
    <2>11. IsInjective(shorter)
        <3> SUFFICES ASSUME NEW i \in 1 .. n - 1, NEW j \in 1 .. n - 1, shorter[i] = shorter[j]
                     PROVE  i = j
            BY <2>5 DEF IsInjective
        <3>1. old(i) = old(j)
            BY <1>1, <2>6 DEF IsInjective
        <3> QED BY <2>8, <3>1
    <2> QED BY <2>2, <2>4, <2>10, <2>11
<1> QED BY <1>2, <1>3

-----------------------------------------------------------------------------
(* The pool and the kernel timer.                                          *)

\* The types by name.
LEMMA Typed ==
    ASSUME TypeOK
    PROVE  /\ \A s \in Slots : timerRepo[s] # NotUsed =>
                 timerRepo[s].client \in Clients /\ timerRepo[s].deadline \in Times
           /\ timerRepo = [s \in Slots |-> timerRepo[s]]
           /\ submittedTimers \in Seq(Slots)
           /\ Range(submittedTimers) \subseteq Slots
           /\ \A c \in Clients : handle[c] \in Slots \cup {0}
           /\ handle = [c \in Clients |-> handle[c]]
           /\ calling = [c \in Clients |-> calling[c]]
           /\ clock \in Nat /\ clock \in Times /\ Times \subseteq Nat
           /\ kernelTimer \in Times \cup {Stopped}
           /\ worker # Idle => /\ worker.phase \in {"picked", "running"}
                              /\ worker.client \in Clients
                              /\ worker.timer \in Slots
<1>1. \A s \in Slots : timerRepo[s] \in [client : Clients, deadline : Times] \cup {NotUsed}
    BY DEF TypeOK
<1>2. Range(submittedTimers) \subseteq Slots
    BY LenProperties, ElementOfSeq DEF TypeOK, Range
<1>3. Times \subseteq Nat /\ clock \in Times
    BY TimerAssumption DEF Times, TypeOK
<1>4. \A s \in Slots : timerRepo[s] # NotUsed =>
         timerRepo[s].client \in Clients /\ timerRepo[s].deadline \in Times
    BY <1>1
<1>5. worker # Idle => worker \in [phase : {"picked", "running"}, client : Clients, timer : Slots]
    BY DEF TypeOK
<1>6. worker # Idle => /\ worker.phase \in {"picked", "running"}
                       /\ worker.client \in Clients
                       /\ worker.timer \in Slots
    BY <1>5
<1>7. /\ timerRepo = [s \in Slots |-> timerRepo[s]] /\ handle = [c \in Clients |-> handle[c]]
      /\ calling = [c \in Clients |-> calling[c]]
      /\ \A c \in Clients : handle[c] \in Slots \cup {0}
      /\ submittedTimers \in Seq(Slots) /\ kernelTimer \in Times \cup {Stopped}
    BY DEF TypeOK
<1> QED BY <1>2, <1>3, <1>4, <1>6, <1>7

\* A slot that is used is not NotUsed, and has a client.
LEMMA UsedSlot ==
    ASSUME NEW c \in Clients, NEW deadline \in Times
    PROVE  /\ [client |-> c, deadline |-> deadline] # NotUsed
           /\ NotUsed.client \notin Clients
           /\ [client |-> c, deadline |-> deadline] \in [client : Clients, deadline : Times]
BY TimerAssumption DEF NotUsed

\* RescheduleTimer starts the kernel timer in time for each timer of the list.
LEMMA RescheduleParts ==
    ASSUME NEW repo, NEW list \in Seq(Slots), \A s \in Range(list) : repo[s].deadline \in Times,
           clock \in Times
    PROVE  /\ RescheduleTimer(repo, list) \in Times \cup {Stopped}
           /\ list # <<>> =>
                /\ RescheduleTimer(repo, list) # Stopped
                /\ \A s \in Range(list) : \/ RescheduleTimer(repo, list) <= repo[s].deadline
                                          \/ RescheduleTimer(repo, list) <= clock
<1> DEFINE deadlines == {repo[s].deadline : s \in Range(list)}
           m == Min(deadlines)
           k == Max({m, clock})
<1>1. CASE list = <<>>
    BY <1>1 DEF RescheduleTimer
<1>2. CASE list # <<>>
    <2>1. RescheduleTimer(repo, list) = k
        BY <1>2 DEF RescheduleTimer
    <2>2. deadlines # {}
        <3>1. 1 \in DOMAIN list
            BY <1>2, LenProperties, EmptySeq
        <3>2. list[1] \in Range(list)
            BY <3>1 DEF Range
        <3> QED BY <3>2
    <2>3. deadlines \subseteq Times /\ Times \subseteq Nat
        BY TimerAssumption DEF Times
    <2>4. \A s \in Range(list) : repo[s].deadline \in deadlines
        OBVIOUS
    <2> HIDE DEF deadlines
    <2>5. m \in Times /\ \A x \in deadlines : m <= x
        BY <2>2, <2>3, MinExists
    <2> HIDE DEF m
    <2>6. k \in {m, clock} /\ k >= m /\ k >= clock
        <3>1. m \in Int /\ clock \in Int
            BY <2>3, <2>5
        <3> QED BY <3>1, MaxOfTwo
    <2> HIDE DEF k
    <2>7. k \in Times /\ k # Stopped
        BY <2>3, <2>5, <2>6 DEF Stopped
    <2>8. \A s \in Range(list) : k <= repo[s].deadline \/ k <= clock
        <3>1. CASE k = m
            BY <2>4, <2>5, <3>1
        <3>2. CASE k = clock
            BY <2>3, <2>7, <3>2
        <3> QED BY <2>6, <3>1, <3>2
    <2> QED BY <2>1, <2>7, <2>8
<1> QED BY <1>1, <1>2

\* What the timers of the list have in common with the slots in use.
LEMMA ListedSlots ==
    ASSUME TypeOK, SlotsAccounted
    PROVE  \A s \in Slots : /\ s \in Range(submittedTimers) <=> timerRepo[s] # NotUsed
                            /\ s \in Range(submittedTimers) =>
                                  timerRepo[s].client \in Clients /\ timerRepo[s].deadline \in Times
BY Typed DEF SlotsAccounted

-----------------------------------------------------------------------------
(* The initial states and the steps.                                       *)

LEMMA TimerInvInit == Init => TimerInv
<1> SUFFICES ASSUME Init PROVE TimerInv
    OBVIOUS
<1>1. TypeOK
    <2>1. submittedTimers \in Seq(Slots)
        BY EmptySeq DEF Init
    <2>2. clock \in Times
        BY TimerAssumption DEF Init, Times
    <2> QED BY <2>1, <2>2 DEF Init, TypeOK
<1>2. Range(submittedTimers) = {} /\ IsInjective(submittedTimers)
    BY EmptySeq DEF Init, Range, IsInjective
<1>3. SlotsAccounted
    BY <1>2 DEF Init, SlotsAccounted
<1> QED BY <1>1, <1>3
        DEF Init, TimerInv, WakeupArranged, CallbackFindsItsTimer, CallsUndisturbed,
            TimersAreReferenced, ReferencesAreTimers, Idle

\* A step that leaves the timers and the references alone.
LEMMA KeepTimerInv ==
    ASSUME TimerInv, TypeOK', WakeupArranged',
           UNCHANGED <<timerRepo, submittedTimers, handle, preemptible>>,
           \A c \in Clients : calling'[c] = calling[c] \/ calling'[c] = NotCalling,
           initialized' = initialized, updateMode => updateMode',
           worker'.phase = "picked" => worker' = worker,
           worker.phase = "picked" => worker' = worker \/ updateMode
    PROVE  TimerInv'
BY DEF TimerInv, SlotsAccounted, CallbackFindsItsTimer, CallsUndisturbed, TimersAreReferenced,
       ReferencesAreTimers

LEMMA SubmitImmediateStep ==
    ASSUME TimerInv, NEW c \in Clients, SubmitImmediate(c)
    PROVE  TimerInv'
<1>1. TypeOK'
    BY DEF TimerInv, TypeOK, SubmitImmediate
<1>2. WakeupArranged'
    BY DEF WakeupArranged, SubmitImmediate
<1> QED BY <1>1, <1>2, KeepTimerInv DEF SubmitImmediate

LEMMA TimerHandlerISRStep ==
    ASSUME TimerInv, TimerHandlerISR
    PROVE  TimerInv'
<1>1. TypeOK'
    BY DEF TimerInv, TypeOK, TimerHandlerISR
<1>2. WakeupArranged'
    BY DEF WakeupArranged, TimerHandlerISR
<1> QED BY <1>1, <1>2, KeepTimerInv DEF TimerHandlerISR

LEMMA EndCallbackStep ==
    ASSUME TimerInv, EndCallback
    PROVE  TimerInv'
<1>1. TypeOK'
    BY DEF TimerInv, TypeOK, EndCallback
<1>2. WakeupArranged'
    BY DEF WakeupArranged, EndCallback
<1>3. worker.phase = "picked" => updateMode
    BY DEF EndCallback, ShouldBeBlocked
<1> QED BY <1>1, <1>2, <1>3, KeepTimerInv DEF EndCallback, Idle

LEMMA EnterUpdateModeStep ==
    ASSUME TimerInv, EnterUpdateMode
    PROVE  TimerInv'
<1>1. TypeOK'
    BY DEF TimerInv, TypeOK, EnterUpdateMode
<1>2. WakeupArranged'
    BY DEF TimerInv, WakeupArranged, EnterUpdateMode
<1> QED BY <1>1, <1>2, KeepTimerInv DEF EnterUpdateMode

\* The kernel timer that was due stays due.
LEMMA TickStep ==
    ASSUME TimerInv, Tick
    PROVE  TimerInv'
<1>1. clock \in Nat /\ clock' = clock + 1 /\ clock' \in Times
    BY Typed, TimerAssumption DEF TimerInv, Tick, Times
<1>2. TypeOK'
    BY <1>1 DEF TimerInv, TypeOK, Tick
<1>3. WakeupArranged'
    <2>1. kernelTimer \in Int
        BY Typed DEF TimerInv, Stopped
    <2>2. kernelTimer <= clock => kernelTimer <= clock'
        BY <1>1, <2>1
    <2> QED BY <2>2 DEF TimerInv, WakeupArranged, Tick
<1> QED BY <1>2, <1>3, KeepTimerInv DEF Tick

LEMMA StutterStep ==
    ASSUME TimerInv, UNCHANGED vars
    PROVE  TimerInv'
BY DEF vars, TimerInv, TypeOK, SlotsAccounted, WakeupArranged, CallbackFindsItsTimer,
       CallsUndisturbed, TimersAreReferenced, ReferencesAreTimers

\* While threads switch only where they block, no other thread runs between
\* the choice of a callback and its start, or between the two locks of a call.
LEMMA SwitchTogether ==
    Switch /\ ~preemptible =>
        worker.phase # "picked" /\ \A c \in Clients : calling[c] = NotCalling
BY DEF Switch

\* Initialize clears pool and list together, and with cooperative threads only
\* when nobody has a timer.
LEMMA CallStep ==
    ASSUME TimerInv, NEW c \in Clients, Call(c)
    PROVE  TimerInv'
<1>1. /\ TypeOK /\ SlotsAccounted /\ WakeupArranged /\ CallbackFindsItsTimer
      /\ TimersAreReferenced /\ ReferencesAreTimers /\ CallsUndisturbed
    BY DEF TimerInv
<1>2. /\ UNCHANGED <<kernelTimer, worker, submitting, blackList, updateMode, handle, clock,
                     preemptible>>
      /\ calling' = [calling EXCEPT ![c] = handle[c]]
      /\ initialized' = TRUE
    BY DEF Call, Initialize
<1>3. ~preemptible => worker.phase # "picked" /\ \A d \in Clients : calling[d] = NotCalling
    BY SwitchTogether DEF Call
<1>4. /\ calling'[c] = handle[c]
      /\ \A d \in Clients : d # c => calling'[d] = calling[d]
      /\ calling' \in [Clients -> Slots \cup {0, NotCalling}]
    BY <1>1, <1>2, Typed DEF TypeOK
<1>5. CallsUndisturbed'
    BY <1>2, <1>3, <1>4 DEF CallsUndisturbed
<1>6. CASE initialized
    <2>1. UNCHANGED <<timerRepo, submittedTimers, workPending>>
        BY <1>6 DEF Call, Initialize
    <2>2. TypeOK'
        BY <1>1, <1>2, <1>4, <2>1 DEF TypeOK
    <2>3. SlotsAccounted' /\ WakeupArranged' /\ CallbackFindsItsTimer'
        BY <1>1, <1>2, <2>1 DEF SlotsAccounted, WakeupArranged, CallbackFindsItsTimer
    <2>4. TimersAreReferenced' /\ ReferencesAreTimers'
        BY <1>1, <1>2, <2>1 DEF TimersAreReferenced, ReferencesAreTimers
    <2> QED BY <1>5, <2>2, <2>3, <2>4 DEF TimerInv
<1>7. CASE ~initialized
    <2>1. /\ timerRepo' = [s \in Slots |-> NotUsed]
          /\ submittedTimers' = <<>>
          /\ workPending' \in {workPending, FALSE}
        BY <1>7 DEF Call, Initialize
    <2>2. TypeOK'
        <3>1. /\ timerRepo' \in [Slots -> [client : Clients, deadline : Times] \cup {NotUsed}]
              /\ submittedTimers' \in Seq(Slots)
            BY <2>1, EmptySeq
        <3>2. workPending' \in BOOLEAN
            BY <1>1, <2>1 DEF TypeOK
        <3> QED BY <1>1, <1>2, <1>4, <3>1, <3>2 DEF TypeOK
    <2>3. SlotsAccounted'
        <3>1. Range(submittedTimers') = {} /\ IsInjective(submittedTimers')
            BY <2>1, EmptySeq DEF Range, IsInjective
        <3> QED BY <2>1, <3>1 DEF SlotsAccounted
    <2>4. WakeupArranged' /\ CallbackFindsItsTimer'
        BY <1>1, <1>2, <2>1 DEF WakeupArranged, CallbackFindsItsTimer
    <2>5. TimersAreReferenced'
        BY <1>2, <1>3, <2>1 DEF TimersAreReferenced
    <2>6. ReferencesAreTimers'
        BY <1>1, <1>2, <1>7 DEF ReferencesAreTimers, CallsUndisturbed
    <2> QED BY <1>5, <2>2, <2>3, <2>4, <2>5, <2>6 DEF TimerInv
<1> QED BY <1>6, <1>7

\* The call that ends is no longer under way.
LEMMA CallEnds ==
    ASSUME TypeOK, NEW c \in Clients, calling' = [calling EXCEPT ![c] = NotCalling]
    PROVE  /\ calling'[c] = NotCalling
           /\ \A d \in Clients : d # c => calling'[d] = calling[d]
           /\ calling' \in [Clients -> Slots \cup {0, NotCalling}]
BY Typed DEF TypeOK

LEMMA BlackListTyped ==
    ASSUME TypeOK, NEW c \in Clients, AddTimerToBlackList(c)
    PROVE  blackList' \subseteq Limited
BY DEF TypeOK, AddTimerToBlackList

LEMMA RegisterStep ==
    ASSUME TimerInv, NEW c \in Clients, NEW deadline \in Times, Register(c, deadline)
    PROVE  TimerInv'
<1> DEFINE s == PlaceInRepo(timerRepo)
           new == [client |-> c, deadline |-> deadline]
<1>1. /\ TypeOK /\ SlotsAccounted /\ WakeupArranged
      /\ TimersAreReferenced /\ ReferencesAreTimers /\ CallsUndisturbed
    BY DEF TimerInv
<1>2. /\ calling'[c] = NotCalling
      /\ \A d \in Clients : d # c => calling'[d] = calling[d]
      /\ calling' \in [Clients -> Slots \cup {0, NotCalling}]
    BY <1>1, CallEnds DEF Register
<1>3. blackList' \subseteq Limited
    BY <1>1, BlackListTyped DEF Register
<1>4. UNCHANGED <<workPending, worker, updateMode, initialized, clock, preemptible>>
    BY DEF Register
<1>5. ~preemptible => initialized /\ handle[c] = 0 /\ worker.phase # "picked"
    <2>1. calling[c] = 0 /\ 0 # NotCalling
        BY DEF Register, NotCalling
    <2> QED BY <1>1, <2>1 DEF CallsUndisturbed
<1>6. CASE FreeSlots(timerRepo) = {}
    <2>1. UNCHANGED <<timerRepo, submittedTimers, handle, kernelTimer, submitting>>
        BY <1>6 DEF Register
    <2>3. TypeOK'
        BY <1>1, <1>2, <1>3, <1>4, <2>1 DEF TypeOK
    <2>4. WakeupArranged'
        BY <1>1, <1>4, <2>1 DEF WakeupArranged
    <2> QED BY <1>2, <1>4, <2>1, <2>3, <2>4, KeepTimerInv
<1>7. CASE FreeSlots(timerRepo) # {}
    <2>1. /\ timerRepo' = [timerRepo EXCEPT ![s] = new]
          /\ submittedTimers' = Append(submittedTimers, s)
          /\ handle' = [handle EXCEPT ![c] = s]
        BY <1>7 DEF Register
    <2>2. \/ deadline <= clock /\ kernelTimer' = Stopped /\ submitting' = submitting \cup {c}
          \/ kernelTimer' = RescheduleTimer(timerRepo', submittedTimers') /\ submitting' = submitting
        BY <1>7 DEF Register
    <2>3. s \in Slots /\ timerRepo[s] = NotUsed
        <3>1. FreeSlots(timerRepo) \subseteq Nat
            BY DEF FreeSlots, Slots
        <3>2. s \in FreeSlots(timerRepo)
            BY <1>7, <3>1, MinExists DEF PlaceInRepo
        <3> QED BY <3>2 DEF FreeSlots
    <2> HIDE DEF s
    <2>4. new # NotUsed /\ new.client = c /\ new.deadline = deadline /\ NotUsed.client \notin Clients
          /\ new \in [client : Clients, deadline : Times]
        BY UsedSlot
    <2> HIDE DEF new
    <2>5. /\ timerRepo'[s] = new
          /\ \A t \in Slots : t # s => timerRepo'[t] = timerRepo[t]
          /\ handle'[c] = s
          /\ \A d \in Clients : d # c => handle'[d] = handle[d]
        BY <1>1, <2>1, <2>3, Typed
    <2>6. /\ submittedTimers' \in Seq(Slots)
          /\ Range(submittedTimers') = Range(submittedTimers) \cup {s}
          /\ IsInjective(submittedTimers')
          /\ submittedTimers' # <<>>
        <3>1. submittedTimers \in Seq(Slots) /\ IsInjective(submittedTimers)
              /\ s \notin Range(submittedTimers)
            BY <1>1, <2>3, Typed DEF SlotsAccounted
        <3> QED BY <2>1, <2>3, <3>1, AppendParts
    <2>7. SlotsAccounted'
        <3>1. Range(submittedTimers') = {t \in Slots : timerRepo'[t] # NotUsed}
            BY <1>1, <2>3, <2>4, <2>5, <2>6 DEF SlotsAccounted
        <3> QED BY <2>6, <3>1 DEF SlotsAccounted
    <2>8. \A t \in Range(submittedTimers') : timerRepo'[t].deadline \in Times
        <3> SUFFICES ASSUME NEW t \in Range(submittedTimers') PROVE timerRepo'[t].deadline \in Times
            OBVIOUS
        <3>1. CASE t = s
            BY <2>4, <2>5, <3>1
        <3>2. CASE t # s
            <4>1. t \in Slots /\ t \in Range(submittedTimers)
                BY <1>1, <2>6, <3>2, Typed
            <4> QED BY <1>1, <2>5, <3>2, <4>1, ListedSlots
        <3> QED BY <3>1, <3>2
    <2>9. clock \in Times
        BY <1>1, Typed
    <2>10. RescheduleTimer(timerRepo', submittedTimers') \in Times \cup {Stopped}
          /\ RescheduleTimer(timerRepo', submittedTimers') # Stopped
          /\ \A t \in Range(submittedTimers') :
                \/ RescheduleTimer(timerRepo', submittedTimers') <= timerRepo'[t].deadline
                \/ RescheduleTimer(timerRepo', submittedTimers') <= clock
        BY <2>6, <2>8, <2>9, RescheduleParts
    <2>11. TypeOK'
        <3>1. timerRepo' \in [Slots -> [client : Clients, deadline : Times] \cup {NotUsed}]
            BY <1>1, <2>1, <2>4 DEF TypeOK
        <3>2. handle' \in [Clients -> Slots \cup {0}]
            BY <1>1, <2>1, <2>3 DEF TypeOK
        <3>3. kernelTimer' \in Times \cup {Stopped} /\ submitting' \subseteq Clients
            BY <1>1, <2>2, <2>10 DEF TypeOK
        <3> QED BY <1>1, <1>2, <1>3, <1>4, <2>6, <3>1, <3>2, <3>3 DEF TypeOK
    <2>12. WakeupArranged'
        BY <1>4, <2>2, <2>10 DEF WakeupArranged
    <2>13. CallsUndisturbed'
        BY <1>1, <1>2, <1>4, <1>5, <2>5 DEF CallsUndisturbed
    <2>14. TimersAreReferenced'
        <3> SUFFICES ASSUME ~preemptible, NEW t \in Slots, timerRepo'[t] # NotUsed
                     PROVE  handle'[timerRepo'[t].client] = t
            BY <1>4, <1>5 DEF TimersAreReferenced
        <3>1. CASE t = s
            BY <2>4, <2>5, <3>1
        <3>2. CASE t # s
            <4>1. /\ timerRepo'[t] = timerRepo[t] /\ timerRepo[t].client \in Clients
                  /\ handle[timerRepo[t].client] = t
                BY <1>1, <2>5, <3>2, Typed DEF TimersAreReferenced
            <4>2. t # 0
                BY DEF Slots
            <4> QED BY <1>5, <2>5, <4>1, <4>2
        <3> QED BY <3>1, <3>2
    <2>15. ReferencesAreTimers'
        <3> SUFFICES ASSUME ~preemptible, ~updateMode, NEW d \in Clients, handle'[d] # 0
                     PROVE  timerRepo'[handle'[d]].client = d
            BY <1>4 DEF ReferencesAreTimers
        <3>1. CASE d = c
            BY <2>4, <2>5, <3>1
        <3>2. CASE d # c
            <4>1. handle'[d] = handle[d] /\ handle[d] \in Slots
                BY <1>1, <2>5, <3>2, Typed
            <4>2. timerRepo[handle[d]].client = d
                BY <1>1, <1>5, <4>1 DEF ReferencesAreTimers
            <4> QED BY <2>3, <2>4, <2>5, <4>1, <4>2
        <3> QED BY <3>1, <3>2
    <2> QED BY <1>4, <1>5, <2>7, <2>11, <2>12, <2>13, <2>14, <2>15
            DEF TimerInv, CallbackFindsItsTimer
<1> QED BY <1>6, <1>7

\* What is left of list and pool when the timer of a slot leaves both.
LEMMA LeaveParts ==
    ASSUME TypeOK, SlotsAccounted, NEW s \in Slots,
           timerRepo' = [timerRepo EXCEPT ![s] = NotUsed],
           submittedTimers' = RemoveFirst(submittedTimers, s)
    PROVE  /\ timerRepo'[s] = NotUsed
           /\ \A t \in Slots : t # s => timerRepo'[t] = timerRepo[t]
           /\ timerRepo' \in [Slots -> [client : Clients, deadline : Times] \cup {NotUsed}]
           /\ submittedTimers' \in Seq(Slots)
           /\ Range(submittedTimers') = Range(submittedTimers) \ {s}
           /\ SlotsAccounted'
<1>1. /\ timerRepo'[s] = NotUsed
      /\ \A t \in Slots : t # s => timerRepo'[t] = timerRepo[t]
      /\ timerRepo' \in [Slots -> [client : Clients, deadline : Times] \cup {NotUsed}]
    BY DEF TypeOK
<1>2. submittedTimers \in Seq(Slots) /\ IsInjective(submittedTimers)
    BY DEF TypeOK, SlotsAccounted
<1>3. /\ submittedTimers' \in Seq(Slots)
      /\ Range(submittedTimers') = Range(submittedTimers) \ {s}
      /\ IsInjective(submittedTimers')
    BY <1>2, RemoveFirstParts
<1>4. Range(submittedTimers') = {t \in Slots : timerRepo'[t] # NotUsed}
    BY <1>1, <1>3 DEF SlotsAccounted
<1> QED BY <1>1, <1>3, <1>4 DEF SlotsAccounted

\* A reference whose slot is not in the list changes neither list nor pool.
LEMMA NotFoundParts ==
    ASSUME TypeOK, SlotsAccounted, NEW s, s \notin Range(submittedTimers),
           timerRepo' = timerRepo, submittedTimers' = RemoveFirst(submittedTimers, s)
    PROVE  submittedTimers' = submittedTimers
<1>1. \A i \in 1..Len(submittedTimers) : submittedTimers[i] # s
    BY LenProperties DEF TypeOK, Range
<1> QED BY <1>1 DEF RemoveFirst

LEMMA DeregisterStep ==
    ASSUME TimerInv, NEW c \in Clients, Deregister(c)
    PROVE  TimerInv'
<1> DEFINE s == calling[c]
<1>1. /\ TypeOK /\ SlotsAccounted /\ WakeupArranged
      /\ TimersAreReferenced /\ ReferencesAreTimers /\ CallsUndisturbed
    BY DEF TimerInv
<1>2. /\ calling'[c] = NotCalling
      /\ \A d \in Clients : d # c => calling'[d] = calling[d]
      /\ calling' \in [Clients -> Slots \cup {0, NotCalling}]
    BY <1>1, CallEnds DEF Deregister
<1>3. /\ UNCHANGED <<workPending, worker, submitting, blackList, updateMode, initialized, clock,
                     preemptible>>
      /\ kernelTimer' = RescheduleTimer(timerRepo', submittedTimers')
      /\ handle' = [handle EXCEPT ![c] = 0]
    BY DEF Deregister
<1>4. s \in Slots
    BY DEF Deregister
<1>5. /\ handle'[c] = 0
      /\ \A d \in Clients : d # c => handle'[d] = handle[d]
    BY <1>1, <1>3, Typed
<1>6. ~preemptible => s = handle[c] /\ handle[c] # 0 /\ worker.phase # "picked"
    <2>1. s # NotCalling /\ s # 0
        BY <1>4 DEF Slots, NotCalling
    <2> QED BY <1>1, <2>1 DEF CallsUndisturbed
<1>7. /\ timerRepo' \in [Slots -> [client : Clients, deadline : Times] \cup {NotUsed}]
      /\ submittedTimers' \in Seq(Slots)
      /\ SlotsAccounted'
      /\ timerRepo'[s] = NotUsed
      /\ \A t \in Slots : t # s => timerRepo'[t] = timerRepo[t]
    <2>1. CASE s \in Range(submittedTimers)
        <3>1. /\ timerRepo' = [timerRepo EXCEPT ![s] = NotUsed]
              /\ submittedTimers' = RemoveFirst(submittedTimers, s)
            BY <2>1 DEF Deregister
        <3> HIDE DEF s
        <3> QED BY <1>1, <1>4, <3>1, LeaveParts
    <2>2. CASE s \notin Range(submittedTimers)
        <3>1. timerRepo' = timerRepo /\ submittedTimers' = RemoveFirst(submittedTimers, s)
            BY <2>2 DEF Deregister
        <3> HIDE DEF s
        <3>2. submittedTimers' = submittedTimers
            BY <1>1, <2>2, <3>1, NotFoundParts
        <3>3. timerRepo[s] = NotUsed
            BY <1>1, <1>4, <2>2, ListedSlots
        <3> QED BY <1>1, <3>1, <3>2, <3>3 DEF TypeOK, SlotsAccounted
    <2> QED BY <2>1, <2>2
<1>8. \A t \in Range(submittedTimers') : timerRepo'[t].deadline \in Times
    <2>1. \A t \in Slots : timerRepo'[t] # NotUsed => timerRepo'[t].deadline \in Times
        BY <1>7
    <2> QED BY <1>7, <2>1 DEF SlotsAccounted
<1>9. clock \in Times
    BY <1>1, Typed
<1>10. /\ RescheduleTimer(timerRepo', submittedTimers') \in Times \cup {Stopped}
       /\ submittedTimers' # <<>> =>
             /\ RescheduleTimer(timerRepo', submittedTimers') # Stopped
             /\ \A t \in Range(submittedTimers') :
                   \/ RescheduleTimer(timerRepo', submittedTimers') <= timerRepo'[t].deadline
                   \/ RescheduleTimer(timerRepo', submittedTimers') <= clock
    BY <1>7, <1>8, <1>9, RescheduleParts
<1>11. TypeOK'
    <2>1. handle' \in [Clients -> Slots \cup {0}]
        BY <1>1, <1>3 DEF TypeOK
    <2> QED BY <1>1, <1>2, <1>3, <1>7, <1>10, <2>1 DEF TypeOK
<1>12. WakeupArranged'
    BY <1>3, <1>10 DEF WakeupArranged
<1>13. TimersAreReferenced'
    <2> SUFFICES ASSUME ~preemptible, NEW t \in Slots, timerRepo'[t] # NotUsed
                 PROVE  handle'[timerRepo'[t].client] = t
        BY <1>3, <1>6 DEF TimersAreReferenced
    <2>1. t # s /\ timerRepo'[t] = timerRepo[t]
        BY <1>7
    <2>2. timerRepo[t].client \in Clients /\ handle[timerRepo[t].client] = t
        BY <1>1, <2>1, Typed DEF TimersAreReferenced
    <2> QED BY <1>5, <1>6, <2>1, <2>2
<1>14. ReferencesAreTimers'
    <2> SUFFICES ASSUME ~preemptible, ~updateMode, NEW d \in Clients, handle'[d] # 0
                 PROVE  timerRepo'[handle'[d]].client = d
        BY <1>3 DEF ReferencesAreTimers
    <2>1. d # c /\ handle'[d] = handle[d] /\ handle[d] \in Slots
        BY <1>1, <1>5, Typed
    <2>2. timerRepo[handle[d]].client = d
        BY <1>1, <1>6, <2>1 DEF ReferencesAreTimers
    <2>3. timerRepo[s].client = c
        BY <1>1, <1>6 DEF ReferencesAreTimers
    <2> HIDE DEF s
    <2>4. handle[d] # s
        BY <2>1, <2>2, <2>3
    <2> QED BY <1>7, <2>1, <2>2, <2>4
<1>15. CallsUndisturbed'
    BY <1>1, <1>2, <1>3, <1>5 DEF CallsUndisturbed
<1> QED BY <1>3, <1>6, <1>7, <1>11, <1>12, <1>13, <1>14, <1>15
        DEF TimerInv, CallbackFindsItsTimer

LEMMA DeregisterAllStep ==
    ASSUME TimerInv, DeregisterAll
    PROVE  TimerInv'
<1>1. /\ TypeOK
      /\ UNCHANGED <<kernelTimer, worker, calling, submitting, blackList, updateMode, clock,
                     preemptible>>
    BY DEF TimerInv, DeregisterAll
<1>2. /\ timerRepo' = [s \in Slots |-> NotUsed]
      /\ submittedTimers' = <<>>
      /\ initialized' = FALSE
      /\ workPending' \in {workPending, FALSE}
      /\ handle' = [c \in Clients |-> 0]
    BY DEF DeregisterAll
<1>3. TypeOK'
    <2>1. /\ timerRepo' \in [Slots -> [client : Clients, deadline : Times] \cup {NotUsed}]
          /\ submittedTimers' \in Seq(Slots)
        BY <1>2, EmptySeq
    <2>2. workPending' \in BOOLEAN
        BY <1>1, <1>2 DEF TypeOK
    <2>3. handle' \in [Clients -> Slots \cup {0}]
        BY <1>2
    <2> QED BY <1>1, <1>2, <2>1, <2>2, <2>3 DEF TypeOK
<1>4. Range(submittedTimers') = {} /\ IsInjective(submittedTimers')
    BY <1>2, EmptySeq DEF Range, IsInjective
<1>5. SlotsAccounted'
    BY <1>2, <1>4 DEF SlotsAccounted
<1>6. ~preemptible => worker.phase # "picked" /\ \A c \in Clients : calling[c] = NotCalling
    BY SwitchTogether DEF DeregisterAll
<1>7. WakeupArranged' /\ CallbackFindsItsTimer' /\ CallsUndisturbed'
    BY <1>1, <1>2, <1>6 DEF WakeupArranged, CallbackFindsItsTimer, CallsUndisturbed
<1>8. TimersAreReferenced' /\ ReferencesAreTimers'
    BY <1>1, <1>2, <1>6 DEF TimersAreReferenced, ReferencesAreTimers
<1> QED BY <1>3, <1>5, <1>7, <1>8 DEF TimerInv

LEMMA StartCallbackStep ==
    ASSUME TimerInv, StartCallback
    PROVE  TimerInv'
<1> DEFINE c == worker.client
<1>1. /\ TypeOK /\ SlotsAccounted /\ WakeupArranged
      /\ TimersAreReferenced /\ ReferencesAreTimers /\ CallsUndisturbed /\ CallbackFindsItsTimer
    BY DEF TimerInv
<1>2. /\ UNCHANGED <<timerRepo, submittedTimers, kernelTimer, workPending, calling, submitting,
                     blackList, updateMode, initialized, clock, preemptible>>
      /\ handle' = [handle EXCEPT ![c] = 0]
      /\ worker.phase = "picked"
    BY DEF StartCallback
<1>3. worker # Idle /\ worker \in [phase : {"picked", "running"}, client : Clients, timer : Slots]
    BY <1>1, <1>2 DEF TypeOK, Idle
<1>4. /\ worker' \in [phase : {"picked", "running"}, client : Clients, timer : Slots]
      /\ worker'.phase = "running" /\ c \in Clients
    BY <1>3 DEF StartCallback
<1>5. worker' # Idle
    BY <1>4 DEF Idle
<1>6. /\ handle'[c] = 0 /\ handle' \in [Clients -> Slots \cup {0}]
      /\ \A d \in Clients : d # c => handle'[d] = handle[d]
    BY <1>1, <1>2, <1>4 DEF TypeOK
<1>7. TypeOK'
    BY <1>1, <1>2, <1>4, <1>6 DEF TypeOK
<1>8. SlotsAccounted' /\ WakeupArranged' /\ CallbackFindsItsTimer' /\ CallsUndisturbed'
    <2>1. SlotsAccounted' /\ WakeupArranged' /\ CallbackFindsItsTimer'
        BY <1>1, <1>2, <1>4, <1>5 DEF SlotsAccounted, WakeupArranged, CallbackFindsItsTimer
    <2>2. CallsUndisturbed'
        BY <1>1, <1>2, <1>6 DEF CallsUndisturbed
    <2> QED BY <2>1, <2>2
<1>9. TimersAreReferenced'
    <2> SUFFICES ASSUME ~preemptible, NEW t \in Slots, timerRepo[t] # NotUsed
                 PROVE  handle'[timerRepo[t].client] = t
        BY <1>2, <1>4 DEF TimersAreReferenced
    <2>1. timerRepo[t].client \in Clients /\ handle[timerRepo[t].client] = t
        BY <1>1, Typed DEF TimersAreReferenced
    <2>2. handle[c] = worker.timer /\ timerRepo[worker.timer] = NotUsed
        BY <1>1, <1>2 DEF TimersAreReferenced, CallbackFindsItsTimer
    <2>3. timerRepo[t].client # c
        BY <2>1, <2>2
    <2> QED BY <1>6, <2>1, <2>3
<1>10. ReferencesAreTimers'
    <2> SUFFICES ASSUME ~preemptible, ~updateMode, NEW d \in Clients, handle'[d] # 0
                 PROVE  timerRepo[handle'[d]].client = d
        BY <1>2 DEF ReferencesAreTimers
    <2>1. d # c /\ handle'[d] = handle[d]
        BY <1>6
    <2> QED BY <1>1, <2>1 DEF ReferencesAreTimers
<1> QED BY <1>7, <1>8, <1>9, <1>10 DEF TimerInv

LEMMA WorkHandlerStep ==
    ASSUME TimerInv, WorkHandler
    PROVE  TimerInv'
<1>1. /\ TypeOK /\ SlotsAccounted /\ WakeupArranged
      /\ TimersAreReferenced /\ ReferencesAreTimers /\ CallsUndisturbed
    BY DEF TimerInv
<1>2. /\ UNCHANGED <<calling, submitting, blackList, updateMode, initialized, handle, clock,
                     preemptible>>
      /\ workPending' = FALSE /\ worker = Idle /\ worker.phase # "picked"
    BY DEF WorkHandler, Idle
<1>3. CASE Expired = {}
    <2>1. /\ kernelTimer' = RescheduleTimer(timerRepo, submittedTimers)
          /\ UNCHANGED <<timerRepo, submittedTimers, worker>>
        BY <1>3 DEF WorkHandler
    <2>2. /\ RescheduleTimer(timerRepo, submittedTimers) \in Times \cup {Stopped}
          /\ submittedTimers # <<>> =>
                /\ RescheduleTimer(timerRepo, submittedTimers) # Stopped
                /\ \A t \in Range(submittedTimers) :
                      \/ RescheduleTimer(timerRepo, submittedTimers) <= timerRepo[t].deadline
                      \/ RescheduleTimer(timerRepo, submittedTimers) <= clock
        <3>1. submittedTimers \in Seq(Slots) /\ clock \in Times
            BY <1>1, Typed
        <3>2. \A t \in Range(submittedTimers) : timerRepo[t].deadline \in Times
            BY <1>1, Typed, ListedSlots
        <3> QED BY <3>1, <3>2, RescheduleParts
    <2>3. TypeOK'
        BY <1>1, <1>2, <2>1, <2>2 DEF TypeOK
    <2>4. WakeupArranged'
        BY <1>2, <2>1, <2>2 DEF WakeupArranged
    <2> QED BY <1>2, <2>1, <2>3, <2>4, KeepTimerInv
<1>4. CASE Expired # {}
    <2> DEFINE s == submittedTimers[Min(Expired)]
    <2>1. /\ submittedTimers' = RemoveFirst(submittedTimers, s)
          /\ timerRepo' = [timerRepo EXCEPT ![s] = NotUsed]
          /\ worker' = [phase |-> "picked", client |-> timerRepo[s].client, timer |-> s]
          /\ kernelTimer' = kernelTimer
        BY <1>4 DEF WorkHandler
    <2>2. s \in Slots /\ timerRepo[s] # NotUsed
        <3>1. Expired \subseteq Nat /\ Expired \subseteq DOMAIN submittedTimers
            BY <1>1, Typed, LenProperties DEF Expired
        <3>2. Min(Expired) \in DOMAIN submittedTimers
            BY <1>4, <3>1, MinExists
        <3>3. s \in Range(submittedTimers)
            BY <3>2 DEF Range
        <3> HIDE DEF s
        <3> QED BY <1>1, <3>3, Typed, ListedSlots
    <2> HIDE DEF s
    <2>3. timerRepo[s].client \in Clients
        BY <1>1, <2>2, Typed
    <2>4. /\ timerRepo'[s] = NotUsed
          /\ \A t \in Slots : t # s => timerRepo'[t] = timerRepo[t]
          /\ timerRepo' \in [Slots -> [client : Clients, deadline : Times] \cup {NotUsed}]
          /\ submittedTimers' \in Seq(Slots)
          /\ Range(submittedTimers') = Range(submittedTimers) \ {s}
          /\ SlotsAccounted'
        BY <1>1, <2>1, <2>2, LeaveParts
    <2>5. /\ worker' \in [phase : {"picked", "running"}, client : Clients, timer : Slots]
          /\ worker'.phase = "picked" /\ worker'.client = timerRepo[s].client /\ worker'.timer = s
        BY <2>1, <2>2, <2>3
    <2>6. worker' # Idle
        BY <2>5 DEF Idle
    <2>7. TypeOK'
        BY <1>1, <1>2, <2>1, <2>4, <2>5 DEF TypeOK
    <2>8. WakeupArranged'
        BY <2>6 DEF WakeupArranged
    <2>9. CallsUndisturbed'
        <3>1. ~preemptible => \A d \in Clients : calling[d] = NotCalling
            BY SwitchTogether DEF WorkHandler
        <3> QED BY <1>1, <1>2, <3>1 DEF CallsUndisturbed
    <2>10. ~preemptible => handle[timerRepo[s].client] = s
        BY <1>1, <2>2 DEF TimersAreReferenced
    <2>11. CallbackFindsItsTimer'
        BY <1>2, <2>5, <2>10 DEF CallbackFindsItsTimer
    <2>12. TimersAreReferenced'
        BY <1>1, <1>2, <2>4, <2>5 DEF TimersAreReferenced
    <2>13. ReferencesAreTimers'
        <3> SUFFICES ASSUME ~preemptible, ~updateMode, NEW d \in Clients, handle[d] # 0
                     PROVE  timerRepo'[handle[d]].client = d \/ worker'.client = d
            BY <1>2, <2>5 DEF ReferencesAreTimers
        <3>1. handle[d] \in Slots /\ timerRepo[handle[d]].client = d
            BY <1>1, <1>2, Typed DEF ReferencesAreTimers
        <3>2. CASE handle[d] = s
            BY <2>5, <3>1, <3>2
        <3>3. CASE handle[d] # s
            BY <2>4, <3>1, <3>3
        <3> QED BY <3>2, <3>3
    <2> QED BY <2>4, <2>7, <2>8, <2>9, <2>11, <2>12, <2>13 DEF TimerInv
<1> QED BY <1>3, <1>4

LEMMA TimerInvStep == TimerInv /\ [Next]_vars => TimerInv'
<1> SUFFICES ASSUME TimerInv, [Next]_vars PROVE TimerInv'
    OBVIOUS
<1>1. ASSUME NEW c \in Clients, NEW deadline \in Times, Register(c, deadline) PROVE TimerInv'
    BY <1>1, RegisterStep
<1>2. ASSUME NEW c \in Clients, Call(c) \/ SubmitImmediate(c) \/ Deregister(c) PROVE TimerInv'
    BY <1>2, CallStep, SubmitImmediateStep, DeregisterStep
<1> QED
    BY <1>1, <1>2, DeregisterAllStep, TimerHandlerISRStep, WorkHandlerStep, StartCallbackStep,
       EndCallbackStep, EnterUpdateModeStep, TickStep, StutterStep
    DEF Next

\* A client whose reference is that of its own timer removes no other one.
LEMMA RemovesOwn ==
    ASSUME TimerInv, NEW c \in Clients, ~updateMode, ~preemptible
    PROVE  RemovesOwnTimer(c)
<1> SUFFICES ASSUME Deregister(c), NEW s \in Range(submittedTimers), timerRepo[s].client # c
             PROVE  s \in Range(submittedTimers')
    BY DEF RemovesOwnTimer
<1>1. TypeOK /\ SlotsAccounted /\ ReferencesAreTimers /\ CallsUndisturbed
    BY DEF TimerInv
<1>2. submittedTimers' = RemoveFirst(submittedTimers, calling[c]) /\ calling[c] \in Slots
    BY DEF Deregister
<1>3. calling[c] = handle[c] /\ handle[c] # 0 /\ worker.phase # "picked"
    <2>1. calling[c] # NotCalling /\ calling[c] # 0
        BY <1>2 DEF Slots, NotCalling
    <2> QED BY <1>1, <2>1 DEF CallsUndisturbed
<1>4. timerRepo[handle[c]].client = c
    BY <1>1, <1>3 DEF ReferencesAreTimers
<1>5. Range(submittedTimers') = Range(submittedTimers) \ {calling[c]}
    <2>1. submittedTimers \in Seq(Slots) /\ IsInjective(submittedTimers)
        BY <1>1 DEF TypeOK, SlotsAccounted
    <2> QED BY <1>2, <2>1, RemoveFirstParts
<1> QED BY <1>3, <1>4, <1>5

-----------------------------------------------------------------------------
(* The theorems.                                                           *)

\* Slots, clients and times stay what they are (PlaceInRepo, ClearTimer, the
\* black list, the kernel timer).
THEOREM TimerTypeCorrect == Spec => []TypeOK
<1>1. TimerInv => TypeOK
    BY DEF TimerInv
<1> QED BY <1>1, TimerInvInit, TimerInvStep, PTL DEF Spec

\* No slot of the pool leaks, and none is in use twice (PlaceInRepo,
\* HAPPlatformTimerDeregister, WorkHandler).
THEOREM SlotsKept == Spec => []SlotsAccounted
<1>1. TimerInv => SlotsAccounted
    BY DEF TimerInv
<1> QED BY <1>1, TimerInvInit, TimerInvStep, PTL DEF Spec

\* No wake-up is missed: as long as a timer is registered the handler is on its
\* way to the list, or the kernel timer is started in time (RescheduleTimer,
\* k_work_submit, k_work_init).
THEOREM NoMissedWakeup == Spec => []WakeupArranged
<1>1. TimerInv => WakeupArranged
    BY DEF TimerInv
<1> QED BY <1>1, TimerInvInit, TimerInvStep, PTL DEF Spec

\* With cooperative threads a callback finds its own timer in its client's
\* variable (WorkHandler, IdentifyTimerExpired).
THEOREM CallbackOwnsTimer == Spec => []CallbackFindsItsTimer
<1>1. TimerInv => CallbackFindsItsTimer
    BY DEF TimerInv
<1> QED BY <1>1, TimerInvInit, TimerInvStep, PTL DEF Spec

\* With cooperative threads and without a firmware update, a client removes no
\* other client's timer, although slots are used again
\* (HAPPlatformTimerDeregister).
THEOREM OwnTimerRemoved == Spec => DeregisterRemovesOwn
<1>1. TimerInv => \A c \in Clients : ~updateMode /\ ~preemptible => RemovesOwnTimer(c)
    BY RemovesOwn
<1> QED BY <1>1, TimerInvInit, TimerInvStep, PTL DEF Spec, DeregisterRemovesOwn

=============================================================================
