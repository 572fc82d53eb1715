--------------------------- MODULE RunLoopProofs ---------------------------
(***************************************************************************)
(* Proofs about KeyValueStore and RunLoop, for any number of threads,      *)
(* records and values, any size of a purge's repository, of the queue and  *)
(* of the heap: the store implements RecordStore, an enumeration visits    *)
(* every key, and the run loop ends only when nobody writes.               *)
(***************************************************************************)
EXTENDS RunLoop, FiniteSetTheorems, TLAPS

Keys == {r[2] : r \in Records}

Kinds == {"none", "get", "set", "remove", "purge", "enumerate"}
Ops == [kind : Kinds, phase : Kinds \cup {"waiting", "save", "delete"},
        record : Records \cup {NoValue}, domain : Domains \cup {NoValue},
        value : Values \cup {NoValue}, repo : SUBSET Keys, more : BOOLEAN]
Enums == [active : BOOLEAN, keys : Seq(Keys), next : Nat \ {0}, found : SUBSET Keys,
          visited : Seq(Keys)]

Shared == [record : Records \cup {NoValue}, buffer : Values \cup {NoValue},
           loading : BOOLEAN, enumerating : BOOLEAN, keys : Seq(Keys)]

\* The shapes of the store's variables.
StoreShapes ==
    /\ store \in [Records -> Values \cup {NoValue}]
    /\ busy \in BOOLEAN
    /\ mutex \in Threads \cup {Nobody}
    /\ shared \in Shared
    /\ op \in [Threads -> Ops]
    /\ enum \in [Threads -> Enums]

\* An operation that has been asked for, with its arguments.
WellFormed(o) ==
    /\ o \in Ops
    /\ o.kind \in {"get", "set", "remove"} => o.record \in Records
    /\ o.kind = "set" => o.value \in Values
    /\ o.kind \in {"purge", "enumerate"} => o.domain \in Domains

\* The owner of the mutex is the one thread in an operation, of which the shared
\* variables are; the flag says busy for it.
Owned(t) ==
    LET o == op[t] IN
    /\ o.phase # "none" => WellFormed(o) /\ o.kind # "none"
    /\ o.phase \notin {"none", "waiting"} =>
          /\ mutex = t
          /\ o.phase = "save" => o.kind = "set"
          /\ o.phase = "delete" => o.kind = "purge"
          /\ o.phase \notin {"save", "delete"} => o.kind = o.phase
          /\ o.phase # "enumerate" => busy
    /\ o.phase \in {"get", "set", "remove"} => shared.record = o.record
    /\ o.phase = "set" => shared.buffer = o.value
    /\ o.phase = "delete" =>
          /\ o.repo \subseteq KeysOf(o.domain)
          /\ ~o.more => o.repo = KeysOf(o.domain)

OwnerInv == \A t \in Threads : Owned(t)

\* A thread's copy of the keys is what it has found, and is visited in order.
EnumInv ==
    \A t \in Threads :
        LET e == enum[t] IN
        /\ {e.keys[i] : i \in DOMAIN e.keys} = e.found
        /\ e.next = Len(e.visited) + 1 /\ e.next <= Len(e.keys) + 1
        /\ \A i \in DOMAIN e.visited : e.visited[i] = e.keys[i]

StoreInv == StoreShapes /\ OwnerInv /\ EnumInv

\* The events of a queue that have a context.
Contexts(q) == {i \in DOMAIN q : q[i]}
One(b) == IF b THEN 1 ELSE 0

\* The heap holds at least the contexts that are accounted for.
LoopInv ==
    /\ state \in {"Idle", "Running", "Stopping"}
    /\ position \in {"start", "get", "callback", "exited", "restarted"}
    /\ queue \in Seq(BOOLEAN) /\ Len(queue) <= MaxElements
    /\ event \in BOOLEAN /\ (position # "callback" => event = FALSE)
    /\ heap \in 0 .. HeapSize /\ Held <= heap

-----------------------------------------------------------------------------
(* Operations, calls and enumerations.                                     *)

LEMMA Arguments ==
  /\ NoOp \in Ops /\ NoOp.phase = "none" /\ NoOp.value = NoValue /\ NoOp.kind = "none"
  /\ NoEnum \in Enums
  /\ \A v \in Values \cup {NoValue} : Answered(v) \in Ops /\ Answered(v).phase = "none"
                                      /\ Answered(v).value = v
  /\ \A r \in Records : r[1] \in Domains /\ r[2] \in Keys
<1>1. NoOp \in Ops /\ NoOp.phase = "none" /\ NoOp.value = NoValue /\ NoOp.kind = "none"
  BY DEF NoOp, Ops, Kinds
<1>2. NoEnum \in Enums
  BY DEF NoEnum, Enums
<1>3. \A v \in Values \cup {NoValue} : Answered(v) \in Ops /\ Answered(v).phase = "none"
                                       /\ Answered(v).value = v
  BY DEF NoOp, Ops, Kinds, Answered
<1>4. \A r \in Records : r[1] \in Domains /\ r[2] \in Keys
  BY DEF Domains, Keys
<1>5. QED
  BY <1>1, <1>2, <1>3, <1>4

\* An operation begins with the phase of its kind.
LEMMA Entered ==
  ASSUME NEW o, WellFormed(o)
  PROVE  LET n == [o EXCEPT !.phase = o.kind]
         IN /\ WellFormed(n)
            /\ n.kind = o.kind /\ n.phase = o.kind
            /\ n.record = o.record /\ n.value = o.value /\ n.domain = o.domain
  BY DEF WellFormed, Ops, Kinds

\* A domain has finitely many keys, and an order of them is a sequence.
LEMMA KeysFinite ==
  \A d : /\ KeysOf(d) \subseteq Keys
         /\ IsFiniteSet(KeysOf(d))
<1> SUFFICES ASSUME NEW d PROVE KeysOf(d) \subseteq Keys /\ IsFiniteSet(KeysOf(d))
  OBVIOUS
<1>1. IsFiniteSet(Records)
  BY StoreAssumption
<1>2. [r \in Records |-> r[2]] \in Surjection(Records, Keys)
  BY DEF Surjection, Keys
<1>3. KeysOf(d) \subseteq Keys
  BY DEF KeysOf, Keys
<1>4. QED
  BY <1>1, <1>2, <1>3, FS_Surjection, FS_Subset

LEMMA OrdersAreSequences ==
  ASSUME NEW d, NEW keys \in Orders(KeysOf(d))
  PROVE  keys \in Seq(Keys) /\ {keys[i] : i \in DOMAIN keys} = KeysOf(d)
<1>1. Cardinality(KeysOf(d)) \in Nat
  BY KeysFinite, FS_CardinalityType
<1>2. KeysOf(d) \subseteq Keys
  BY KeysFinite
<1>3. QED
  BY <1>1, <1>2 DEF Orders

-----------------------------------------------------------------------------
(* The invariant.                                                          *)

LEMMA StoreInitial == Init => StoreInv /\ LoopInv
<1> SUFFICES ASSUME Init PROVE StoreInv /\ LoopInv
  OBVIOUS
<1>1. NoShared(<<>>) \in Shared
  BY DEF NoShared, Shared
<1>2. StoreShapes
  BY <1>1, Arguments DEF Init, InitStore, StoreShapes
<1>3. OwnerInv /\ EnumInv
  BY Arguments DEF Init, InitStore, OwnerInv, Owned, EnumInv, NoEnum
<1>4. Held = 0
  BY FS_EmptySet DEF Init, Held
<1>5. event \in BOOLEAN /\ event = FALSE
  BY DEF Init
<1>6. LoopInv
  BY <1>4, <1>5, RunLoopAssumption DEF Init, LoopInv
<1>7. QED
  BY <1>2, <1>3, <1>6 DEF StoreInv

LEMMA EnterStep ==
  ASSUME StoreInv, NEW t \in Threads, NEW o, WellFormed(o), o.kind # "none",
         \A u \in Threads \ {t} : op[u].phase \in {"none", "waiting"},
         Enter(t, o)
  PROVE  StoreInv'
<1> DEFINE n == [o EXCEPT !.phase = o.kind]
<1>1. /\ WellFormed(n) /\ n.kind = o.kind /\ n.phase = o.kind
      /\ n.record = o.record /\ n.value = o.value
  BY Entered
<1>2. op' = [op EXCEPT ![t] = n]
  BY DEF Enter
<1> HIDE DEF n
<1>3. n \in Ops /\ n.phase \in Kinds \ {"none"}
  BY <1>1 DEF WellFormed, Ops
<1>4. /\ shared' \in Shared
      /\ o.kind \in {"get", "set", "remove"} => shared'.record = o.record
      /\ o.kind = "set" => shared'.buffer = o.value
  <2>1. shared \in Shared /\ o.kind \in Kinds \ {"none"}
    BY <1>1, <1>3 DEF StoreInv, StoreShapes, WellFormed, Kinds
  <2>2. CASE o.kind = "get"
    <3>1. shared' = [shared EXCEPT !.record = o.record, !.loading = TRUE] /\ o.record \in Records
      BY <2>2 DEF Enter, WellFormed
    <3>2. QED
      BY <2>1, <2>2, <3>1 DEF Shared
  <2>3. CASE o.kind = "set"
    <3>1. /\ shared' = [shared EXCEPT !.record = o.record, !.buffer = o.value]
          /\ o.record \in Records /\ o.value \in Values
      BY <2>3 DEF Enter, WellFormed
    <3>2. QED
      BY <2>1, <2>3, <3>1 DEF Shared
  <2>4. CASE o.kind = "remove"
    <3>1. shared' = [shared EXCEPT !.record = o.record] /\ o.record \in Records
      BY <2>4 DEF Enter, WellFormed
    <3>2. QED
      BY <2>1, <2>4, <3>1 DEF Shared
  <2>5. CASE o.kind = "enumerate"
    <3>1. shared' = [shared EXCEPT !.enumerating = TRUE, !.keys = <<>>]
      BY <2>5 DEF Enter
    <3>2. <<>> \in Seq(Keys)
      OBVIOUS
    <3>3. shared' \in Shared
      BY <2>1, <3>1, <3>2 DEF Shared
    <3>4. QED
      BY <2>5, <3>3
  <2>6. CASE o.kind = "purge"
    BY <2>1, <2>6 DEF Enter
  <2>7. QED
    BY <2>1, <2>2, <2>3, <2>4, <2>5, <2>6 DEF Kinds
<1>5. busy' \in BOOLEAN /\ (o.kind # "enumerate" => busy')
  BY DEF Enter, StoreInv, StoreShapes
<1>6. op' \in [Threads -> Ops] /\ op'[t] = n /\ \A u \in Threads \ {t} : op'[u] = op[u]
  BY <1>2, <1>3 DEF StoreInv, StoreShapes
<1>7. StoreShapes'
  BY <1>4, <1>5, <1>6 DEF StoreInv, StoreShapes, Enter
<1>8. OwnerInv'
  <2>1. mutex' = t
    BY DEF Enter
  <2>2. \A u \in Threads \ {t} : Owned(u)'
    BY <1>6 DEF StoreInv, OwnerInv, Owned
  <2>3. Owned(t)'
    BY <1>1, <1>3, <1>4, <1>5, <1>6, <2>1 DEF Owned, Kinds
  <2>4. QED
    BY <2>2, <2>3 DEF OwnerInv
<1>9. EnumInv'
  BY DEF StoreInv, EnumInv, Enter
<1>10. QED
  BY <1>7, <1>8, <1>9 DEF StoreInv

\* A thread that is in an operation is the only one: a step of it that keeps what
\* is said of it keeps the invariant.
LEMMA OwnerStep ==
  ASSUME StoreInv, NEW t \in Threads, op[t].phase \notin {"none", "waiting"},
         NEW n \in Ops, op' = [op EXCEPT ![t] = n],
         n.phase # "none" => Owned(t)'
  PROVE  OwnerInv' /\ op' \in [Threads -> Ops]
<1>1. op' \in [Threads -> Ops] /\ op'[t] = n /\ \A u \in Threads \ {t} : op'[u] = op[u]
  BY DEF StoreInv, StoreShapes
<1>2. \A u \in Threads \ {t} : op[u].phase \in {"none", "waiting"}
  BY DEF StoreInv, OwnerInv, Owned
<1>3. \A u \in Threads \ {t} : Owned(u)'
  BY <1>1, <1>2 DEF StoreInv, OwnerInv, Owned
<1>4. n.phase = "none" => Owned(t)'
  BY <1>1 DEF Owned
<1>5. QED
  BY <1>1, <1>3, <1>4 DEF OwnerInv

LEMMA CallStep ==
  ASSUME StoreInv, NEW t \in Threads, NEW o, WellFormed(o), o.kind # "none",
         NEW override \in BOOLEAN, Call(t, o, override)
  PROVE  StoreInv'
<1>1. CASE mutex = Nobody
  <2>1. \A u \in Threads : op[u].phase \in {"none", "waiting"}
    BY <1>1, StoreAssumption DEF StoreInv, OwnerInv, Owned
  <2>2. QED
    BY <1>1, <2>1, EnterStep DEF Call
<1>2. CASE mutex # Nobody
  <2> DEFINE n == [o EXCEPT !.phase = "waiting"]
  <2>1. WellFormed(n) /\ n.kind = o.kind /\ n.phase = "waiting"
    BY DEF WellFormed, Ops
  <2>2. op' = [op EXCEPT ![t] = n] /\ UNCHANGED <<store, mutex, shared, enum>>
    BY <1>2 DEF Call
  <2> HIDE DEF n
  <2>3. op' \in [Threads -> Ops] /\ op'[t] = n /\ \A u \in Threads \ {t} : op'[u] = op[u]
    BY <2>1, <2>2 DEF StoreInv, StoreShapes, WellFormed
  <2>4. busy' \in BOOLEAN /\ (busy => busy')
    BY <1>2 DEF Call, StoreInv, StoreShapes
  <2>5. StoreShapes'
    BY <2>2, <2>3, <2>4 DEF StoreInv, StoreShapes
  <2>6. \A u \in Threads \ {t} : Owned(u)'
    BY <2>2, <2>3, <2>4 DEF StoreInv, OwnerInv, Owned, KeysOf
  <2>7. Owned(t)'
    BY <2>1, <2>3 DEF Owned
  <2>8. EnumInv'
    BY <2>2 DEF StoreInv, EnumInv
  <2>9. QED
    BY <2>5, <2>6, <2>7, <2>8 DEF StoreInv, OwnerInv
<1>3. QED
  BY <1>1, <1>2

LEMMA OperateStep == ASSUME StoreInv, NEW t \in Threads, Operate(t) PROVE StoreInv'
<1>1. ASSUME NEW r \in Records, NEW kind \in {"get", "remove"},
             Call(t, [NoOp EXCEPT !.kind = kind, !.record = r], FALSE)
      PROVE  StoreInv'
  <2>1. /\ WellFormed([NoOp EXCEPT !.kind = kind, !.record = r])
        /\ [NoOp EXCEPT !.kind = kind, !.record = r].kind # "none"
    BY DEF WellFormed, NoOp, Ops, Kinds
  <2>2. QED
    BY <1>1, <2>1, CallStep
<1>2. ASSUME NEW r \in Records, NEW v \in Values, NEW override \in BOOLEAN,
             Call(t, [NoOp EXCEPT !.kind = "set", !.record = r, !.value = v], override)
      PROVE  StoreInv'
  <2>1. /\ WellFormed([NoOp EXCEPT !.kind = "set", !.record = r, !.value = v])
        /\ [NoOp EXCEPT !.kind = "set", !.record = r, !.value = v].kind # "none"
    BY DEF WellFormed, NoOp, Ops, Kinds
  <2>2. QED
    BY <1>2, <2>1, CallStep
<1>3. ASSUME NEW d \in Domains, NEW kind \in {"purge", "enumerate"},
             Call(t, [NoOp EXCEPT !.kind = kind, !.domain = d], FALSE)
      PROVE  StoreInv'
  <2>1. /\ WellFormed([NoOp EXCEPT !.kind = kind, !.domain = d])
        /\ [NoOp EXCEPT !.kind = kind, !.domain = d].kind # "none"
    BY DEF WellFormed, NoOp, Ops, Kinds
  <2>2. QED
    BY <1>3, <2>1, CallStep
<1>4. QED
  BY <1>1, <1>2, <1>3 DEF Operate

LEMMA ResumeStep == ASSUME StoreInv, NEW t \in Threads, Resume(t) PROVE StoreInv'
<1>1. \A u \in Threads \ {t} : op[u].phase \in {"none", "waiting"}
  BY DEF StoreInv, OwnerInv, Owned, Resume
<1>2. WellFormed(op[t]) /\ op[t].kind # "none"
  BY DEF StoreInv, OwnerInv, Owned, Resume
<1>3. QED
  BY <1>1, <1>2, EnterStep DEF Resume

LEMMA RecordSteps ==
  ASSUME StoreInv, NEW t \in Threads,
         GetFinish(t) \/ SetWrite(t) \/ SetFinish(t) \/ RemoveFinish(t)
  PROVE  StoreInv'
<1> DEFINE r == shared.record
<1>1. EnumInv' /\ enum' \in [Threads -> Enums]
  BY DEF StoreInv, StoreShapes, EnumInv, GetFinish, SetWrite, SetFinish, RemoveFinish
<1>2. CASE GetFinish(t)
  <2>1. r \in Records /\ store[r] \in Values \cup {NoValue}
    BY <1>2 DEF StoreInv, StoreShapes, OwnerInv, Owned, WellFormed, GetFinish
  <2>2. OwnerInv' /\ op' \in [Threads -> Ops]
    BY <1>2, <2>1, OwnerStep, Arguments DEF GetFinish
  <2>3. shared' \in Shared
    BY <1>2, <2>1 DEF GetFinish, StoreInv, StoreShapes, Shared
  <2>4. QED
    BY <1>1, <1>2, <2>2, <2>3 DEF GetFinish, StoreInv, StoreShapes, Unlock
<1>3. CASE SetWrite(t)
  <2> DEFINE n == [op[t] EXCEPT !.phase = "save"]
  <2>1. /\ WellFormed(op[t]) /\ op[t].kind = "set" /\ mutex = t /\ busy
        /\ r \in Records /\ shared.buffer \in Values
    BY <1>3 DEF StoreInv, OwnerInv, Owned, WellFormed, SetWrite
  <2>2. n \in Ops /\ WellFormed(n) /\ n.kind = "set" /\ n.phase = "save"
    BY <2>1 DEF WellFormed, Ops
  <2>3. op' = [op EXCEPT ![t] = n] /\ UNCHANGED <<busy, mutex, shared, enum>>
    BY <1>3 DEF SetWrite
  <2> HIDE DEF n
  <2>4. op'[t] = n
    BY <2>3 DEF StoreInv, StoreShapes
  <2>5. Owned(t)'
    BY <2>1, <2>2, <2>3, <2>4 DEF Owned
  <2>6. OwnerInv' /\ op' \in [Threads -> Ops]
    BY <1>3, <2>2, <2>3, <2>5, OwnerStep DEF SetWrite
  <2>7. store' \in [Records -> Values \cup {NoValue}]
    BY <1>3, <2>1 DEF SetWrite, StoreInv, StoreShapes
  <2>8. QED
    BY <1>1, <2>3, <2>6, <2>7 DEF StoreInv, StoreShapes
<1>4. CASE SetFinish(t)
  <2>1. OwnerInv' /\ op' \in [Threads -> Ops]
    BY <1>4, OwnerStep, Arguments DEF SetFinish
  <2>2. QED
    BY <1>1, <1>4, <2>1 DEF SetFinish, StoreInv, StoreShapes, Unlock
<1>5. CASE RemoveFinish(t)
  <2>1. OwnerInv' /\ op' \in [Threads -> Ops]
    BY <1>5, OwnerStep, Arguments DEF RemoveFinish
  <2>2. store' \in [Records -> Values \cup {NoValue}]
    BY <1>5 DEF RemoveFinish, StoreInv, StoreShapes
  <2>3. QED
    BY <1>1, <1>5, <2>1, <2>2 DEF RemoveFinish, StoreInv, StoreShapes, Unlock
<1>6. QED
  BY <1>2, <1>3, <1>4, <1>5

\* A purge deletes one key of its domain at a time.
LEMMA KeyDeleted ==
  ASSUME StoreInv, NEW d \in Domains, NEW key \in KeysOf(d),
         store' = [store EXCEPT ![<<d, key>>] = NoValue]
  PROVE  /\ KeysOf(d)' = KeysOf(d) \ {key}
         /\ store' \in [Records -> Values \cup {NoValue}]
         /\ <<d, key>> \in Records
<1>1. PICK q \in Records : q[1] = d /\ q[2] = key /\ store[q] # NoValue
  BY DEF KeysOf
<1>2. <<d, key>> \in Records
  BY <1>1, StoreAssumption
<1>3. /\ store' \in [Records -> Values \cup {NoValue}]
      /\ \A r \in Records : store'[r] = IF r = <<d, key>> THEN NoValue ELSE store[r]
  BY <1>2 DEF StoreInv, StoreShapes
<1>4. \A r \in Records : r[1] = d /\ r[2] = key => r = <<d, key>>
  BY StoreAssumption
<1>5. ASSUME NEW k, k \in KeysOf(d)' PROVE k \in KeysOf(d) \ {key}
  <2>1. PICK r \in Records : r[1] = d /\ r[2] = k /\ store'[r] # NoValue
    BY <1>5 DEF KeysOf
  <2>2. r # <<d, key>> /\ store[r] # NoValue
    BY <1>3, <2>1
  <2>3. QED
    BY <1>4, <2>1, <2>2 DEF KeysOf
<1>6. ASSUME NEW k \in KeysOf(d), k # key PROVE k \in KeysOf(d)'
  <2>1. PICK r \in Records : r[1] = d /\ r[2] = k /\ store[r] # NoValue
    BY <1>6 DEF KeysOf
  <2>2. r # <<d, key>>
    BY <1>6, <2>1
  <2>3. QED
    BY <1>3, <2>1, <2>2 DEF KeysOf
<1>7. QED
  BY <1>2, <1>3, <1>5, <1>6

LEMMA PurgeSteps ==
  ASSUME StoreInv, NEW t \in Threads, PurgeIterate(t) \/ PurgeDelete(t) \/ PurgeFinish(t)
  PROVE  StoreInv'
<1>1. EnumInv' /\ enum' \in [Threads -> Enums]
  <2>1. enum' = enum
    BY DEF PurgeIterate, PurgeDelete, PurgeFinish
  <2>2. QED
    BY <2>1 DEF StoreInv, StoreShapes, EnumInv
<1>2. /\ WellFormed(op[t]) /\ op[t] \in Ops /\ op[t].kind = "purge"
      /\ op[t].domain \in Domains /\ mutex = t /\ busy
  BY DEF StoreInv, OwnerInv, Owned, WellFormed, PurgeIterate, PurgeDelete, PurgeFinish
<1>3. CASE PurgeIterate(t)
  <2>1. PICK repo \in SUBSET KeysOf(op[t].domain) :
           op' = [op EXCEPT ![t].phase = "delete", ![t].repo = repo,
                            ![t].more = (repo # KeysOf(op[t].domain))]
    BY <1>3 DEF PurgeIterate
  <2>2. PICK more \in BOOLEAN : more = (repo # KeysOf(op[t].domain))
    OBVIOUS
  <2> PICK n : n = [op[t] EXCEPT !.phase = "delete", !.repo = repo, !.more = more]
    OBVIOUS
  <2>3. op' = [op EXCEPT ![t] = n]
    BY <2>1, <2>2 DEF StoreInv, StoreShapes
  <2>4. repo \subseteq Keys
    BY KeysFinite
  <2>5. /\ n \in Ops /\ n.kind = "purge" /\ n.phase = "delete" /\ n.domain = op[t].domain
        /\ n.repo = repo /\ n.more = more
    BY <1>2, <2>2, <2>4 DEF Ops, Kinds
  <2>6. op'[t] = n /\ WellFormed(n)
    BY <1>2, <2>3, <2>5 DEF StoreInv, StoreShapes, WellFormed
  <2>7. UNCHANGED <<store, busy, mutex, shared>>
    BY <1>3 DEF PurgeIterate
  <2>8. KeysOf(n.domain)' = KeysOf(op[t].domain)
    BY <2>3, <2>5, <2>7 DEF KeysOf
  <2>9. Owned(t)'
    BY <1>2, <2>2, <2>5, <2>6, <2>7, <2>8, ZenonT(30) DEF Owned
  <2>10. OwnerInv' /\ op' \in [Threads -> Ops]
    BY <1>3, <2>3, <2>5, <2>9, OwnerStep DEF PurgeIterate
  <2>11. QED
    BY <1>1, <2>7, <2>10 DEF StoreInv, StoreShapes
<1>4. CASE PurgeDelete(t)
  <2> PICK d \in Domains : d = op[t].domain
    BY <1>2
  <2>1. PICK key \in op[t].repo :
           /\ store' = [store EXCEPT ![<<d, key>>] = NoValue]
           /\ op' = [op EXCEPT ![t].repo = @ \ {key}]
    BY <1>4 DEF PurgeDelete
  <2>2. op[t].repo \subseteq KeysOf(d) /\ (~op[t].more => op[t].repo = KeysOf(d))
    BY <1>4 DEF PurgeDelete, StoreInv, OwnerInv, Owned
  <2>3. KeysOf(d)' = KeysOf(d) \ {key} /\ store' \in [Records -> Values \cup {NoValue}]
    <3>1. key \in KeysOf(d)
      BY <2>1, <2>2
    <3>2. QED
      BY <2>1, <3>1, KeyDeleted
  <2> PICK n : n = [op[t] EXCEPT !.repo = op[t].repo \ {key}]
    OBVIOUS
  <2>4. op' = [op EXCEPT ![t] = n]
    BY <2>1 DEF StoreInv, StoreShapes
  <2>5. /\ n \in Ops /\ n.kind = "purge" /\ n.phase = "delete" /\ n.domain = d
        /\ n.repo = op[t].repo \ {key} /\ n.more = op[t].more
    BY <1>2, <1>4 DEF Ops, PurgeDelete
  <2>6. op'[t] = n /\ WellFormed(n)
    BY <1>2, <2>4, <2>5 DEF StoreInv, StoreShapes, WellFormed
  <2>7. UNCHANGED <<busy, mutex, shared>>
    BY <1>4 DEF PurgeDelete
  <2>8. KeysOf(n.domain)' = KeysOf(d) \ {key}
    BY <2>3, <2>5 DEF KeysOf
  <2>9. Owned(t)'
    BY <1>2, <2>2, <2>5, <2>6, <2>7, <2>8 DEF Owned
  <2>10. OwnerInv' /\ op' \in [Threads -> Ops]
    BY <1>4, <2>4, <2>5, <2>9, OwnerStep DEF PurgeDelete
  <2>11. QED
    BY <1>1, <2>3, <2>7, <2>10 DEF StoreInv, StoreShapes
<1>5. CASE PurgeFinish(t) /\ op[t].more
  <2> PICK n : n = [op[t] EXCEPT !.phase = "purge"]
    OBVIOUS
  <2>1. op' = [op EXCEPT ![t] = n] /\ UNCHANGED <<store, busy, mutex, shared>>
    BY <1>5 DEF PurgeFinish
  <2>2. n \in Ops /\ WellFormed(n) /\ n.kind = "purge" /\ n.phase = "purge"
    BY <1>2 DEF Ops, WellFormed, Kinds
  <2>3. op'[t] = n
    BY <2>1 DEF StoreInv, StoreShapes
  <2>4. Owned(t)'
    BY <1>2, <2>1, <2>2, <2>3 DEF Owned
  <2>5. OwnerInv' /\ op' \in [Threads -> Ops]
    BY <1>5, <2>1, <2>2, <2>4, OwnerStep DEF PurgeFinish
  <2>6. QED
    BY <1>1, <2>1, <2>5 DEF StoreInv, StoreShapes
<1>6. CASE PurgeFinish(t) /\ ~op[t].more
  <2>1. OwnerInv' /\ op' \in [Threads -> Ops]
    BY <1>6, OwnerStep, Arguments DEF PurgeFinish
  <2>2. QED
    BY <1>1, <1>6, <2>1 DEF PurgeFinish, StoreInv, StoreShapes, Unlock
<1>7. QED
  BY <1>3, <1>4, <1>5, <1>6

LEMMA EnumerateSteps ==
  ASSUME StoreInv, NEW t \in Threads,
         EnumerateLoad(t) \/ EnumerateCallback(t) \/ EnumerateFinish(t)
  PROVE  StoreInv'
<1> DEFINE EnumOK(e) == /\ {e.keys[i] : i \in DOMAIN e.keys} = e.found
                        /\ e.next = Len(e.visited) + 1 /\ e.next <= Len(e.keys) + 1
                        /\ \A i \in DOMAIN e.visited : e.visited[i] = e.keys[i]
<1>1. ASSUME NEW e \in Enums, EnumOK(e), enum' = [enum EXCEPT ![t] = e]
      PROVE  EnumInv' /\ enum' \in [Threads -> Enums]
  <2>1. /\ enum' \in [Threads -> Enums] /\ enum'[t] = e
        /\ \A u \in Threads \ {t} : enum'[u] = enum[u]
    BY <1>1 DEF StoreInv, StoreShapes
  <2>2. ASSUME NEW u \in Threads PROVE EnumOK(enum[u])'
    <3>1. CASE u = t
      BY <1>1, <2>1, <3>1
    <3>2. CASE u # t
      <4>1. EnumOK(enum[u]) /\ enum'[u] = enum[u]
        BY <2>1, <3>2 DEF StoreInv, EnumInv
      <4>2. QED
        BY <4>1
    <3>3. QED
      BY <3>1, <3>2
  <2>3. QED
    BY <2>1, <2>2 DEF EnumInv
<1>2. NoEnum \in Enums /\ EnumOK(NoEnum)
  BY Arguments DEF NoEnum
<1> HIDE DEF EnumOK
<1>3. CASE EnumerateLoad(t)
  <2>1. PICK keys \in Orders(KeysOf(op[t].domain)) :
           /\ shared' = [shared EXCEPT !.keys = keys, !.enumerating = FALSE]
           /\ enum' = [enum EXCEPT ![t] = [NoEnum EXCEPT !.active = TRUE, !.keys = keys,
                                               !.found = KeysOf(op[t].domain)]]
    BY <1>3 DEF EnumerateLoad
  <2> PICK e : e = [NoEnum EXCEPT !.active = TRUE, !.keys = keys,
                                  !.found = KeysOf(op[t].domain)]
    OBVIOUS
  <2>2. /\ keys \in Seq(Keys) /\ {keys[i] : i \in DOMAIN keys} = KeysOf(op[t].domain)
        /\ KeysOf(op[t].domain) \subseteq Keys
    BY OrdersAreSequences, KeysFinite
  <2>3. /\ e.keys = keys /\ e.found = KeysOf(op[t].domain) /\ e.next = 1 /\ e.visited = <<>>
        /\ e \in Enums
    BY <2>2, Arguments DEF NoEnum, Enums
  <2>4. enum' = [enum EXCEPT ![t] = e]
    BY <2>1
  <2>5. EnumOK(e)
    BY <2>2, <2>3 DEF EnumOK
  <2>6. EnumInv' /\ enum' \in [Threads -> Enums]
    BY <1>1, <2>3, <2>4, <2>5
  <2>7. shared' \in Shared
    BY <2>1, <2>2 DEF StoreInv, StoreShapes, Shared
  <2>8. OwnerInv' /\ op' \in [Threads -> Ops]
    BY <1>3, OwnerStep, Arguments DEF EnumerateLoad
  <2>9. QED
    BY <1>3, <2>6, <2>7, <2>8 DEF EnumerateLoad, StoreInv, StoreShapes, Unlock
<1>4. ASSUME UNCHANGED <<store, busy, mutex, shared, op>>, EnumInv' /\ enum' \in [Threads -> Enums]
      PROVE  StoreInv'
  BY <1>4 DEF StoreInv, StoreShapes, OwnerInv, Owned, KeysOf
<1>5. CASE EnumerateCallback(t)
  <2>1. enum[t] \in Enums /\ EnumOK(enum[t]) /\ enum[t].next <= Len(enum[t].keys)
    BY <1>5 DEF EnumerateCallback, StoreInv, StoreShapes, EnumInv, EnumOK
  <2>2. LocalKey(t) \in Keys /\ LocalKey(t) = enum[t].keys[enum[t].next]
    BY <2>1 DEF LocalKey, Enums
  <2> PICK visited : visited = Append(enum[t].visited, LocalKey(t))
    OBVIOUS
  <2>3. enum[t].visited \in Seq(Keys) /\ visited \in Seq(Keys)
    BY <2>1, <2>2 DEF Enums
  <2> PICK e : e = [enum[t] EXCEPT !.visited = visited, !.next = enum[t].next + 1]
    OBVIOUS
  <2>4. enum' = [enum EXCEPT ![t] = NoEnum] \/ enum' = [enum EXCEPT ![t] = e]
    BY <1>5 DEF EnumerateCallback, StoreInv, StoreShapes
  <2>5. /\ e.keys = enum[t].keys /\ e.found = enum[t].found
        /\ e.next = enum[t].next + 1 /\ e.visited = visited
    BY <2>1, <2>3 DEF Enums
  <2>9. e \in Enums
    <3>1. PICK active \in BOOLEAN : active = enum[t].active
      BY <2>1 DEF Enums
    <3>2. e = [active |-> active, keys |-> enum[t].keys, next |-> enum[t].next + 1,
               found |-> enum[t].found, visited |-> visited]
      BY <2>1, <3>1 DEF Enums
    <3>3. /\ enum[t].keys \in Seq(Keys) /\ enum[t].found \in SUBSET Keys
          /\ enum[t].next + 1 \in Nat \ {0}
      BY <2>1 DEF Enums
    <3>4. QED
      BY <2>3, <3>1, <3>2, <3>3 DEF Enums
  <2>6. EnumOK(e)
    BY <2>1, <2>2, <2>3, <2>5, SMTT(30) DEF EnumOK, Enums
  <2>7. EnumInv' /\ enum' \in [Threads -> Enums]
    BY <1>1, <1>2, <2>4, <2>5, <2>6, <2>9
  <2>8. QED
    BY <1>4, <1>5, <2>7 DEF EnumerateCallback
<1>6. CASE EnumerateFinish(t)
  BY <1>1, <1>2, <1>4, <1>6 DEF EnumerateFinish
<1>7. QED
  BY <1>3, <1>5, <1>6

-----------------------------------------------------------------------------
(* The contexts of the queue.                                              *)

LEMMA ContextsFinite ==
  ASSUME NEW q \in Seq(BOOLEAN)
  PROVE  IsFiniteSet(Contexts(q)) /\ Cardinality(Contexts(q)) \in Nat
<1>1. IsFiniteSet(1 .. Len(q))
  BY FS_Interval
<1>2. Contexts(q) \subseteq 1 .. Len(q)
  BY DEF Contexts
<1>3. QED
  BY <1>1, <1>2, FS_Subset, FS_CardinalityType

LEMMA ContextAppended ==
  ASSUME NEW q \in Seq(BOOLEAN), NEW c \in BOOLEAN
  PROVE  Cardinality(Contexts(Append(q, c))) = Cardinality(Contexts(q)) + One(c)
<1>1. /\ DOMAIN q = 1 .. Len(q) /\ Len(q) \in Nat
      /\ DOMAIN Append(q, c) = 1 .. Len(q) + 1
      /\ \A i \in 1 .. Len(q) : Append(q, c)[i] = q[i]
      /\ Append(q, c)[Len(q) + 1] = c
  OBVIOUS
<1> DEFINE n == Len(q) + 1
<1>a. /\ n \notin 1 .. Len(q) /\ 1 .. n = 1 .. Len(q) \cup {n}
  BY <1>1
<1>2. n \notin Contexts(q)
  BY <1>1, <1>a DEF Contexts
<1> HIDE DEF n
<1>3. CASE c = TRUE
  <2>1. Contexts(Append(q, c)) = Contexts(q) \cup {n}
    <3>1. \A i \in 1 .. Len(q) : i \in Contexts(Append(q, c)) <=> i \in Contexts(q)
      BY <1>1, <1>a, Zenon DEF Contexts, n
    <3>2. n \in Contexts(Append(q, c))
      BY <1>1, <1>a, <1>3, Zenon DEF Contexts, n
    <3>3. Contexts(Append(q, c)) \subseteq 1 .. n /\ Contexts(q) \subseteq 1 .. Len(q)
      BY <1>1, Zenon DEF Contexts, n
    <3>4. QED
      BY <1>a, <3>1, <3>2, <3>3, Zenon
  <2>2. QED
    BY <1>2, <1>3, <2>1, FS_AddElement, ContextsFinite DEF One
<1>4. CASE c = FALSE
  <2>1. Contexts(Append(q, c)) = Contexts(q)
    <3>1. \A i \in 1 .. Len(q) : i \in Contexts(Append(q, c)) <=> i \in Contexts(q)
      BY <1>1, <1>a, Zenon DEF Contexts, n
    <3>2. n \notin Contexts(Append(q, c))
      BY <1>1, <1>a, <1>4, Zenon DEF Contexts, n
    <3>3. Contexts(Append(q, c)) \subseteq 1 .. n /\ Contexts(q) \subseteq 1 .. Len(q)
      BY <1>1, Zenon DEF Contexts, n
    <3>4. QED
      BY <1>a, <3>1, <3>2, <3>3, Zenon
  <2>2. QED
    BY <1>4, <2>1, ContextsFinite DEF One
<1>5. QED
  BY <1>3, <1>4

LEMMA ContextTaken ==
  ASSUME NEW q \in Seq(BOOLEAN), q # <<>>
  PROVE  Cardinality(Contexts(Tail(q))) = Cardinality(Contexts(q)) - One(Head(q))
<1>1. /\ DOMAIN q = 1 .. Len(q) /\ Len(q) \in Nat \ {0}
      /\ DOMAIN Tail(q) = 1 .. Len(q) - 1 /\ Tail(q) \in Seq(BOOLEAN)
      /\ \A i \in 1 .. Len(q) - 1 : Tail(q)[i] = q[i + 1]
      /\ Head(q) = q[1]
  OBVIOUS
<1> DEFINE S == Contexts(q) \ {1}
           T == Contexts(Tail(q))
           f == [i \in T |-> i + 1]
<1>2. IsFiniteSet(T)
  BY <1>1, ContextsFinite
<1>3. \A i \in T : i \in 1 .. Len(q) - 1
  BY <1>1, Zenon DEF Contexts
<1>4. f \in Bijection(T, S)
  <2>1. \A i \in T : i + 1 \in S
    <3> SUFFICES ASSUME NEW i \in T PROVE i + 1 \in S
      OBVIOUS
    <3>1. i \in 1 .. Len(q) - 1 /\ i + 1 \in 1 .. Len(q) /\ i + 1 # 1
      BY <1>1, <1>3
    <3>2. q[i + 1]
      BY <1>1, <3>1, Zenon DEF Contexts
    <3>3. QED
      BY <1>1, <3>1, <3>2, Zenon DEF Contexts
  <2>2. \A k \in S : k - 1 \in T /\ (k - 1) + 1 = k
    <3> SUFFICES ASSUME NEW k \in S PROVE k - 1 \in T /\ (k - 1) + 1 = k
      OBVIOUS
    <3>1. k \in 1 .. Len(q) /\ k # 1
      BY <1>1, Zenon DEF Contexts
    <3>2. k - 1 \in 1 .. Len(q) - 1 /\ (k - 1) + 1 = k
      BY <1>1, <3>1
    <3>3. Tail(q)[k - 1]
      <4>1. q[k]
        BY Zenon DEF Contexts
      <4>2. QED
        BY <1>1, <3>2, <4>1, Zenon
    <3>4. QED
      BY <1>1, <3>2, <3>3, Zenon DEF Contexts
  <2> HIDE DEF S, T
  <2>3. f \in [T -> S]
    BY <2>1
  <2>4. \A i, j \in T : f[i] = f[j] => i = j
    BY <1>3
  <2>5. \A k \in S : \E i \in T : f[i] = k
    BY <2>2
  <2> HIDE DEF f
  <2>6. QED
    BY <2>3, <2>4, <2>5 DEF Bijection, Injection, Surjection, IsInjective
<1>5. Cardinality(S) = Cardinality(T)
  <2> HIDE DEF S, T, f
  <2>1. ExistsBijection(T, S)
    BY <1>4 DEF ExistsBijection
  <2>2. QED
    BY <1>2, <2>1, FS_Bijection
<1>6. Cardinality(S) = IF 1 \in Contexts(q) THEN Cardinality(Contexts(q)) - 1
                                            ELSE Cardinality(Contexts(q))
  BY ContextsFinite, FS_RemoveElement
<1>7. 1 \in Contexts(q) <=> Head(q)
  <2>1. 1 \in DOMAIN q
    BY <1>1
  <2>2. QED
    BY <1>1, <2>1, Zenon DEF Contexts
<1>a. Cardinality(Contexts(q)) \in Nat
  BY ContextsFinite
<1> HIDE DEF S, T, f
<1>8. CASE Head(q)
  <2>1. One(Head(q)) = 1 /\ 1 \in Contexts(q)
    BY <1>7, <1>8, Zenon DEF One
  <2>2. QED
    BY <1>5, <1>6, <2>1, <1>a DEF T
<1>9. CASE ~Head(q)
  <2>1. One(Head(q)) = 0 /\ 1 \notin Contexts(q)
    BY <1>7, <1>9, Zenon DEF One
  <2>2. QED
    BY <1>5, <1>6, <2>1, <1>a DEF T
<1>10. QED
  BY <1>8, <1>9
LEMMA HeldCounts == Held = Cardinality(Contexts(queue)) + One(event)
  BY Zenon DEF Held, Contexts, One

\* What a step does to the queue and the heap.
Accounted ==
    \/ heap' - Held' = heap - Held
    \/ Len(queue) = MaxElements /\ queue' = queue /\ heap' = heap + 1

LEMMA LoopStep == ASSUME LoopInv, [Next]_vars PROVE LoopInv' /\ Accounted
<1> DEFINE n == Cardinality(Contexts(queue))
<1>1. /\ state \in {"Idle", "Running", "Stopping"}
      /\ position \in {"start", "get", "callback", "exited", "restarted"}
      /\ queue \in Seq(BOOLEAN) /\ Len(queue) <= MaxElements
      /\ heap \in 0 .. HeapSize /\ HeapSize \in Nat
  BY RunLoopAssumption DEF LoopInv
<1>2. event \in BOOLEAN /\ (position # "callback" => event = FALSE)
  BY Zenon DEF LoopInv
<1>3. n \in Nat /\ Held = n + One(event) /\ Held <= heap
  BY <1>1, HeldCounts, ContextsFinite DEF LoopInv
<1>4. \A b \in BOOLEAN : One(b) \in {0, 1}
  BY Zenon DEF One
<1>5. One(FALSE) = 0 /\ One(event) \in {0, 1} /\ (position # "callback" => One(event) = 0)
  BY <1>2, <1>4, Zenon DEF One
<1>6. Held' = Cardinality(Contexts(queue')) + One(event')
  BY Zenon DEF Held, Contexts, One
<1> HIDE DEF n
<1>7. ASSUME UNCHANGED <<queue, heap, event>>,
             position' \in {"start", "get", "callback", "exited", "restarted"},
             position' = "callback" <=> position = "callback",
             state' \in {"Idle", "Running", "Stopping"}
      PROVE  LoopInv' /\ Accounted
  <2>1. Held' = Held
    BY <1>7, Zenon DEF Held
  <2>2. event' \in BOOLEAN /\ (position' # "callback" => event' = FALSE)
    BY <1>2, <1>7, Zenon
  <2>3. heap' - Held' = heap - Held
    BY <1>7, <2>1
  <2>4. LoopInv'
    BY <1>1, <1>3, <1>7, <2>1, <2>2 DEF LoopInv
  <2>5. QED
    BY <2>3, <2>4 DEF Accounted
<1>8. ASSUME UNCHANGED loopVars PROVE LoopInv' /\ Accounted
  BY <1>1, <1>7, <1>8 DEF loopVars
<1>9. ASSUME NEW t \in Threads, Operation(t) \/ Progress(t) PROVE LoopInv' /\ Accounted
  BY <1>1, <1>7, <1>8, <1>9 DEF Operation, Progress
<1>10. ASSUME NEW t \in Threads, NEW context \in BOOLEAN, ScheduleCallback(t, context)
       PROVE  LoopInv' /\ Accounted
  <2>1. UNCHANGED <<state, position, event>> /\ One(context) \in {0, 1}
    BY <1>4, <1>10 DEF ScheduleCallback
  <2>2. CASE context /\ heap = HeapSize
    BY <1>1, <1>7, <1>10, <2>1, <2>2 DEF ScheduleCallback
  <2>3. CASE ~(context /\ heap = HeapSize)
    <3>1. /\ heap' = IF context THEN heap + 1 ELSE heap
          /\ queue' = IF Len(queue) = MaxElements THEN queue ELSE Append(queue, context)
      BY <1>10, <2>3, Zenon DEF ScheduleCallback
    <3>2. heap' = heap + One(context) /\ heap' \in 0 .. HeapSize
      <4>1. CASE context
        <5>1. One(context) = 1 /\ heap' = heap + 1 /\ heap # HeapSize
          BY <2>3, <3>1, <4>1, Zenon DEF One
        <5>2. QED
          BY <1>1, <5>1
      <4>2. CASE ~context
        <5>1. One(context) = 0 /\ heap' = heap
          BY <3>1, <4>2, Zenon DEF One
        <5>2. QED
          BY <1>1, <5>1
      <4>3. QED
        BY <4>1, <4>2
    <3>3. event' \in BOOLEAN /\ (position' # "callback" => event' = FALSE)
      BY <1>2, <2>1, Zenon
    <3>4. CASE Len(queue) = MaxElements
      <4>1. queue' = queue
        BY <3>1, <3>4
      <4>2. Held' = Held
        BY <2>1, <4>1, Zenon DEF Held
      <4>3. heap' - Held' = heap - Held \/ heap' = heap + 1
        BY <1>1, <1>3, <1>5, <2>1, <3>2, <4>2
      <4>4. LoopInv'
        BY <1>1, <1>3, <1>5, <2>1, <3>2, <3>3, <4>1, <4>2 DEF LoopInv
      <4>5. QED
        BY <3>4, <4>1, <4>3, <4>4 DEF Accounted
    <3>5. CASE Len(queue) # MaxElements
      <4>1. queue' = Append(queue, context)
        BY <3>1, <3>5
      <4>2. Cardinality(Contexts(queue')) = n + One(context)
        BY <1>1, <4>1, ContextAppended DEF n
      <4>3. Held' = n + One(context) + One(event)
        BY <1>3, <1>5, <1>6, <2>1, <4>2
      <4>4. queue' \in Seq(BOOLEAN) /\ Len(queue') <= MaxElements
        BY <1>1, <3>5, <4>1, RunLoopAssumption
      <4>5. heap' - Held' = heap - Held /\ Held' <= heap'
        BY <1>1, <1>3, <1>5, <2>1, <3>2, <4>3
      <4>6. LoopInv'
        BY <1>1, <2>1, <3>2, <3>3, <4>4, <4>5 DEF LoopInv
      <4>7. QED
        BY <4>5, <4>6 DEF Accounted
    <3>6. QED
      BY <3>4, <3>5
  <2>4. QED
    BY <2>2, <2>3
<1>11. CASE Run
  BY <1>1, <1>7, <1>11 DEF Run
<1>12. CASE GetEvent
  <2>1. /\ queue # <<>> /\ queue' = Tail(queue) /\ event' = Head(queue)
        /\ position = "get" /\ position' = "callback" /\ UNCHANGED <<state, heap>>
    BY <1>12 DEF GetEvent
  <2>2. Held' = n - One(Head(queue)) + One(Head(queue))
    BY <1>1, <1>6, <2>1, ContextTaken DEF n
  <2>3. Head(queue) \in BOOLEAN /\ queue' \in Seq(BOOLEAN) /\ Len(queue') = Len(queue) - 1
    BY <1>1, <2>1
  <2>4. Held' = Held
    BY <1>3, <1>4, <1>5, <2>1, <2>2, <2>3
  <2>5. event' \in BOOLEAN
    BY <2>1, <2>3
  <2>6. LoopInv'
    BY <1>1, <1>3, <2>1, <2>3, <2>4, <2>5, RunLoopAssumption DEF LoopInv
  <2>7. QED
    BY <2>1, <2>4, <2>6 DEF Accounted
<1>13. CASE EndCallback
  <2>1. heap' = heap - One(event) /\ Held' = Held - One(event)
    <3>1. event' = FALSE /\ queue' = queue /\ heap' = IF event THEN heap - 1 ELSE heap
      BY <1>13 DEF EndCallback
    <3>2. heap' = heap - One(event)
      <4>1. CASE event
        BY <3>1, <4>1, Zenon DEF One
      <4>2. CASE ~event
        <5>1. heap' = heap /\ One(event) = 0
          BY <3>1, <4>2, Zenon DEF One
        <5>2. QED
          BY <1>1, <5>1
      <4>3. QED
        BY <4>1, <4>2
    <3>3. Cardinality(Contexts(queue')) = n
      BY <3>1 DEF n
    <3>4. One(event') = 0
      BY <1>5, <3>1
    <3>5. QED
      BY <1>3, <1>5, <1>6, <3>2, <3>3, <3>4
  <2>2. event' \in BOOLEAN /\ event' = FALSE
    BY <1>13 DEF EndCallback
  <2>3. UNCHANGED <<state, queue>> /\ position' = "get"
    BY <1>13 DEF EndCallback
  <2>4. heap' - Held' = heap - Held /\ Held' <= heap' /\ heap' \in 0 .. HeapSize
    BY <1>1, <1>3, <1>5, <2>1
  <2>5. LoopInv'
    BY <1>1, <2>2, <2>3, <2>4 DEF LoopInv
  <2>6. QED
    BY <2>4, <2>5 DEF Accounted
<1>14. CASE Stop \/ Exit \/ Release
  BY <1>1, <1>7, <1>14 DEF Stop, Exit, Release
<1>15. CASE Wait \/ UNCHANGED vars
  BY <1>8, <1>15 DEF Wait, vars
<1>16. QED
  BY <1>9, <1>10, <1>11, <1>12, <1>13, <1>14, <1>15 DEF Next

LEMMA StoreStep == ASSUME StoreInv, [Next]_vars PROVE StoreInv'
<1>1. ASSUME UNCHANGED storeVars PROVE StoreInv'
  BY <1>1 DEF storeVars, StoreInv, StoreShapes, OwnerInv, Owned, EnumInv, KeysOf
<1>2. ASSUME NEW t \in Threads, Operation(t) PROVE StoreInv'
  BY <1>2, OperateStep DEF Operation
<1>3. ASSUME NEW t \in Threads, Progress(t) PROVE StoreInv'
  <2>1. Continue(t)
    BY <1>3 DEF Progress
  <2>2. QED
    BY <2>1, ResumeStep, RecordSteps, PurgeSteps, EnumerateSteps DEF Continue
<1>4. ASSUME NEW t \in Threads, NEW context \in BOOLEAN, ScheduleCallback(t, context)
      PROVE  StoreInv'
  BY <1>1, <1>4 DEF ScheduleCallback
<1>5. CASE Run \/ GetEvent \/ EndCallback \/ Stop \/ Exit \/ Release
  BY <1>1, <1>5 DEF Run, GetEvent, EndCallback, Stop, Exit, Release
<1>6. CASE Wait \/ UNCHANGED vars
  BY <1>1, <1>6 DEF Wait, vars
<1>7. QED
  BY <1>2, <1>3, <1>4, <1>5, <1>6 DEF Next

LEMMA SpecInvariant == Spec => [](StoreInv /\ LoopInv)
<1>1. Init => StoreInv /\ LoopInv
  BY StoreInitial
<1>2. StoreInv /\ LoopInv /\ [Next]_vars => StoreInv' /\ LoopInv'
  BY StoreStep, LoopStep
<1>3. QED
  BY <1>1, <1>2, PTL DEF Spec

-----------------------------------------------------------------------------
(* Theorems.                                                               *)

\* The variables of the run loop and of the store keep their types: the queue
\* and the heap are never exceeded (HAPPlatformRunLoop.c:216).
THEOREM RunLoopTypeCorrect == Spec => []TypeOK
<1>1. StoreInv /\ LoopInv => TypeOK
  <2> SUFFICES ASSUME StoreInv, LoopInv PROVE TypeOK
    OBVIOUS
  <2>1. busy \in BOOLEAN
    BY DEF StoreInv, StoreShapes
  <2>2. \A t \in Threads : op[t].phase \in Kinds \cup {"waiting", "save", "delete"}
    BY DEF StoreInv, StoreShapes, Ops
  <2>3. StoreTypeOK
    BY <2>1, <2>2 DEF StoreTypeOK, StoreInv, StoreShapes, Shared, Kinds
  <2>4. QED
    BY <2>3 DEF TypeOK, LoopInv
<1>2. QED
  BY <1>1, SpecInvariant, PTL

\* An enumeration gives its callbacks each key that it has found, whatever they
\* and the other threads do with the store (HAPPlatformKeyValueStore.c:462).
THEOREM EnumerationComplete == Spec => []EnumerationVisitsAll
<1>1. StoreInv => EnumerationVisitsAll
  <2> SUFFICES ASSUME StoreInv, NEW t \in Threads
               PROVE  /\ \A i \in DOMAIN enum[t].visited : enum[t].visited[i] \in enum[t].found
                      /\ enum[t].next > Len(enum[t].keys) =>
                            {enum[t].visited[i] : i \in DOMAIN enum[t].visited} = enum[t].found
    BY DEF EnumerationVisitsAll
  <2> PICK keys, visited, found : keys = enum[t].keys /\ visited = enum[t].visited
                                  /\ found = enum[t].found
    OBVIOUS
  <2>1. /\ keys \in Seq(Keys) /\ visited \in Seq(Keys) /\ enum[t].next \in Nat
        /\ {keys[i] : i \in DOMAIN keys} = found
        /\ enum[t].next = Len(visited) + 1 /\ enum[t].next <= Len(keys) + 1
        /\ \A i \in DOMAIN visited : visited[i] = keys[i]
    BY DEF StoreInv, StoreShapes, Enums, EnumInv
  <2>2. \A i \in DOMAIN visited : i \in DOMAIN keys
    BY <2>1
  <2>3. \A i \in DOMAIN visited : visited[i] \in found
    BY <2>1, <2>2
  <2>4. ASSUME enum[t].next > Len(keys)
        PROVE  {visited[i] : i \in DOMAIN visited} = found
    <3>1. DOMAIN visited = DOMAIN keys
      BY <2>1, <2>4
    <3>2. QED
      BY <2>1, <3>1
  <2>5. QED
    BY <2>3, <2>4
<1>2. QED
  BY <1>1, SpecInvariant, PTL

\* When the run loop ends no thread is in the middle of its writes
\* (HAPPlatformRunLoop.c:153).
THEOREM WritesFinished == Spec => ExitWaitsForWrites
<1>1. StoreInv /\ [Next]_vars =>
        [position = "get" /\ position' = "exited" => \A t \in Threads : ~Writing(t)]_vars
  <2> SUFFICES ASSUME StoreInv, [Next]_vars, position = "get", position' = "exited",
                      NEW t \in Threads
               PROVE  ~Writing(t)
    OBVIOUS
  <2>1. position' # position
    OBVIOUS
  <2>2. Exit
    BY <2>1 DEF Next, Operation, Progress, ScheduleCallback, Run, GetEvent, EndCallback, Stop,
                Release, Wait, vars, loopVars
  <2>3. busy = FALSE
    BY <2>2, Zenon DEF Exit, StoreInv, StoreShapes
  <2>4. QED
    BY <2>3 DEF StoreInv, OwnerInv, Owned, Writing
<1>2. QED
  BY <1>1, SpecInvariant, PTL DEF Spec, ExitWaitsForWrites

\* The heap of the contexts grows beyond the events that have one only when a
\* full queue turns an event away (HAPPlatformRunLoop.c:216).
THEOREM ContextsKept == Spec => ContextsAccounted
<1>1. LoopInv /\ [Next]_vars =>
        [\/ heap' - Held' = heap - Held
         \/ Len(queue) = MaxElements /\ queue' = queue /\ heap' = heap + 1]_vars
  BY LoopStep DEF Accounted
<1>2. QED
  BY <1>1, SpecInvariant, PTL DEF Spec, ContextsAccounted

-----------------------------------------------------------------------------
(* The refinement: the calls and the keys found, as RecordStore has them.  *)

CallBar == [t \in Threads |-> CallOf(op[t])]
FoundBar == [t \in Threads |-> enum[t].found]

LEMMA CallValues ==
  ASSUME NEW o, o.phase = "save" => o.kind = "set"
  PROVE  /\ o.phase = "none" => CallOf(o) = [kind |-> "none", value |-> o.value]
         /\ o.phase # "none" /\ o.kind \in {"get", "remove"} =>
               CallOf(o) = [kind |-> o.kind, record |-> o.record]
         /\ o.phase \notin {"none", "save"} /\ o.kind = "set" =>
               CallOf(o) = [kind |-> "set", record |-> o.record, value |-> o.value]
         /\ o.phase = "save" => CallOf(o) = [kind |-> "written"]
         /\ o.phase # "none" /\ o.kind \in {"purge", "enumerate"} =>
               CallOf(o) = [kind |-> o.kind, domain |-> o.domain]
  BY DEF CallOf

\* A step of the operation of a thread is a step of its call.
LEMMA CallMapped ==
  ASSUME StoreInv, NEW t \in Threads, NEW n \in Ops, op' = [op EXCEPT ![t] = n]
  PROVE  CallBar' = [CallBar EXCEPT ![t] = CallOf(n)]
<1>1. op \in [Threads -> Ops]
  BY DEF StoreInv, StoreShapes
<1>2. \A u \in Threads : op'[u] = IF u = t THEN n ELSE op[u]
  BY <1>1
<1>3. CallBar' = [u \in Threads |-> CallOf(op'[u])]
  BY DEF CallBar, CallOf
<1>4. \A u \in Threads : CallOf(op'[u]) = IF u = t THEN CallOf(n) ELSE CallOf(op[u])
  BY <1>2
<1>5. QED
  BY <1>3, <1>4 DEF CallBar

LEMMA CallKept ==
  ASSUME StoreInv, NEW t \in Threads, NEW n \in Ops, op' = [op EXCEPT ![t] = n],
         CallOf(n) = CallOf(op[t])
  PROVE  CallBar' = CallBar
<1>1. CallBar' = [CallBar EXCEPT ![t] = CallOf(op[t])]
  BY CallMapped
<1>2. QED
  BY <1>1 DEF CallBar

\* A call that is begun.
LEMMA CallBegins ==
  ASSUME NEW o, WellFormed(o), o.kind # "none", o.phase \notin {"none", "save"}
  PROVE  CallOf(o) \in Promised!Calls
<1>1. CASE o.kind \in {"get", "remove"}
  <2>1. CallOf(o) = [kind |-> o.kind, record |-> o.record] /\ o.record \in Records
    BY <1>1, CallValues DEF WellFormed
  <2>2. CallOf(o) \in [kind : {"get", "remove"}, record : Records]
    BY <1>1, <2>1
  <2>3. QED
    BY <2>2, Zenon DEF Promised!Calls
<1>2. CASE o.kind = "set"
  <2>1. /\ CallOf(o) = [kind |-> "set", record |-> o.record, value |-> o.value]
        /\ o.record \in Records /\ o.value \in Values
    BY <1>2, CallValues DEF WellFormed
  <2>2. QED
    BY <2>1 DEF Promised!Calls
<1>3. CASE o.kind \in {"purge", "enumerate"}
  <2>1. CallOf(o) = [kind |-> o.kind, domain |-> o.domain] /\ o.domain \in Domains
    BY <1>3, CallValues DEF WellFormed
  <2>2. CallOf(o) \in [kind : {"purge", "enumerate"}, domain : {r[1] : r \in Records}]
    BY <1>3, <2>1 DEF Domains
  <2>3. QED
    BY <2>2, Zenon DEF Promised!Calls
<1>4. QED
  BY <1>1, <1>2, <1>3 DEF WellFormed, Ops, Kinds

LEMMA BeginMapped ==
  ASSUME StoreInv, NEW t \in Threads, NEW o, WellFormed(o), o.kind # "none",
         NEW override \in BOOLEAN, Call(t, o, override)
  PROVE  Promised!Begin(t)
<1>1. PICK phase \in {"waiting", o.kind} : op' = [op EXCEPT ![t] = [o EXCEPT !.phase = phase]]
  BY DEF Call, Enter
<1> PICK n : n = [o EXCEPT !.phase = phase]
  OBVIOUS
<1>2. /\ WellFormed(n) /\ n \in Ops /\ n.kind = o.kind /\ n.phase = phase
      /\ n.phase \notin {"none", "save"} /\ op' = [op EXCEPT ![t] = n]
  BY <1>1 DEF WellFormed, Ops, Kinds
<1>3. CallBar' = [CallBar EXCEPT ![t] = CallOf(n)] /\ CallOf(n) \in Promised!Calls
  BY <1>2, CallMapped, CallBegins
<1>4. CallBar[t].kind = "none"
  BY CallValues DEF Call, CallBar
<1>5. CallBar'[t] = CallOf(n)
  BY <1>3 DEF CallBar
<1>6. UNCHANGED <<store, enum>>
  BY DEF Call, Enter
<1>7. FoundBar' = FoundBar
  BY <1>6 DEF FoundBar
<1>8. QED
  BY <1>3, <1>4, <1>5, <1>6, <1>7 DEF Promised!Begin, CallBar, FoundBar

\* What the other steps of a thread are to its caller.
Mapped(t) ==
    \/ Promised!Get(t) \/ Promised!Set(t) \/ Promised!SetReturn(t) \/ Promised!Remove(t)
    \/ Promised!Purge(t) \/ Promised!Enumerate(t) \/ Promised!Forget(t)
    \/ UNCHANGED <<store, CallBar, FoundBar>>

LEMMA RecordsMapped ==
  ASSUME StoreInv, NEW t \in Threads,
         Resume(t) \/ GetFinish(t) \/ SetWrite(t) \/ SetFinish(t) \/ RemoveFinish(t)
  PROVE  Mapped(t)
<1>1. enum' = enum /\ FoundBar' = FoundBar
  BY DEF Resume, Enter, GetFinish, SetWrite, SetFinish, RemoveFinish, FoundBar
<1>2. op[t] \in Ops /\ WellFormed(op[t]) /\ op[t].kind # "none"
  BY DEF StoreInv, OwnerInv, Owned, WellFormed, Resume, GetFinish, SetWrite, SetFinish,
         RemoveFinish
<1>3. CallBar[t] = CallOf(op[t])
  BY DEF CallBar
<1>4. \A v \in Values \cup {NoValue} :
         op' = [op EXCEPT ![t] = Answered(v)] =>
            CallBar' = [CallBar EXCEPT ![t] = Promised!Answer(v)]
  <2> SUFFICES ASSUME NEW v \in Values \cup {NoValue}, op' = [op EXCEPT ![t] = Answered(v)]
               PROVE  CallBar' = [CallBar EXCEPT ![t] = Promised!Answer(v)]
    OBVIOUS
  <2>1. Answered(v) \in Ops /\ Answered(v).phase = "none" /\ Answered(v).value = v
    BY Arguments
  <2>2. CallBar' = [CallBar EXCEPT ![t] = CallOf(Answered(v))]
    BY <2>1, CallMapped
  <2>3. CallOf(Answered(v)) = Promised!Answer(v)
    BY <2>1, CallValues DEF Promised!Answer
  <2>4. QED
    BY <2>2, <2>3
<1>5. op' = [op EXCEPT ![t] = NoOp] =>
         CallBar' = [CallBar EXCEPT ![t] = Promised!Answer(NoValue)]
  <2> SUFFICES ASSUME op' = [op EXCEPT ![t] = NoOp]
               PROVE  CallBar' = [CallBar EXCEPT ![t] = Promised!Answer(NoValue)]
    OBVIOUS
  <2>1. NoOp \in Ops /\ CallOf(NoOp) = Promised!Answer(NoValue)
    BY Arguments, CallValues DEF Promised!Answer
  <2>2. CallBar' = [CallBar EXCEPT ![t] = CallOf(NoOp)]
    BY <2>1, CallMapped
  <2>3. QED
    BY <2>1, <2>2
<1>6. CASE Resume(t)
  <2> PICK n : n = [op[t] EXCEPT !.phase = op[t].kind]
    OBVIOUS
  <2>1. op' = [op EXCEPT ![t] = n] /\ store' = store /\ op[t].phase = "waiting"
    BY <1>6 DEF Resume, Enter
  <2>2. /\ n \in Ops /\ n.kind = op[t].kind /\ n.phase = op[t].kind /\ n.record = op[t].record
        /\ n.value = op[t].value /\ n.domain = op[t].domain
        /\ n.phase \notin {"none", "save"} /\ op[t].kind \in Kinds \ {"none"}
    BY <1>2 DEF Ops, Kinds
  <2>3. CallOf(n) = CallOf(op[t])
    <3>1. CASE op[t].kind \in {"get", "remove"}
      <4>1. CallOf(n) = [kind |-> op[t].kind, record |-> op[t].record]
        BY <2>2, <3>1, CallValues
      <4>2. CallOf(op[t]) = [kind |-> op[t].kind, record |-> op[t].record]
        BY <2>1, <3>1, CallValues
      <4>3. QED
        BY <4>1, <4>2
    <3>2. CASE op[t].kind = "set"
      <4>1. CallOf(n) = [kind |-> "set", record |-> op[t].record, value |-> op[t].value]
        BY <2>2, <3>2, CallValues
      <4>2. CallOf(op[t]) = [kind |-> "set", record |-> op[t].record, value |-> op[t].value]
        BY <2>1, <3>2, CallValues
      <4>3. QED
        BY <4>1, <4>2
    <3>3. CASE op[t].kind \in {"purge", "enumerate"}
      <4>1. CallOf(n) = [kind |-> op[t].kind, domain |-> op[t].domain]
        BY <2>2, <3>3, CallValues
      <4>2. CallOf(op[t]) = [kind |-> op[t].kind, domain |-> op[t].domain]
        BY <2>1, <3>3, CallValues
      <4>3. QED
        BY <4>1, <4>2
    <3>4. QED
      BY <2>2, <3>1, <3>2, <3>3 DEF Kinds
  <2>4. CallBar' = CallBar
    BY <2>1, <2>2, <2>3, CallKept
  <2>5. QED
    BY <1>1, <2>1, <2>4 DEF Mapped
<1>7. CASE GetFinish(t)
  <2>1. /\ op[t].kind = "get" /\ op[t].phase = "get" /\ shared.record = op[t].record
        /\ op[t].record \in Records
    BY <1>2, <1>7 DEF GetFinish, StoreInv, OwnerInv, Owned, WellFormed
  <2>2. store[op[t].record] \in Values \cup {NoValue} /\ store' = store
    BY <1>7, <2>1 DEF GetFinish, StoreInv, StoreShapes
  <2>3. op' = [op EXCEPT ![t] = Answered(store[op[t].record])]
    BY <1>7, <2>1 DEF GetFinish
  <2>4. CallBar' = [CallBar EXCEPT ![t] = Promised!Answer(store[op[t].record])]
    BY <1>4, <2>2, <2>3
  <2>5. CallBar[t].kind = "get" /\ CallBar[t].record = op[t].record
    BY <1>3, <2>1, CallValues
  <2>6. Promised!Get(t)
    BY <1>1, <2>2, <2>4, <2>5 DEF Promised!Get, Promised!Return, CallBar, FoundBar
  <2>7. QED
    BY <2>6 DEF Mapped
<1>8. CASE SetWrite(t)
  <2> PICK n : n = [op[t] EXCEPT !.phase = "save"]
    OBVIOUS
  <2>1. /\ op[t].kind = "set" /\ op[t].phase = "set" /\ shared.record = op[t].record
        /\ shared.buffer = op[t].value
    BY <1>2, <1>8 DEF SetWrite, StoreInv, OwnerInv, Owned
  <2>2. op' = [op EXCEPT ![t] = n] /\ store' = [store EXCEPT ![op[t].record] = op[t].value]
    BY <1>8, <2>1 DEF SetWrite
  <2>3. n \in Ops /\ n.kind = "set" /\ n.phase = "save"
    BY <1>2, <2>1 DEF Ops
  <2>4. CallBar' = [CallBar EXCEPT ![t] = [kind |-> "written"]]
    <3>1. CallOf(n) = [kind |-> "written"]
      BY <2>3, CallValues
    <3>2. QED
      BY <2>2, <2>3, <3>1, CallMapped
  <2>5. /\ CallBar[t].kind = "set" /\ CallBar[t].record = op[t].record
        /\ CallBar[t].value = op[t].value
    BY <1>3, <2>1, CallValues
  <2>6. Promised!Set(t)
    BY <1>1, <2>2, <2>4, <2>5 DEF Promised!Set, CallBar, FoundBar
  <2>7. QED
    BY <2>6 DEF Mapped
<1>9. CASE SetFinish(t)
  <2>1. op[t].kind = "set" /\ op[t].phase = "save" /\ op' = [op EXCEPT ![t] = NoOp] /\ store' = store
    BY <1>2, <1>9 DEF SetFinish, StoreInv, OwnerInv, Owned
  <2>2. CallBar[t].kind = "written"
    BY <1>3, <2>1, CallValues
  <2>3. Promised!SetReturn(t)
    BY <1>1, <1>5, <2>1, <2>2 DEF Promised!SetReturn, Promised!Return, CallBar, FoundBar
  <2>4. QED
    BY <2>3 DEF Mapped
<1>10. CASE RemoveFinish(t)
  <2>1. /\ op[t].kind = "remove" /\ op[t].phase = "remove" /\ shared.record = op[t].record
        /\ op' = [op EXCEPT ![t] = NoOp]
    BY <1>2, <1>10 DEF RemoveFinish, StoreInv, OwnerInv, Owned
  <2>2. store' = [store EXCEPT ![op[t].record] = NoValue]
    BY <1>10, <2>1 DEF RemoveFinish
  <2>3. CallBar[t].kind = "remove" /\ CallBar[t].record = op[t].record
    BY <1>3, <2>1, CallValues
  <2>4. Promised!Remove(t)
    BY <1>1, <1>5, <2>1, <2>2, <2>3 DEF Promised!Remove, Promised!Return, CallBar, FoundBar
  <2>5. QED
    BY <2>4 DEF Mapped
<1>11. QED
  BY <1>6, <1>7, <1>8, <1>9, <1>10

LEMMA PurgesMapped ==
  ASSUME StoreInv, NEW t \in Threads, PurgeIterate(t) \/ PurgeDelete(t) \/ PurgeFinish(t)
  PROVE  Mapped(t)
<1>1. enum' = enum /\ FoundBar' = FoundBar
  BY DEF PurgeIterate, PurgeDelete, PurgeFinish, FoundBar
<1>2. /\ op[t] \in Ops /\ op[t].kind = "purge" /\ op[t].phase \in {"purge", "delete"}
      /\ op[t].domain \in Domains
  BY DEF StoreInv, StoreShapes, OwnerInv, Owned, WellFormed, PurgeIterate, PurgeDelete,
         PurgeFinish
<1>3. CallBar[t] = [kind |-> "purge", domain |-> op[t].domain]
  BY <1>2, CallValues DEF CallBar
<1>4. ASSUME NEW n \in Ops, n.kind = "purge", n.phase \in {"purge", "delete"},
             n.domain = op[t].domain, op' = [op EXCEPT ![t] = n]
      PROVE  CallBar' = CallBar
  <2>1. CallOf(n) = [kind |-> "purge", domain |-> op[t].domain]
    BY <1>4, CallValues
  <2>2. CallOf(op[t]) = [kind |-> "purge", domain |-> op[t].domain]
    BY <1>2, CallValues
  <2>3. QED
    BY <1>4, <2>1, <2>2, CallKept
<1>5. \A d : KeysOf(d) = Promised!KeysIn(d)
  BY DEF KeysOf, Promised!KeysIn
<1>6. CASE PurgeIterate(t)
  <2>1. PICK repo \in SUBSET KeysOf(op[t].domain) :
           op' = [op EXCEPT ![t].phase = "delete", ![t].repo = repo,
                            ![t].more = (repo # KeysOf(op[t].domain))]
    BY <1>6 DEF PurgeIterate
  <2>2. PICK more \in BOOLEAN : more = (repo # KeysOf(op[t].domain))
    OBVIOUS
  <2> PICK n : n = [op[t] EXCEPT !.phase = "delete", !.repo = repo, !.more = more]
    OBVIOUS
  <2>3. op' = [op EXCEPT ![t] = n]
    BY <2>1, <2>2 DEF StoreInv, StoreShapes
  <2>4. repo \subseteq Keys
    BY KeysFinite
  <2>5. n \in Ops /\ n.kind = "purge" /\ n.phase = "delete" /\ n.domain = op[t].domain
    BY <1>2, <2>2, <2>4 DEF Ops, Kinds
  <2>6. store' = store
    BY <1>6 DEF PurgeIterate
  <2>7. QED
    BY <1>1, <1>4, <2>3, <2>5, <2>6 DEF Mapped
<1>7. CASE PurgeDelete(t)
  <2>1. PICK key \in op[t].repo :
           /\ store' = [store EXCEPT ![<<op[t].domain, key>>] = NoValue]
           /\ op' = [op EXCEPT ![t].repo = @ \ {key}]
    BY <1>7 DEF PurgeDelete
  <2> PICK n : n = [op[t] EXCEPT !.repo = op[t].repo \ {key}]
    OBVIOUS
  <2>2. op' = [op EXCEPT ![t] = n]
    BY <2>1 DEF StoreInv, StoreShapes
  <2>3. n \in Ops /\ n.kind = "purge" /\ n.phase = "delete" /\ n.domain = op[t].domain
    BY <1>2, <1>7 DEF Ops, PurgeDelete
  <2>4. CallBar' = CallBar
    BY <1>4, <2>2, <2>3
  <2>5. key \in Promised!KeysIn(op[t].domain)
    BY <1>5, <1>7, <2>1 DEF PurgeDelete, StoreInv, OwnerInv, Owned
  <2>6. CallBar[t].kind = "purge" /\ CallBar[t].domain = op[t].domain
    BY <1>3
  <2>7. \E k \in Promised!KeysIn(CallBar[t].domain) :
           store' = [store EXCEPT ![<<CallBar[t].domain, k>>] = NoValue]
    BY <2>1, <2>5, <2>6
  <2>8. Promised!Purge(t)
    BY <1>1, <2>4, <2>6, <2>7 DEF Promised!Purge, CallBar, FoundBar
  <2>9. QED
    BY <2>8 DEF Mapped
<1>8. CASE PurgeFinish(t) /\ op[t].more
  <2> PICK n : n = [op[t] EXCEPT !.phase = "purge"]
    OBVIOUS
  <2>1. op' = [op EXCEPT ![t] = n] /\ store' = store
    BY <1>8 DEF PurgeFinish
  <2>2. n \in Ops /\ n.kind = "purge" /\ n.phase = "purge" /\ n.domain = op[t].domain
    BY <1>2 DEF Ops, Kinds
  <2>3. QED
    BY <1>1, <1>4, <2>1, <2>2 DEF Mapped
<1>9. CASE PurgeFinish(t) /\ ~op[t].more
  <2>1. op' = [op EXCEPT ![t] = NoOp] /\ store' = store /\ op[t].repo = {} /\ op[t].phase = "delete"
    BY <1>9 DEF PurgeFinish
  <2>2. op[t].repo = KeysOf(op[t].domain)
    BY <1>9, <2>1 DEF StoreInv, OwnerInv, Owned
  <2>3. CallBar[t].kind = "purge" /\ Promised!KeysIn(CallBar[t].domain) = {}
    BY <1>3, <1>5, <2>1, <2>2
  <2>4. CallBar' = [CallBar EXCEPT ![t] = Promised!Answer(NoValue)]
    <3>1. NoOp \in Ops /\ CallOf(NoOp) = Promised!Answer(NoValue)
      BY Arguments, CallValues DEF Promised!Answer
    <3>2. CallBar' = [CallBar EXCEPT ![t] = CallOf(NoOp)]
      BY <2>1, <3>1, CallMapped
    <3>3. QED
      BY <3>1, <3>2
  <2>5. Promised!Purge(t)
    BY <1>1, <2>1, <2>3, <2>4 DEF Promised!Purge, Promised!Return, CallBar, FoundBar
  <2>6. QED
    BY <2>5 DEF Mapped
<1>10. QED
  BY <1>6, <1>7, <1>8, <1>9

LEMMA EnumerationsMapped ==
  ASSUME StoreInv, NEW t \in Threads,
         EnumerateLoad(t) \/ EnumerateCallback(t) \/ EnumerateFinish(t)
  PROVE  Mapped(t)
<1>1. ASSUME NEW e, enum' = [enum EXCEPT ![t] = e]
      PROVE  FoundBar' = [FoundBar EXCEPT ![t] = e.found]
  <2>1. \A u \in Threads : enum'[u] = IF u = t THEN e ELSE enum[u]
    BY <1>1 DEF StoreInv, StoreShapes
  <2>2. QED
    BY <2>1 DEF FoundBar
<1>2. CASE EnumerateLoad(t)
  <2>1. PICK keys \in Orders(KeysOf(op[t].domain)) :
           enum' = [enum EXCEPT ![t] = [NoEnum EXCEPT !.active = TRUE, !.keys = keys,
                                               !.found = KeysOf(op[t].domain)]]
    BY <1>2 DEF EnumerateLoad
  <2> PICK e : e = [NoEnum EXCEPT !.active = TRUE, !.keys = keys,
                                  !.found = KeysOf(op[t].domain)]
    OBVIOUS
  <2>2. e.found = KeysOf(op[t].domain)
    BY Arguments DEF NoEnum
  <2>3. FoundBar' = [FoundBar EXCEPT ![t] = Promised!KeysIn(op[t].domain)]
    <3>1. KeysOf(op[t].domain) = Promised!KeysIn(op[t].domain)
      BY DEF KeysOf, Promised!KeysIn
    <3>2. QED
      BY <1>1, <2>1, <2>2, <3>1
  <2>4. CallBar[t].kind = "enumerate" /\ CallBar[t].domain = op[t].domain
    <3>1. op[t].kind = "enumerate" /\ op[t].phase = "enumerate"
      BY <1>2 DEF EnumerateLoad, StoreInv, OwnerInv, Owned
    <3>2. QED
      BY <3>1, CallValues DEF CallBar
  <2>5. CallBar' = [CallBar EXCEPT ![t] = Promised!Answer(NoValue)]
    <3>1. NoOp \in Ops /\ CallOf(NoOp) = Promised!Answer(NoValue)
      BY Arguments, CallValues DEF Promised!Answer
    <3>2. CallBar' = [CallBar EXCEPT ![t] = CallOf(NoOp)]
      BY <1>2, <3>1, CallMapped DEF EnumerateLoad
    <3>3. QED
      BY <3>1, <3>2
  <2>6. store' = store
    BY <1>2 DEF EnumerateLoad
  <2>7. Promised!Enumerate(t)
    BY <2>3, <2>4, <2>5, <2>6 DEF Promised!Enumerate, Promised!Return, CallBar, FoundBar
  <2>8. QED
    BY <2>7 DEF Mapped
<1>3. CASE EnumerateCallback(t) \/ EnumerateFinish(t)
  <2>1. store' = store /\ op' = op /\ CallBar' = CallBar
    BY <1>3 DEF EnumerateCallback, EnumerateFinish, CallBar
  <2>2. CASE enum' = [enum EXCEPT ![t] = NoEnum]
    <3>1. FoundBar' = [FoundBar EXCEPT ![t] = {}]
      <4>1. FoundBar' = [FoundBar EXCEPT ![t] = NoEnum.found]
        BY <1>1, <2>2
      <4>2. NoEnum.found = {}
        BY DEF NoEnum
      <4>3. QED
        BY <4>1, <4>2
    <3>2. Promised!Forget(t)
      BY <2>1, <3>1 DEF Promised!Forget, CallBar, FoundBar
    <3>3. QED
      BY <3>2 DEF Mapped
  <2>3. CASE enum' # [enum EXCEPT ![t] = NoEnum]
    <3> PICK e : e = [enum[t] EXCEPT !.visited = Append(enum[t].visited, LocalKey(t)),
                                     !.next = enum[t].next + 1]
      OBVIOUS
    <3>1. enum' = [enum EXCEPT ![t] = e]
      BY <1>3, <2>3 DEF EnumerateCallback, EnumerateFinish, StoreInv, StoreShapes
    <3>2. e.found = enum[t].found
      BY DEF StoreInv, StoreShapes, Enums
    <3>3. FoundBar' = FoundBar
      <4>1. FoundBar' = [FoundBar EXCEPT ![t] = enum[t].found]
        BY <1>1, <3>1, <3>2
      <4>2. QED
        BY <4>1 DEF FoundBar
    <3>4. QED
      BY <2>1, <3>3 DEF Mapped
  <2>4. QED
    BY <2>2, <2>3
<1>4. QED
  BY <1>2, <1>3

LEMMA StepMapped == ASSUME StoreInv, [Next]_vars PROVE [Promised!Next]_(Promised!vars)
<1>1. ASSUME UNCHANGED storeVars PROVE UNCHANGED Promised!vars
  BY <1>1 DEF storeVars, Promised!vars
<1>2. ASSUME NEW t \in Threads, Operation(t) PROVE Promised!Begin(t)
  <2>1. Operate(t)
    BY <1>2 DEF Operation
  <2>2. ASSUME NEW o, NEW override \in BOOLEAN, Call(t, o, override), WellFormed(o), o.kind # "none"
        PROVE  Promised!Begin(t)
    BY <2>2, BeginMapped
  <2>3. ASSUME NEW r \in Records, NEW kind \in {"get", "remove"},
               Call(t, [NoOp EXCEPT !.kind = kind, !.record = r], FALSE)
        PROVE  Promised!Begin(t)
    <3> PICK o : o = [NoOp EXCEPT !.kind = kind, !.record = r]
      OBVIOUS
    <3>1. WellFormed(o) /\ o.kind # "none"
      BY DEF WellFormed, NoOp, Ops, Kinds
    <3>2. QED
      BY <2>2, <2>3, <3>1
  <2>4. ASSUME NEW r \in Records, NEW v \in Values, NEW override \in BOOLEAN,
               Call(t, [NoOp EXCEPT !.kind = "set", !.record = r, !.value = v], override)
        PROVE  Promised!Begin(t)
    <3> PICK o : o = [NoOp EXCEPT !.kind = "set", !.record = r, !.value = v]
      OBVIOUS
    <3>1. WellFormed(o) /\ o.kind # "none"
      BY DEF WellFormed, NoOp, Ops, Kinds
    <3>2. QED
      BY <2>2, <2>4, <3>1
  <2>5. ASSUME NEW d \in Domains, NEW kind \in {"purge", "enumerate"},
               Call(t, [NoOp EXCEPT !.kind = kind, !.domain = d], FALSE)
        PROVE  Promised!Begin(t)
    <3> PICK o : o = [NoOp EXCEPT !.kind = kind, !.domain = d]
      OBVIOUS
    <3>1. WellFormed(o) /\ o.kind # "none"
      BY DEF WellFormed, NoOp, Ops, Kinds
    <3>2. QED
      BY <2>2, <2>5, <3>1
  <2>6. QED
    BY <2>1, <2>3, <2>4, <2>5 DEF Operate
<1>3. ASSUME NEW t \in Threads, Progress(t) PROVE [Promised!Next]_(Promised!vars)
  <2>1. Continue(t)
    BY <1>3 DEF Progress
  <2>2. Mapped(t)
    BY <2>1, RecordsMapped, PurgesMapped, EnumerationsMapped DEF Continue
  <2>3. CASE UNCHANGED <<store, CallBar, FoundBar>>
    BY <2>3 DEF Promised!vars, CallBar, FoundBar
  <2>4. CASE ~UNCHANGED <<store, CallBar, FoundBar>>
    BY <2>2, <2>4 DEF Mapped, Promised!Next
  <2>5. QED
    BY <2>3, <2>4
<1>4. ASSUME NEW t \in Threads, NEW context \in BOOLEAN, ScheduleCallback(t, context)
      PROVE  UNCHANGED Promised!vars
  BY <1>1, <1>4 DEF ScheduleCallback
<1>5. CASE Run \/ GetEvent \/ EndCallback \/ Stop \/ Exit \/ Release
  BY <1>1, <1>5 DEF Run, GetEvent, EndCallback, Stop, Exit, Release
<1>6. CASE Wait \/ UNCHANGED vars
  BY <1>1, <1>6 DEF Wait, vars
<1>7. CASE \E t \in Threads : Operation(t)
  BY <1>2, <1>7 DEF Promised!Next
<1>8. QED
  BY <1>3, <1>4, <1>5, <1>6, <1>7 DEF Next

\* Every call of a thread takes effect once and as a whole, whatever the other
\* threads ask of the shared buffer, name and arguments meanwhile, for any
\* number of threads, records and values (HAPPlatformKeyValueStore.c:104).
THEOREM StoreImplemented == Spec => ImplementsStore
<1>1. Init => Promised!Init
  <2> SUFFICES ASSUME Init PROVE Promised!Init
    OBVIOUS
  <2>1. /\ store \in [Records -> Values \cup {NoValue}]
        /\ op = [t \in Threads |-> NoOp] /\ enum = [t \in Threads |-> NoEnum]
    BY DEF Init, InitStore
  <2>2. CallOf(NoOp) = Promised!Answer(NoValue)
    BY Arguments, CallValues DEF Promised!Answer
  <2>3. NoEnum.found = {}
    BY DEF NoEnum
  <2>4. QED
    BY <2>1, <2>2, <2>3 DEF Promised!Init
<1>2. StoreInv /\ [Next]_vars => [Promised!Next]_(Promised!vars)
  BY StepMapped
<1>3. QED
  BY <1>1, <1>2, SpecInvariant, PTL DEF Spec, ImplementsStore, Promised!Spec

=============================================================================
