--------------------------- MODULE KeyValueStore ---------------------------
(***************************************************************************)
(* The key-value store of the accessory, HAPPlatformKeyValueStore.c, as     *)
(* the threads that use it see it: the HAP thread, and the system work     *)
(* queue, which runs the callbacks of the timers.  The operations share    *)
(* one mutex, one buffer and the arguments of the load, and write the      *)
(* flash in one or several steps.                                          *)
(*                                                                         *)
(* The threads are cooperative: one gives way to the other only where it   *)
(* waits for the mutex or for the flash.  An action is what a thread does  *)
(* from one such place to the next.  A record is a whole in the flash.     *)
(***************************************************************************)
EXTENDS Integers, Sequences, FiniteSets

CONSTANTS
    Threads,
    Nobody,         \* the owner of a free mutex
    Records,        \* pairs of a domain and a key
    Values,
    NoValue,        \* what a record that is not in the flash holds
    MaxRepoSize     \* MAX_REPO_SIZE

ASSUME StoreAssumption ==
    /\ Nobody \notin Threads
    /\ NoValue \notin Values
    /\ IsFiniteSet(Records)
    /\ \A r \in Records : r = <<r[1], r[2]>>
    /\ MaxRepoSize \in Nat \ {0}

VARIABLES
    store,      \* the flash
    busy,       \* what HAPPlatformKeyValueStoreIsBusy gives
    mutex,      \* settings_load_subtree_mutex: its owner
    shared,     \* local_context and settings_load_args
    op,         \* the operation each thread is in
    enum        \* the enumeration each thread is in

storeVars == <<store, busy, mutex, shared, op, enum>>

Domains == {r[1] : r \in Records}
KeysOf(d) == {r[2] : r \in {q \in Records : q[1] = d /\ store[q] # NoValue}}

Orders(S) == {f \in [1 .. Cardinality(S) -> S] : {f[i] : i \in DOMAIN f} = S}

\* "record" is both domainKeyID and file_record_key, "buffer" is IOBuffor.
NoShared(keys) == [record |-> NoValue, buffer |-> NoValue, loading |-> FALSE,
                   enumerating |-> FALSE, keys |-> keys]

NoOp == [kind |-> "none", phase |-> "none", record |-> NoValue, domain |-> NoValue,
         value |-> NoValue, repo |-> {}, more |-> FALSE]
Answered(value) == [NoOp EXCEPT !.value = value]

\* "found" is a ghost: the keys of the domain when the enumeration read them.
NoEnum == [active |-> FALSE, keys |-> <<>>, next |-> 1, found |-> {}, visited |-> <<>>]

InitStore ==
    /\ store \in [Records -> Values \cup {NoValue}]
    /\ busy = FALSE
    /\ mutex = Nobody
    /\ shared = NoShared(<<>>)
    /\ op = [t \in Threads |-> NoOp]
    /\ enum = [t \in Threads |-> NoEnum]

-----------------------------------------------------------------------------
(* The mutex.  A thread that unlocks it hands it to one that waits.         *)

Unlock ==
    LET waiting == {t \in Threads : op[t].phase = "waiting"}
    IN IF waiting = {} THEN mutex' = Nobody ELSE mutex' \in waiting

\* Every operation but the enumeration marks the store busy.  Those that load
\* demand that no other load is under way.
Enter(t, o) ==
    /\ mutex' = t
    /\ o.kind \in {"get", "enumerate", "purge"} => ~shared.loading /\ ~shared.enumerating
    /\ busy' = (busy \/ o.kind # "enumerate")
    /\ op' = [op EXCEPT ![t] = [o EXCEPT !.phase = o.kind]]
    /\ shared' = CASE o.kind = "get" -> [shared EXCEPT !.record = o.record, !.loading = TRUE]
                   [] o.kind = "set" -> [shared EXCEPT !.record = o.record, !.buffer = o.value]
                   [] o.kind = "remove" -> [shared EXCEPT !.record = o.record]
                   [] o.kind = "enumerate" -> [shared EXCEPT !.enumerating = TRUE, !.keys = <<>>]
                   [] o.kind = "purge" -> shared
    /\ UNCHANGED <<store, enum>>

\* Mutant: nobody waits for the mutex.
Unlocked(t, o, override) == op[t].phase = "none" /\ Enter(t, o)

\* HAPPlatformKeyValueStoreOverrideAndSet is Set, but marks the store busy
\* before it waits for the mutex.
Call(t, o, override) ==
    /\ op[t].phase = "none"
    /\ IF mutex = Nobody THEN Enter(t, o)
       ELSE /\ op' = [op EXCEPT ![t] = [o EXCEPT !.phase = "waiting"]]
            /\ busy' = (busy \/ override)
            /\ UNCHANGED <<store, mutex, shared, enum>>

\* The thread that has waited for the mutex goes on.
Resume(t) == op[t].phase = "waiting" /\ mutex = t /\ Enter(t, op[t])

-----------------------------------------------------------------------------
(* Get, Set and Remove.                                                    *)

\* Mutant: the return for a record that is not found leaves the store busy.
BusyIfNotFound(t) ==
    /\ op[t].phase = "get"
    /\ op' = [op EXCEPT ![t] = Answered(store[shared.record])]
    /\ shared' = [shared EXCEPT !.loading = FALSE, !.buffer = store[shared.record]]
    /\ busy' = (store[shared.record] = NoValue)
    /\ Unlock
    /\ UNCHANGED <<store, enum>>

\* The record is loaded into the buffer, and copied from there after the
\* unlock; nothing comes in between.  A record is what HAPPlatformKeyValueStoreSet
\* wrote, so the returns for a corrupted one, which clear busy too, are left out.
GetFinish(t) ==
    /\ op[t].phase = "get"
    /\ LET value == store[shared.record]
       IN /\ op' = [op EXCEPT ![t] = Answered(value)]
          /\ shared' = [shared EXCEPT !.loading = FALSE,
                                      !.buffer = IF value = NoValue THEN @ ELSE value]
    /\ busy' = FALSE
    /\ Unlock
    /\ UNCHANGED <<store, enum>>

\* settings_save_one
SetWrite(t) ==
    /\ op[t].phase = "set"
    /\ store' = [store EXCEPT ![shared.record] = shared.buffer]
    /\ op' = [op EXCEPT ![t].phase = "save"]
    /\ UNCHANGED <<busy, mutex, shared, enum>>

\* settings_save has come back.
SetFinish(t) ==
    /\ op[t].phase = "save"
    /\ op' = [op EXCEPT ![t] = NoOp]
    /\ busy' = FALSE
    /\ Unlock
    /\ UNCHANGED <<store, shared, enum>>

RemoveFinish(t) ==
    /\ op[t].phase = "remove"
    /\ store' = [store EXCEPT ![shared.record] = NoValue]
    /\ op' = [op EXCEPT ![t] = NoOp]
    /\ busy' = FALSE
    /\ Unlock
    /\ UNCHANGED <<shared, enum>>

-----------------------------------------------------------------------------
(* PurgeDomain: up to MAX_REPO_SIZE keys are read and deleted one by one;  *)
(* the function calls itself if there were more.                           *)

PurgeIterate(t) ==
    /\ op[t].phase = "purge"
    /\ LET keys == KeysOf(op[t].domain)
       IN \E repo \in SUBSET keys :
             /\ Cardinality(repo) = MaxRepoSize \/ repo = keys
             /\ Cardinality(repo) <= MaxRepoSize
             /\ op' = [op EXCEPT ![t].phase = "delete", ![t].repo = repo,
                                 ![t].more = (repo # keys)]
    /\ UNCHANGED <<store, busy, mutex, shared, enum>>

PurgeDelete(t) ==
    /\ op[t].phase = "delete"
    /\ \E key \in op[t].repo :
          /\ store' = [store EXCEPT ![<<op[t].domain, key>>] = NoValue]
          /\ op' = [op EXCEPT ![t].repo = @ \ {key}]
    /\ UNCHANGED <<busy, mutex, shared, enum>>

PurgeFinish(t) ==
    /\ op[t].phase = "delete" /\ op[t].repo = {}
    /\ IF op[t].more
       THEN op' = [op EXCEPT ![t].phase = "purge"] /\ UNCHANGED <<busy, mutex>>
       ELSE op' = [op EXCEPT ![t] = NoOp] /\ busy' = FALSE /\ Unlock
    /\ UNCHANGED <<store, shared, enum>>

-----------------------------------------------------------------------------
(* Enumerate.                                                              *)

\* The keys are found, the mutex is unlocked, and call_enumerate_callbacks
\* makes a copy of the keys.  An enumeration has at most
\* kMaxDomainSubtreeDepth keys, which all domains of the ADK keep to.
EnumerateLoad(t) ==
    /\ op[t].phase = "enumerate"
    /\ LET found == KeysOf(op[t].domain)
       IN \E keys \in Orders(found) :
             /\ shared' = [shared EXCEPT !.keys = keys, !.enumerating = FALSE]
             /\ enum' = [enum EXCEPT ![t] = [NoEnum EXCEPT !.active = TRUE, !.keys = keys,
                                                           !.found = found]]
    /\ op' = [op EXCEPT ![t] = NoOp]
    /\ Unlock
    /\ UNCHANGED <<store, busy>>

\* Mutant: the callbacks are given the keys of the shared array.
SharedKey(t) ==
    IF enum[t].next \in DOMAIN shared.keys THEN shared.keys[enum[t].next] ELSE 0

\* The key that the next callback is given.
LocalKey(t) == enum[t].keys[enum[t].next]

\* One call of the callback, which wants the next key, or has failed or wants
\* no more; what it does with the store comes after this step.
EnumerateCallback(t) ==
    /\ enum[t].active /\ op[t].phase = "none"
    /\ enum[t].next <= Len(enum[t].keys)
    /\ \/ enum' = [enum EXCEPT ![t].visited = Append(@, LocalKey(t)), ![t].next = @ + 1]
       \/ enum' = [enum EXCEPT ![t] = NoEnum]
    /\ UNCHANGED <<store, busy, mutex, shared, op>>

EnumerateFinish(t) ==
    /\ enum[t].active /\ op[t].phase = "none"
    /\ enum[t].next > Len(enum[t].keys)
    /\ enum' = [enum EXCEPT ![t] = NoEnum]
    /\ UNCHANGED <<store, busy, mutex, shared, op>>

-----------------------------------------------------------------------------

\* The calls that a thread may make.  The callback of an enumeration may use
\* the store, but does not begin an enumeration.
Operate(t) ==
    \/ \E r \in Records :
          \/ Call(t, [NoOp EXCEPT !.kind = "get", !.record = r], FALSE)
          \/ Call(t, [NoOp EXCEPT !.kind = "remove", !.record = r], FALSE)
          \/ \E v \in Values, override \in BOOLEAN :
                Call(t, [NoOp EXCEPT !.kind = "set", !.record = r, !.value = v], override)
    \/ \E d \in Domains :
          \/ Call(t, [NoOp EXCEPT !.kind = "purge", !.domain = d], FALSE)
          \/ ~enum[t].active /\ Call(t, [NoOp EXCEPT !.kind = "enumerate", !.domain = d], FALSE)

\* What a thread does next in the operation that it is in.
Continue(t) ==
    \/ Resume(t)
    \/ GetFinish(t)
    \/ SetWrite(t) \/ SetFinish(t)
    \/ RemoveFinish(t)
    \/ PurgeIterate(t) \/ PurgeDelete(t) \/ PurgeFinish(t)
    \/ EnumerateLoad(t) \/ EnumerateCallback(t) \/ EnumerateFinish(t)

\* A thread in the middle of an operation that changes the flash.
Writing(t) == op[t].phase \in {"set", "save", "remove", "purge", "delete"}

-----------------------------------------------------------------------------
(* Properties.                                                             *)

StoreTypeOK ==
    /\ store \in [Records -> Values \cup {NoValue}]
    /\ busy \in BOOLEAN
    /\ mutex \in Threads \cup {Nobody}
    /\ shared.record \in Records \cup {NoValue}
    /\ shared.buffer \in Values \cup {NoValue}
    /\ \A t \in Threads : op[t].phase \in {"none", "waiting", "get", "set", "save", "remove",
                                           "purge", "delete", "enumerate"}

\* What a thread's call is to its caller: a wait is part of it.
CallOf(o) ==
    CASE o.phase = "none" -> [kind |-> "none", value |-> o.value]
      [] o.phase # "none" /\ o.kind \in {"get", "remove"} -> [kind |-> o.kind, record |-> o.record]
      [] o.phase \notin {"none", "save"} /\ o.kind = "set" ->
            [kind |-> "set", record |-> o.record, value |-> o.value]
      [] o.phase = "save" -> [kind |-> "written"]
      [] o.phase # "none" /\ o.kind \in {"purge", "enumerate"} -> [kind |-> o.kind, domain |-> o.domain]

Promised == INSTANCE RecordStore
    WITH records <- store, call <- [t \in Threads |-> CallOf(op[t])],
         found <- [t \in Threads |-> enum[t].found]

\* Every call does what it was called for, once and as a whole, whatever the
\* other thread asks of the shared buffer, name and arguments meanwhile: a get
\* gives the stored value, a set stores the caller's value in the caller's
\* record, a purged domain is empty, an enumeration finds every key
\* (settings_load_subtree_mutex, HAPPlatformKeyValueStore.c:104).
ImplementsStore == Promised!Spec

\* The callbacks of an enumeration are given each key of its domain once, even
\* if a callback or the other thread uses the store or enumerates another
\* domain in between (call_enumerate_callbacks, HAPPlatformKeyValueStore.c:462).
EnumerationVisitsAll ==
    \A t \in Threads :
        /\ \A i \in DOMAIN enum[t].visited : enum[t].visited[i] \in enum[t].found
        /\ enum[t].next > Len(enum[t].keys) =>
              {enum[t].visited[i] : i \in DOMAIN enum[t].visited} = enum[t].found

=============================================================================
