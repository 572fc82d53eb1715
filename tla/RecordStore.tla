----------------------------- MODULE RecordStore -----------------------------
(***************************************************************************)
(* What a thread may expect of the key-value store: each call takes effect *)
(* once, as a whole, between its begin and its return, and nothing else    *)
(* changes a record.  Only a purge is not atomic: it deletes the records   *)
(* of its domain one after the other, and returns when none is left.       *)
(***************************************************************************)
CONSTANTS Threads, Records, Values, NoValue

VARIABLES
    records,    \* the records
    call,       \* the call each thread is in, or the answer to its last get
    found       \* the keys an enumeration has given to each thread

vars == <<records, call, found>>

\* A record is a domain and a key.
KeysIn(d) == {r[2] : r \in {q \in Records : q[1] = d /\ records[q] # NoValue}}

Answer(value) == [kind |-> "none", value |-> value]
Calls ==
    [kind : {"get", "remove"}, record : Records]
    \cup [kind : {"set"}, record : Records, value : Values]
    \cup [kind : {"purge", "enumerate"}, domain : {r[1] : r \in Records}]

Init ==
    /\ records \in [Records -> Values \cup {NoValue}]
    /\ call = [t \in Threads |-> Answer(NoValue)]
    /\ found = [t \in Threads |-> {}]

Begin(t) ==
    /\ call[t].kind = "none"
    /\ call' = [call EXCEPT ![t] = call'[t]]
    /\ call'[t] \in Calls
    /\ UNCHANGED <<records, found>>

Return(t, value) == call' = [call EXCEPT ![t] = Answer(value)]

Get(t) ==
    /\ call[t].kind = "get"
    /\ Return(t, records[call[t].record])
    /\ UNCHANGED <<records, found>>

\* The record is written, and then the call returns.
Set(t) ==
    /\ call[t].kind = "set"
    /\ records' = [records EXCEPT ![call[t].record] = call[t].value]
    /\ call' = [call EXCEPT ![t] = [kind |-> "written"]]
    /\ UNCHANGED found

SetReturn(t) ==
    /\ call[t].kind = "written"
    /\ Return(t, NoValue)
    /\ UNCHANGED <<records, found>>

Remove(t) ==
    /\ call[t].kind = "remove"
    /\ records' = [records EXCEPT ![call[t].record] = NoValue]
    /\ Return(t, NoValue)
    /\ UNCHANGED found

Purge(t) ==
    /\ call[t].kind = "purge"
    /\ \/ /\ \E key \in KeysIn(call[t].domain) :
                records' = [records EXCEPT ![<<call[t].domain, key>>] = NoValue]
          /\ UNCHANGED call
       \/ KeysIn(call[t].domain) = {} /\ Return(t, NoValue) /\ UNCHANGED records
    /\ UNCHANGED found

Enumerate(t) ==
    /\ call[t].kind = "enumerate"
    /\ found' = [found EXCEPT ![t] = KeysIn(call[t].domain)]
    /\ Return(t, NoValue)
    /\ UNCHANGED records

\* The thread has done with the keys it was given.
Forget(t) == found' = [found EXCEPT ![t] = {}] /\ UNCHANGED <<records, call>>

Next ==
    \E t \in Threads :
        \/ Begin(t) \/ Get(t) \/ Set(t) \/ SetReturn(t) \/ Remove(t) \/ Purge(t)
        \/ Enumerate(t) \/ Forget(t)

Spec == Init /\ [][Next]_vars

=============================================================================
