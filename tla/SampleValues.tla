----------------------------- MODULE SampleValues -----------------------------
(***************************************************************************)
(* What the Data Hub promises about a sample (spec section 2): a           *)
(* timestamped value of one data type, shared through a count of holders,  *)
(* whose payload never changes; only its timestamp may be set.  The last   *)
(* holder's release frees it.  No string pool, stringPtr or union member   *)
(* appears here: a string's payload is its text.                           *)
(***************************************************************************)
EXTENDS Naturals

CONSTANTS
    NonStringSlots,  \* the blocks triggers, Booleans and numbers are made in
    StringSlots,     \* the blocks strings and JSON values are made in
    NoSample,        \* a free block
    NoPayload,       \* a trigger's payload
    Texts,           \* string and JSON payloads
    Numbers,         \* numeric payloads
    Times,           \* timestamps
    MaxRef           \* the most holders of one sample

VARIABLE smp

Slots == NonStringSlots \cup StringSlots
DataTypes == {"TRIGGER", "BOOLEAN", "NUMERIC", "STRING", "JSON"}

(* The payloads a sample of type dt may carry.                             *)
Payloads(dt) == CASE dt = "TRIGGER" -> {NoPayload}
                  [] dt = "BOOLEAN" -> BOOLEAN
                  [] dt = "NUMERIC" -> Numbers
                  [] dt \in {"STRING", "JSON"} -> Texts

(* The blocks a sample of type dt is made in.                              *)
PoolOf(dt) == IF dt \in {"STRING", "JSON"} THEN StringSlots ELSE NonStringSlots

Held == {s \in Slots : smp[s] # NoSample}

Init == smp = [s \in Slots |-> NoSample]

(* A free block becomes a sample of type dt with one holder.               *)
Create(s, dt, t, p) ==
    /\ s \in PoolOf(dt) /\ smp[s] = NoSample
    /\ t \in Times /\ p \in Payloads(dt)
    /\ smp' = [smp EXCEPT ![s] = [type |-> dt, time |-> t, payload |-> p, holders |-> 1]]

(* The timestamp of a held sample is set.                                  *)
Retime(s, t) ==
    /\ s \in Held
    /\ smp' = [smp EXCEPT ![s].time = t]

(* One more holder.                                                        *)
Hold(s) ==
    /\ s \in Held /\ smp[s].holders < MaxRef
    /\ smp' = [smp EXCEPT ![s].holders = @ + 1]

(* A holder lets go; the last one frees the sample.                        *)
Drop(s) ==
    /\ s \in Held
    /\ smp' = [smp EXCEPT ![s] = IF smp[s].holders = 1 THEN NoSample
                                 ELSE [smp[s] EXCEPT !.holders = smp[s].holders - 1]]

Next ==
    \E s \in Slots :
        \/ \E dt \in DataTypes, t \in Times : \E p \in Payloads(dt) : Create(s, dt, t, p)
        \/ \E t \in Times : Retime(s, t)
        \/ Hold(s)
        \/ Drop(s)

Spec == Init /\ [][Next]_smp

=============================================================================
