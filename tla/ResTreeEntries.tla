---------------------------- MODULE ResTreeEntries ----------------------------
(***************************************************************************)
(* What the resource tree promises about the life of an entry (spec        *)
(* sections 3 and 4.3), with no reference counts, flags or call steps.     *)
(*                                                                         *)
(* Each block of the entry pool is free (NoEntry) or holds an entry with a *)
(* type, a parent and a name.  An entry is created as a namespace under a  *)
(* live parent, with a name no child of that parent has; its parent and    *)
(* name never change; its type moves only along the arrows of the type    *)
(* state machine; and it is freed only as a namespace that is not the root *)
(* and is no live entry's parent.                                          *)
(***************************************************************************)
CONSTANTS
    Entries,    \* the blocks of the entry pool
    Root,       \* the root namespace
    NoEntry,    \* a free block; also the root's parent
    Labels,     \* the names entries may have
    RootLabel   \* the root's name

VARIABLE ent

EntryTypes == {"NAMESPACE", "PLACEHOLDER", "INPUT", "OUTPUT", "OBSERVATION"}

(* The type state machine of spec section 4.3.                             *)
Arrows ==
    {<<"NAMESPACE", "PLACEHOLDER">>, <<"PLACEHOLDER", "INPUT">>,
     <<"PLACEHOLDER", "OUTPUT">>, <<"PLACEHOLDER", "OBSERVATION">>,
     <<"INPUT", "PLACEHOLDER">>, <<"OUTPUT", "PLACEHOLDER">>,
     <<"INPUT", "NAMESPACE">>, <<"OUTPUT", "NAMESPACE">>,
     <<"OBSERVATION", "NAMESPACE">>}

Records == [type : EntryTypes, parent : Entries \cup {NoEntry}, name : Labels \cup {RootLabel}]

Live == {e \in Entries : ent[e] # NoEntry}

Init == ent = [e \in Entries |->
                 IF e = Root THEN [type |-> "NAMESPACE", parent |-> NoEntry, name |-> RootLabel]
                 ELSE NoEntry]

(* A fresh namespace named nm under p; no child of p has that name.        *)
Create(e, p, nm) ==
    /\ ent[e] = NoEntry /\ p \in Live /\ nm \in Labels
    /\ \A s \in Live : ent[s].parent = p => ent[s].name # nm
    /\ ent' = [ent EXCEPT ![e] = [type |-> "NAMESPACE", parent |-> p, name |-> nm]]

(* One arrow of the type state machine.                                    *)
Retype(e, t) ==
    /\ e \in Live /\ <<ent[e].type, t>> \in Arrows
    /\ ent' = [ent EXCEPT ![e].type = t]

(* The entry is freed.                                                     *)
Delete(e) ==
    /\ e \in Live /\ e # Root /\ ent[e].type = "NAMESPACE"
    /\ \A c \in Live : ent[c].parent # e
    /\ ent' = [ent EXCEPT ![e] = NoEntry]

Next ==
    \/ \E e, p \in Entries, nm \in Labels : Create(e, p, nm)
    \/ \E e \in Entries, t \in EntryTypes : Retype(e, t)
    \/ \E e \in Entries : Delete(e)

Spec == Init /\ [][Next]_ent

=============================================================================
