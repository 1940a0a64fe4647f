------------------------------ MODULE DataSample ------------------------------
(***************************************************************************)
(* Data Hub samples (src/components/dataHub/dataSample.c).                 *)
(*                                                                         *)
(* A sample is a block of one of two le_mem pools: NonStringDataSamplePool *)
(* for triggers, Booleans and numbers, StringBasedDataSamplePool for       *)
(* strings and JSON values, whose payload is a second block, of the        *)
(* tiered StringPool, that the pool's destructor StringSampleDestructor    *)
(* releases.  A sample's type is not stored in it: the union member the    *)
(* creator wrote is kept here as the ghost variable `kind`, the type the   *)
(* callers pass back in.  le_mem neither clears a block it hands out nor   *)
(* one it takes back, so a freed block keeps its old value.                *)
(*                                                                         *)
(* Holders of a sample (the resource tree, the IPC layer) take and drop    *)
(* counts with le_mem_AddRef and le_mem_Release.                           *)
(***************************************************************************)
EXTENDS Naturals, FiniteSets

CONSTANTS
    NonStringSlots,  \* blocks of NonStringDataSamplePool
    StringSlots,     \* blocks of StringBasedDataSamplePool
    StrBlocks,       \* blocks of StringPool, over its three size tiers
    None,            \* NULL
    Texts,           \* string and JSON payloads
    Numbers,         \* numeric values
    Times,           \* timestamps, and readings of le_clk_GetAbsoluteTime
    NOW,             \* IO_NOW
    MaxRef           \* the most counts holders take on one sample

ASSUME SlotsAssumption ==
    /\ NonStringSlots \cap StringSlots = {}
    /\ None \notin StringSlots \cup NonStringSlots \cup StrBlocks
ASSUME TimesAssumption == Times # {} /\ NOW \notin Times /\ Texts # {}
ASSUME MaxRefAssumption == MaxRef \in Nat \ {0}

Slots == NonStringSlots \cup StringSlots

(* The data types callers pass in (io_DataType_t).                         *)
DataTypes == {"TRIGGER", "BOOLEAN", "NUMERIC", "STRING", "JSON"}

(* NULL is not a sample: no record of a sample's type, timestamp, payload *)
(* and count is the NULL pointer.                                          *)
ASSUME NoneAssumption ==
    LET Records(P) == [type : DataTypes, time : Times, payload : P, holders : Nat]
    IN  /\ None \notin Records(BOOLEAN) /\ None \notin Records(Numbers)
        /\ None \notin Records(Texts) /\ None \notin Records({None})

VARIABLES
    alloc,     \* the sample blocks that are allocated
    ref,       \* their le_mem reference counts
    ts,        \* DataSample_t.timestamp
    val,       \* DataSample_t.value: a Boolean, a number or a stringPtr
    kind,      \* ghost: the data type the sample was created as
    strAlloc,  \* the StringPool blocks that are allocated
    text       \* the string each StringPool block holds

vars == <<alloc, ref, ts, val, kind, strAlloc, text>>

(* The union DataSample_t.value, by the member last written.             *)
Values == [m : {"boolean"}, v : BOOLEAN] \cup [m : {"numeric"}, v : Numbers]
          \cup [m : {"stringPtr"}, v : StrBlocks \cup {None}]
Member(m, v) == [m |-> m, v |-> v]

-----------------------------------------------------------------------------
(* Creating samples.  Each operator is the whole create function; a NULL   *)
(* return leaves the pools as they were.                                   *)

(* CreateSample's timestamp: IO_NOW is replaced by the clock's reading.    *)
Stamp(t, s) == IF t = NOW THEN \E now \in Times : ts' = [ts EXCEPT ![s] = now]
                          ELSE ts' = [ts EXCEPT ![s] = t]

(* hub_MemAlloc from NonStringDataSamplePool, then the value is written.   *)
(* A trigger leaves the union as the block had it.                         *)
CreateNonString(t, dt, v) ==
    \/ \E s \in NonStringSlots \ alloc :
          /\ alloc' = alloc \cup {s}
          /\ ref' = [ref EXCEPT ![s] = 1]
          /\ Stamp(t, s)
          /\ val' = CASE dt = "TRIGGER" -> val
                      [] dt = "BOOLEAN" -> [val EXCEPT ![s] = Member("boolean", v)]
                      [] dt = "NUMERIC" -> [val EXCEPT ![s] = Member("numeric", v)]
          /\ kind' = [kind EXCEPT ![s] = dt]
          /\ UNCHANGED <<strAlloc, text>>
    \/ /\ NonStringSlots \subseteq alloc
       /\ UNCHANGED vars

\* Mutant: CreateString that releases the sample without nulling stringPtr.
CreateStringKeepStale(t, dt, x) ==
    \/ \E s \in StringSlots \ alloc :
          \/ \E b \in StrBlocks \ strAlloc :
                /\ alloc' = alloc \cup {s}
                /\ ref' = [ref EXCEPT ![s] = 1]
                /\ Stamp(t, s)
                /\ val' = [val EXCEPT ![s] = Member("stringPtr", b)]
                /\ kind' = [kind EXCEPT ![s] = dt]
                /\ strAlloc' = strAlloc \cup {b}
                /\ text' = [text EXCEPT ![b] = x]
          \/ /\ Stamp(t, s)
             /\ strAlloc' = IF val[s].m = "stringPtr" THEN strAlloc \ {val[s].v} ELSE strAlloc
             /\ UNCHANGED <<alloc, ref, val, kind, text>>
    \/ /\ StringSlots \subseteq alloc
       /\ UNCHANGED vars

(* dataSample_CreateString (and CreateJson, which calls it): a sample of  *)
(* StringBasedDataSamplePool, then le_mem_StrDup of the payload into the  *)
(* StringPool.  The tier the copy fits may be exhausted while a block of  *)
(* another tier is free, so StrDup may return NULL whenever.  Then         *)
(* stringPtr is set to NULL and the sample released: its destructor finds  *)
(* no string, and the block goes back to the pool.                         *)
CreateString(t, dt, x) ==
    \/ \E s \in StringSlots \ alloc :
          \/ \E b \in StrBlocks \ strAlloc :
                /\ alloc' = alloc \cup {s}
                /\ ref' = [ref EXCEPT ![s] = 1]
                /\ Stamp(t, s)
                /\ val' = [val EXCEPT ![s] = Member("stringPtr", b)]
                /\ kind' = [kind EXCEPT ![s] = dt]
                /\ strAlloc' = strAlloc \cup {b}
                /\ text' = [text EXCEPT ![b] = x]
          \/ /\ Stamp(t, s)
             /\ val' = [val EXCEPT ![s] = Member("stringPtr", None)]
             /\ UNCHANGED <<alloc, ref, kind, strAlloc, text>>
    \/ /\ StringSlots \subseteq alloc
       /\ UNCHANGED vars

(* The API calls, with the caller's timestamp.                             *)
CreateTrigger(t) == CreateNonString(t, "TRIGGER", None)
CreateBoolean(t, v) == CreateNonString(t, "BOOLEAN", v)
CreateNumeric(t, v) == CreateNonString(t, "NUMERIC", v)
CreateJson(t, x) == CreateString(t, "JSON", x)

(* dataSample_ExtractJson: json_Extract either fails (NULL is returned)    *)
(* or yields a node whose JSON type picks the create function; the new     *)
(* sample carries the source's timestamp.                                  *)
ExtractJson(src) ==
    /\ src \in alloc /\ kind[src] = "JSON"
    /\ \/ UNCHANGED vars
       \/ CreateTrigger(ts[src])
       \/ \E v \in BOOLEAN : CreateBoolean(ts[src], v)
       \/ \E v \in Numbers : CreateNumeric(ts[src], v)
       \/ \E x \in Texts : CreateString(ts[src], "STRING", x)
       \/ \E x \in Texts : CreateJson(ts[src], x)

(* dataSample_SetTimestamp.                                                *)
SetTimestamp(s, t) ==
    /\ s \in alloc
    /\ ts' = [ts EXCEPT ![s] = t]
    /\ UNCHANGED <<alloc, ref, val, kind, strAlloc, text>>

-----------------------------------------------------------------------------
(* Holders' counts.                                                        *)

AddRef(s) ==
    /\ s \in alloc /\ ref[s] < MaxRef
    /\ ref' = [ref EXCEPT ![s] = @ + 1]
    /\ UNCHANGED <<alloc, ts, val, kind, strAlloc, text>>

\* Mutant: a release that frees the block when the count reaches 1.
ReleaseFreeEarly(s) ==
    /\ s \in alloc
    /\ ref' = [ref EXCEPT ![s] = @ - 1]
    /\ alloc' = IF ref[s] <= 2 THEN alloc \ {s} ELSE alloc
    /\ UNCHANGED <<ts, val, kind, strAlloc, text>>

(* le_mem_Release of a sample; the last count frees the block and, for a   *)
(* string-based sample, runs StringSampleDestructor, which releases the    *)
(* string dataSample_GetString returns if it is not NULL.                  *)
Release(s) ==
    /\ s \in alloc
    /\ ref' = [ref EXCEPT ![s] = @ - 1]
    /\ alloc' = IF ref[s] = 1 THEN alloc \ {s} ELSE alloc
    /\ strAlloc' = IF ref[s] = 1 /\ s \in StringSlots /\ val[s].v # None
                     THEN strAlloc \ {val[s].v} ELSE strAlloc
    /\ UNCHANGED <<ts, val, kind, text>>

-----------------------------------------------------------------------------

(* dataSample_Init: the pools are empty and their static memory is zero:  *)
(* every stringPtr is NULL.  A free block's timestamp and a free string    *)
(* block's text are never read; they start at some value.                  *)
Init ==
    /\ alloc = {}
    /\ ref = [s \in Slots |-> 0]
    /\ ts = [s \in Slots |-> CHOOSE t \in Times : TRUE]
    /\ val = [s \in Slots |-> Member("stringPtr", None)]
    /\ kind = [s \in Slots |-> "TRIGGER"]
    /\ strAlloc = {}
    /\ text = [b \in StrBlocks |-> CHOOSE x \in Texts : TRUE]

Next ==
    \/ \E t \in Times \cup {NOW} : CreateTrigger(t)
    \/ \E t \in Times \cup {NOW}, v \in BOOLEAN : CreateBoolean(t, v)
    \/ \E t \in Times \cup {NOW}, v \in Numbers : CreateNumeric(t, v)
    \/ \E t \in Times \cup {NOW}, x \in Texts : CreateString(t, "STRING", x)
    \/ \E t \in Times \cup {NOW}, x \in Texts : CreateJson(t, x)
    \/ \E s \in Slots : ExtractJson(s)
    \/ \E s \in Slots, t \in Times : SetTimestamp(s, t)
    \/ \E s \in Slots : AddRef(s)
    \/ \E s \in Slots : Release(s)

Spec == Init /\ [][Next]_vars

-----------------------------------------------------------------------------
(* Properties.                                                             *)

(* Every variable has its type; a sample is allocated exactly when it has  *)
(* a count.                                                                *)
TypeOK ==
    /\ alloc \subseteq Slots
    /\ ref \in [Slots -> 0..MaxRef]
    /\ \A s \in Slots : (s \in alloc) = (ref[s] > 0)
    /\ ts \in [Slots -> Times]
    /\ val \in [Slots -> Values]
    /\ kind \in [Slots -> DataTypes]
    /\ strAlloc \subseteq StrBlocks
    /\ text \in [StrBlocks -> Texts]

(* Every allocated string-based sample owns a string block of its own, and *)
(* every allocated string block belongs to one: no path through            *)
(* CreateString's failed StrDup, the destructor, or a block reused with    *)
(* its old stringPtr leaks a string, shares one or releases one in use.    *)
StringOwnership ==
    LET owners == alloc \cap StringSlots IN
    /\ \A s \in owners : val[s].m = "stringPtr" /\ val[s].v \in strAlloc
    /\ \A s1, s2 \in owners : val[s1].v = val[s2].v => s1 = s2
    /\ \A b \in strAlloc : \E s \in owners : val[s].v = b

-----------------------------------------------------------------------------
(* The refinement of SampleValues.                                         *)

(* What a holder reads from sample s with the getter of its type:          *)
(* dataSample_GetBoolean and GetNumeric read the union member,             *)
(* GetString and GetJson the string stringPtr points at; a trigger has no  *)
(* value.                                                                  *)
Payload(s) ==
    CASE kind[s] = "TRIGGER" -> None
      [] kind[s] \in {"STRING", "JSON"} -> text[val[s].v]
      [] kind[s] \in {"BOOLEAN", "NUMERIC"} -> val[s].v

(* The sample in block s as its holders see it, or NULL for a free block.  *)
SampleOf(s) ==
    IF s \in alloc
      THEN [type |-> kind[s], time |-> ts[s], payload |-> Payload(s), holders |-> ref[s]]
      ELSE None

Samples == INSTANCE SampleValues WITH smp <- [s \in Slots |-> SampleOf(s)],
                                     NoSample <- None, NoPayload <- None

(* Spec section 2: a sample is shared through its reference count, owns    *)
(* its string, and never changes but for its timestamp: every create,      *)
(* failed StrDup, ExtractJson, SetTimestamp, AddRef and Release, the       *)
(* destructor with it, is a step of SampleValues or leaves every held      *)
(* sample as its holders see it.                                           *)
ImplementsSamples == Samples!Spec

=============================================================================
