------------------------- MODULE DataSampleRefinement -------------------------
(***************************************************************************)
(* DataSample implements SampleValues, for any sizes of the three pools    *)
(* and any payloads: a proof of ImplementsSamples.                         *)
(*                                                                         *)
(* The holders of a sample see its type, timestamp, count and payload,     *)
(* the payload of a string being the text of the StringPool block its      *)
(* stringPtr points at.  That text stays put only because no other sample  *)
(* owns the block (StringOwnership) and a string type's sample is made in  *)
(* StringBasedDataSamplePool (KindsMatch): CreateString writes the text of *)
(* a free block only.  KindsMatch also says that a Boolean or numeric      *)
(* sample holds the union member of its type, so that what its getter     *)
(* reads is a Boolean or a number.                                         *)
(***************************************************************************)
EXTENDS DataSampleProofs

USE SlotsAssumption, TimesAssumption, MaxRefAssumption

(* A live sample's type matches the pool it was made in and the union      *)
(* member it was given.                                                    *)
KindsMatch ==
    \A s \in alloc :
        /\ kind[s] \in {"STRING", "JSON"} => s \in StringSlots
        /\ kind[s] = "BOOLEAN" => val[s].m = "boolean"
        /\ kind[s] = "NUMERIC" => val[s].m = "numeric"

(* The refinement mapping of Samples.                                      *)
smpBar == [s \in Slots |-> SampleOf(s)]

(* The payload a getter reads, by the sample's type.                       *)
LEMMA PayloadCases ==
    ASSUME NEW s
    PROVE  /\ kind[s] = "TRIGGER" => Payload(s) = None
           /\ kind[s] \in {"STRING", "JSON"} => Payload(s) = text[val[s].v]
           /\ kind[s] \in {"BOOLEAN", "NUMERIC"} => Payload(s) = val[s].v
BY DEF Payload

(* A live sample's record is a record of SampleValues, and not NULL.       *)
LEMMA HeldRecord ==
    ASSUME Inv, KindsMatch, NEW s \in alloc
    PROVE  /\ SampleOf(s) = [type |-> kind[s], time |-> ts[s], payload |-> Payload(s),
                             holders |-> ref[s]]
           /\ Payload(s) \in Samples!Payloads(kind[s])
           /\ SampleOf(s) # None
<1>1. s \in Slots /\ kind[s] \in DataTypes /\ ts[s] \in Times /\ ref[s] \in Nat
      /\ val[s] \in Values
  BY DEF Inv, TypeOK
<1>2. SampleOf(s) = [type |-> kind[s], time |-> ts[s], payload |-> Payload(s),
                     holders |-> ref[s]]
  BY DEF SampleOf
<1>3. CASE kind[s] = "TRIGGER"
  BY <1>1, <1>2, <1>3, PayloadCases, NoneAssumption DEF Samples!Payloads
<1>4. CASE kind[s] \in {"STRING", "JSON"}
  <2>1. val[s].v \in StrBlocks
    BY <1>4 DEF KindsMatch, Inv, StringOwnership, TypeOK
  <2>2. Payload(s) \in Texts
    BY <1>4, <2>1, PayloadCases DEF Inv, TypeOK
  <2>. QED
    BY <1>1, <1>2, <1>4, <2>2, NoneAssumption DEF Samples!Payloads
<1>5. CASE kind[s] = "BOOLEAN"
  <2>1. Payload(s) \in BOOLEAN
    BY <1>1, <1>5, PayloadCases DEF KindsMatch, Values
  <2>. QED
    BY <1>1, <1>2, <1>5, <2>1, NoneAssumption DEF Samples!Payloads
<1>6. CASE kind[s] = "NUMERIC"
  <2>1. Payload(s) \in Numbers
    BY <1>1, <1>6, PayloadCases DEF KindsMatch, Values
  <2>. QED
    BY <1>1, <1>2, <1>6, <2>1, NoneAssumption DEF Samples!Payloads
<1>. QED
  BY <1>1, <1>3, <1>4, <1>5, <1>6 DEF DataTypes

(* The blocks SampleValues sees as held are the allocated ones.            *)
LEMMA HeldAlloc ==
    ASSUME Inv, KindsMatch
    PROVE  Samples!Held = alloc
<1>1. \A s \in Slots : SampleOf(s) # None <=> s \in alloc
  BY HeldRecord DEF SampleOf
<1>. QED
  BY <1>1 DEF Samples!Held, Samples!Slots, Slots, Inv, TypeOK

(* A sample whose block, count, timestamp, union and text are untouched    *)
(* looks the same to its holders.                                          *)
LEMMA SampleFrame ==
    ASSUME NEW x, (x \in alloc') = (x \in alloc),
           kind'[x] = kind[x], ts'[x] = ts[x], ref'[x] = ref[x], val'[x] = val[x],
           x \in alloc /\ kind[x] \in {"STRING", "JSON"} =>
               text'[val[x].v] = text[val[x].v]
    PROVE  SampleOf(x)' = SampleOf(x)
<1>1. CASE x \notin alloc
  BY <1>1 DEF SampleOf
<1>2. CASE x \in alloc /\ kind[x] \in {"STRING", "JSON"}
  <2>1. Payload(x)' = Payload(x)
    BY <1>2 DEF Payload
  <2>. QED
    BY <2>1 DEF SampleOf
<1>3. CASE x \in alloc /\ kind[x] \notin {"STRING", "JSON"}
  <2>1. Payload(x)' = Payload(x)
    BY <1>3 DEF Payload
  <2>. QED
    BY <2>1 DEF SampleOf
<1>. QED
  BY <1>1, <1>2, <1>3

(* A step that changes no sample is a stutter of SampleValues.             *)
LEMMA StutterStep ==
    ASSUME \A x \in Slots : SampleOf(x)' = SampleOf(x)
    PROVE  UNCHANGED smpBar
BY DEF smpBar

(* A free block becoming a sample of type dt in dt's pool is a Create.     *)
LEMMA CreateStep ==
    ASSUME NEW s \in Slots, NEW dt \in DataTypes, NEW t \in Times,
           NEW p \in Samples!Payloads(dt), s \in Samples!PoolOf(dt), s \notin alloc,
           SampleOf(s)' = [type |-> dt, time |-> t, payload |-> p, holders |-> 1],
           \A x \in Slots \ {s} : SampleOf(x)' = SampleOf(x)
    PROVE  Samples!Next
<1>1. smpBar[s] = None
  BY DEF smpBar, SampleOf
<1>2. smpBar' = [smpBar EXCEPT ![s] = [type |-> dt, time |-> t, payload |-> p,
                                       holders |-> 1]]
  BY DEF smpBar
<1>3. Samples!Create(s, dt, t, p)
  BY <1>1, <1>2 DEF Samples!Create, smpBar
<1>. QED
  BY <1>3 DEF Samples!Next, Samples!Slots, Slots, Samples!DataTypes, DataTypes

(* dataSample_SetTimestamp is a Retime of SampleValues.                     *)
LEMMA SetTimestampRef ==
    ASSUME Inv, KindsMatch, NEW s \in Slots, NEW t \in Times, SetTimestamp(s, t)
    PROVE  KindsMatch' /\ Samples!Next
<1>1. KindsMatch'
  BY DEF SetTimestamp, KindsMatch
<1>2. \A x \in Slots \ {s} : SampleOf(x)' = SampleOf(x)
  BY SampleFrame DEF SetTimestamp, Inv, TypeOK
<1>3. SampleOf(s)' = [SampleOf(s) EXCEPT !.time = t]
  <2>1. Payload(s)' = Payload(s)
    BY DEF SetTimestamp, Payload
  <2>2. SampleOf(s) = [type |-> kind[s], time |-> ts[s], payload |-> Payload(s),
                       holders |-> ref[s]]
    BY HeldRecord DEF SetTimestamp
  <2>. QED
    BY <2>1, <2>2 DEF SetTimestamp, SampleOf, Inv, TypeOK
<1>4. s \in Samples!Held
  BY HeldAlloc DEF SetTimestamp
<1>5. smpBar' = [smpBar EXCEPT ![s].time = t]
  BY <1>2, <1>3 DEF smpBar
<1>6. Samples!Retime(s, t)
  BY <1>4, <1>5 DEF Samples!Retime, smpBar
<1>. QED
  BY <1>1, <1>6 DEF Samples!Next, Samples!Slots, Slots

(* le_mem_AddRef of a sample is a Hold.                                    *)
LEMMA AddRefRef ==
    ASSUME Inv, KindsMatch, NEW s \in Slots, AddRef(s)
    PROVE  KindsMatch' /\ Samples!Next
<1>1. KindsMatch'
  BY DEF AddRef, KindsMatch
<1>2. \A x \in Slots \ {s} : SampleOf(x)' = SampleOf(x)
  BY SampleFrame DEF AddRef, Inv, TypeOK
<1>3. SampleOf(s) = [type |-> kind[s], time |-> ts[s], payload |-> Payload(s),
                     holders |-> ref[s]]
  BY HeldRecord DEF AddRef
<1>4. SampleOf(s)' = [SampleOf(s) EXCEPT !.holders = ref[s] + 1]
  <2>1. Payload(s)' = Payload(s)
    BY DEF AddRef, Payload
  <2>. QED
    BY <1>3, <2>1 DEF AddRef, SampleOf, Inv, TypeOK
<1>5. s \in Samples!Held /\ smpBar[s].holders < MaxRef
  BY <1>3, HeldAlloc DEF AddRef, smpBar
<1>6. smpBar' = [smpBar EXCEPT ![s].holders = @ + 1]
  <2>1. smpBar[s] = SampleOf(s) /\ smpBar'[s] = SampleOf(s)'
    BY DEF smpBar
  <2>2. \A x \in Slots \ {s} : smpBar'[x] = smpBar[x]
    BY <1>2 DEF smpBar
  <2>3. smpBar'[s] = [smpBar[s] EXCEPT !.holders = smpBar[s].holders + 1]
    BY <1>3, <1>4, <2>1
  <2>. QED
    BY <2>2, <2>3 DEF smpBar
<1>7. Samples!Hold(s)
  BY <1>5, <1>6 DEF Samples!Hold, smpBar
<1>. QED
  BY <1>1, <1>7 DEF Samples!Next, Samples!Slots, Slots

(* le_mem_Release of a sample is a Drop: the last one frees it, and the    *)
(* string StringSampleDestructor releases was no other sample's.          *)
LEMMA ReleaseRef ==
    ASSUME Inv, KindsMatch, NEW s \in Slots, Release(s)
    PROVE  KindsMatch' /\ Samples!Next
<1>1. KindsMatch'
  BY DEF Release, KindsMatch
<1>2. \A x \in Slots \ {s} : SampleOf(x)' = SampleOf(x)
  BY SampleFrame DEF Release, Inv, TypeOK
<1>3. SampleOf(s) = [type |-> kind[s], time |-> ts[s], payload |-> Payload(s),
                     holders |-> ref[s]]
  BY HeldRecord DEF Release
<1>4. s \in Samples!Held
  BY HeldAlloc DEF Release
<1>5. ASSUME ref[s] = 1 PROVE Samples!Drop(s)
  <2>1. SampleOf(s)' = None
    BY <1>5 DEF Release, SampleOf
  <2>2. smpBar' = [smpBar EXCEPT ![s] = IF smpBar[s].holders = 1 THEN None
                                        ELSE [smpBar[s] EXCEPT !.holders = smpBar[s].holders - 1]]
    <3>1. smpBar'[s] = None /\ smpBar[s].holders = 1
      BY <1>3, <1>5, <2>1 DEF smpBar
    <3>2. \A x \in Slots \ {s} : smpBar'[x] = smpBar[x]
      BY <1>2 DEF smpBar
    <3>. QED
      BY <3>1, <3>2 DEF smpBar
  <2>. QED
    BY <1>4, <2>2 DEF Samples!Drop, smpBar
<1>6. ASSUME ref[s] # 1 PROVE Samples!Drop(s)
  <2>1. ref[s] \in Nat /\ ref[s] > 1
    BY <1>6 DEF Release, Inv, TypeOK
  <2>2. Payload(s)' = Payload(s)
    BY DEF Release, Payload
  <2>3. SampleOf(s)' = [SampleOf(s) EXCEPT !.holders = ref[s] - 1]
    BY <1>3, <1>6, <2>2 DEF Release, SampleOf, Inv, TypeOK
  <2>4. smpBar' = [smpBar EXCEPT ![s] = IF smpBar[s].holders = 1 THEN None
                                        ELSE [smpBar[s] EXCEPT !.holders = smpBar[s].holders - 1]]
    <3>1. smpBar'[s] = [smpBar[s] EXCEPT !.holders = smpBar[s].holders - 1]
          /\ smpBar[s].holders # 1
      BY <1>3, <2>1, <2>3 DEF smpBar
    <3>2. \A x \in Slots \ {s} : smpBar'[x] = smpBar[x]
      BY <1>2 DEF smpBar
    <3>. QED
      BY <3>1, <3>2 DEF smpBar
  <2>. QED
    BY <1>4, <2>4 DEF Samples!Drop, smpBar
<1>. QED
  BY <1>1, <1>5, <1>6, Zenon DEF Samples!Next, Samples!Slots, Slots

(* CreateSample's timestamp touches the new sample's only.                 *)
LEMMA StampFrame ==
    ASSUME NEW s, NEW t, Stamp(t, s)
    PROVE  \A x \in DOMAIN ts \ {s} : ts'[x] = ts[x]
BY DEF Stamp

(* A trigger, Boolean or numeric sample made in NonStringDataSamplePool is *)
(* a Create of SampleValues, its payload what the getter reads; an        *)
(* exhausted pool is a stutter.                                            *)
LEMMA CreateNonStringRef ==
    ASSUME Inv, KindsMatch, NEW t \in Times \cup {NOW},
           NEW dt \in {"TRIGGER", "BOOLEAN", "NUMERIC"}, NEW v,
           dt = "BOOLEAN" => v \in BOOLEAN, dt = "NUMERIC" => v \in Numbers,
           CreateNonString(t, dt, v)
    PROVE  KindsMatch' /\ [Samples!Next]_smpBar
<1>1. CASE UNCHANGED vars
  <2>1. \A x \in Slots : SampleOf(x)' = SampleOf(x)
    BY <1>1, SampleFrame DEF vars
  <2>. QED
    BY <1>1, <2>1, StutterStep DEF vars, KindsMatch
<1>2. CASE \E s \in NonStringSlots \ alloc :
              /\ alloc' = alloc \cup {s}
              /\ ref' = [ref EXCEPT ![s] = 1]
              /\ Stamp(t, s)
              /\ val' = CASE dt = "TRIGGER" -> val
                          [] dt = "BOOLEAN" -> [val EXCEPT ![s] = Member("boolean", v)]
                          [] dt = "NUMERIC" -> [val EXCEPT ![s] = Member("numeric", v)]
              /\ kind' = [kind EXCEPT ![s] = dt]
              /\ UNCHANGED <<strAlloc, text>>
  <2>1. PICK s \in NonStringSlots \ alloc :
              /\ alloc' = alloc \cup {s}
              /\ ref' = [ref EXCEPT ![s] = 1]
              /\ Stamp(t, s)
              /\ val' = CASE dt = "TRIGGER" -> val
                          [] dt = "BOOLEAN" -> [val EXCEPT ![s] = Member("boolean", v)]
                          [] dt = "NUMERIC" -> [val EXCEPT ![s] = Member("numeric", v)]
              /\ kind' = [kind EXCEPT ![s] = dt]
              /\ UNCHANGED <<strAlloc, text>>
    BY <1>2
  <2>2. Inv'
    BY CreateNonStringInv
  <2>3. /\ \A x \in Slots \ {s} : val'[x] = val[x] /\ ts'[x] = ts[x]
        /\ dt = "BOOLEAN" => val'[s] = Member("boolean", v)
        /\ dt = "NUMERIC" => val'[s] = Member("numeric", v)
    BY <2>1, StampFrame DEF Inv, TypeOK, Slots
  <2>4. KindsMatch'
    BY <2>1, <2>3, SlotsAssumption DEF KindsMatch, Inv, TypeOK, Slots, Member
  <2>5. \A x \in Slots \ {s} : SampleOf(x)' = SampleOf(x)
    BY <2>1, <2>3, SampleFrame DEF Inv, TypeOK
  <2> DEFINE p == IF dt = "TRIGGER" THEN None ELSE v
  <2>6. Payload(s)' = p
    BY <2>1, <2>3 DEF Payload, Member, Inv, TypeOK, Slots
  <2>7. SampleOf(s)' = [type |-> dt, time |-> ts'[s], payload |-> p, holders |-> 1]
    BY <2>1, <2>6 DEF SampleOf, Inv, TypeOK, Slots
  <2>8. ts'[s] \in Times /\ s \in Slots
    BY <2>2 DEF Inv, TypeOK, Slots
  <2>9. p \in Samples!Payloads(dt) /\ s \in Samples!PoolOf(dt)
    BY DEF Samples!Payloads, Samples!PoolOf
  <2>10. Samples!Next
    BY <2>1, <2>5, <2>7, <2>8, <2>9, CreateStep DEF DataTypes
  <2>. QED
    BY <2>4, <2>10
<1>. QED
  BY <1>1, <1>2 DEF CreateNonString

(* A string or JSON sample made in StringBasedDataSamplePool, with its     *)
(* text StrDup'd into a free StringPool block, is a Create whose payload   *)
(* is that text; no other sample's text changes, since no live string      *)
(* owns a free block.  A failed StrDup nulls the stringPtr of a block that *)
(* is not live, and an exhausted pool changes nothing: both stutter.       *)
LEMMA CreateStringRef ==
    ASSUME Inv, KindsMatch, NEW t \in Times \cup {NOW},
           NEW dt \in {"STRING", "JSON"}, NEW x \in Texts, CreateString(t, dt, x)
    PROVE  KindsMatch' /\ [Samples!Next]_smpBar
<1>1. CASE UNCHANGED vars
  <2>1. \A y \in Slots : SampleOf(y)' = SampleOf(y)
    BY <1>1, SampleFrame DEF vars
  <2>. QED
    BY <1>1, <2>1, StutterStep DEF vars, KindsMatch
<1>2. CASE \E s \in StringSlots \ alloc :
              /\ Stamp(t, s)
              /\ val' = [val EXCEPT ![s] = Member("stringPtr", None)]
              /\ UNCHANGED <<alloc, ref, kind, strAlloc, text>>
  <2>1. PICK s \in StringSlots \ alloc :
              /\ Stamp(t, s)
              /\ val' = [val EXCEPT ![s] = Member("stringPtr", None)]
              /\ UNCHANGED <<alloc, ref, kind, strAlloc, text>>
    BY <1>2
  <2>2. \A y \in Slots \ {s} : val'[y] = val[y] /\ ts'[y] = ts[y]
    BY <2>1, StampFrame DEF Inv, TypeOK, Slots
  <2>3. \A y \in Slots : SampleOf(y)' = SampleOf(y)
    BY <2>1, <2>2, SampleFrame DEF SampleOf
  <2>. QED
    BY <2>1, <2>2, <2>3, StutterStep DEF KindsMatch, Slots
<1>3. CASE \E s \in StringSlots \ alloc : \E b \in StrBlocks \ strAlloc :
              /\ alloc' = alloc \cup {s}
              /\ ref' = [ref EXCEPT ![s] = 1]
              /\ Stamp(t, s)
              /\ val' = [val EXCEPT ![s] = Member("stringPtr", b)]
              /\ kind' = [kind EXCEPT ![s] = dt]
              /\ strAlloc' = strAlloc \cup {b}
              /\ text' = [text EXCEPT ![b] = x]
  <2>1. PICK s \in StringSlots \ alloc : \E b \in StrBlocks \ strAlloc :
              /\ alloc' = alloc \cup {s}
              /\ ref' = [ref EXCEPT ![s] = 1]
              /\ Stamp(t, s)
              /\ val' = [val EXCEPT ![s] = Member("stringPtr", b)]
              /\ kind' = [kind EXCEPT ![s] = dt]
              /\ strAlloc' = strAlloc \cup {b}
              /\ text' = [text EXCEPT ![b] = x]
    BY <1>3
  <2>2. PICK b \in StrBlocks \ strAlloc :
              /\ alloc' = alloc \cup {s}
              /\ ref' = [ref EXCEPT ![s] = 1]
              /\ Stamp(t, s)
              /\ val' = [val EXCEPT ![s] = Member("stringPtr", b)]
              /\ kind' = [kind EXCEPT ![s] = dt]
              /\ strAlloc' = strAlloc \cup {b}
              /\ text' = [text EXCEPT ![b] = x]
    BY <2>1
  <2>3. Inv'
    BY CreateStringInv
  <2>4. \A y \in Slots \ {s} : val'[y] = val[y] /\ ts'[y] = ts[y]
    BY <2>2, StampFrame DEF Inv, TypeOK, Slots
  <2>5. KindsMatch'
    BY <2>2, <2>4 DEF KindsMatch, Inv, TypeOK, Slots, Member
  <2>6. ASSUME NEW y \in alloc, kind[y] \in {"STRING", "JSON"}
        PROVE  text'[val[y].v] = text[val[y].v]
    <3>1. val[y].v \in strAlloc
      BY <2>6 DEF KindsMatch, Inv, StringOwnership
    <3>. QED
      BY <2>2, <3>1 DEF Inv, TypeOK
  <2>7. \A y \in Slots \ {s} : SampleOf(y)' = SampleOf(y)
    BY <2>2, <2>4, <2>6, SampleFrame DEF Inv, TypeOK
  <2>8. Payload(s)' = x
    BY <2>2 DEF Payload, Member, Inv, TypeOK, Slots
  <2>9. SampleOf(s)' = [type |-> dt, time |-> ts'[s], payload |-> x, holders |-> 1]
    BY <2>2, <2>8 DEF SampleOf, Inv, TypeOK, Slots
  <2>10. ts'[s] \in Times /\ s \in Slots
    BY <2>3 DEF Inv, TypeOK, Slots
  <2>11. x \in Samples!Payloads(dt) /\ s \in Samples!PoolOf(dt)
    BY DEF Samples!Payloads, Samples!PoolOf
  <2>12. Samples!Next
    BY <2>1, <2>7, <2>9, <2>10, <2>11, CreateStep DEF DataTypes
  <2>. QED
    BY <2>5, <2>12
<1>. QED
  BY <1>1, <1>2, <1>3 DEF CreateString

(* dataSample_ExtractJson creates a sample with its source's timestamp, or *)
(* nothing.                                                                *)
LEMMA ExtractJsonRef ==
    ASSUME Inv, KindsMatch, NEW src \in Slots, ExtractJson(src)
    PROVE  KindsMatch' /\ [Samples!Next]_smpBar
<1>1. ts[src] \in Times \cup {NOW}
  BY DEF Inv, TypeOK
<1>2. CASE UNCHANGED vars
  <2>1. \A y \in Slots : SampleOf(y)' = SampleOf(y)
    BY <1>2, SampleFrame DEF vars
  <2>. QED
    BY <1>2, <2>1, StutterStep DEF vars, KindsMatch
<1>3. CASE CreateTrigger(ts[src])
  BY <1>1, <1>3, CreateNonStringRef DEF CreateTrigger
<1>4. CASE \E v \in BOOLEAN : CreateBoolean(ts[src], v)
  BY <1>1, <1>4, CreateNonStringRef DEF CreateBoolean
<1>5. CASE \E v \in Numbers : CreateNumeric(ts[src], v)
  BY <1>1, <1>5, CreateNonStringRef DEF CreateNumeric
<1>6. CASE \E x \in Texts : CreateString(ts[src], "STRING", x)
  BY <1>1, <1>6, CreateStringRef
<1>7. CASE \E x \in Texts : CreateJson(ts[src], x)
  BY <1>1, <1>7, CreateStringRef DEF CreateJson
<1>. QED
  BY <1>2, <1>3, <1>4, <1>5, <1>6, <1>7 DEF ExtractJson

(* Every step of DataSample keeps KindsMatch and is a step or a stutter of *)
(* SampleValues.                                                           *)
LEMMA NextRef ==
    ASSUME Inv, KindsMatch, [Next]_vars
    PROVE  KindsMatch' /\ [Samples!Next]_smpBar
<1>1. CASE \E t \in Times \cup {NOW} : CreateTrigger(t)
  BY <1>1, CreateNonStringRef DEF CreateTrigger
<1>2. CASE \E t \in Times \cup {NOW}, v \in BOOLEAN : CreateBoolean(t, v)
  BY <1>2, CreateNonStringRef DEF CreateBoolean
<1>3. CASE \E t \in Times \cup {NOW}, v \in Numbers : CreateNumeric(t, v)
  BY <1>3, CreateNonStringRef DEF CreateNumeric
<1>4. CASE \E t \in Times \cup {NOW}, x \in Texts : CreateString(t, "STRING", x)
  BY <1>4, CreateStringRef
<1>5. CASE \E t \in Times \cup {NOW}, x \in Texts : CreateJson(t, x)
  BY <1>5, CreateStringRef DEF CreateJson
<1>6. CASE \E s \in Slots : ExtractJson(s)
  BY <1>6, ExtractJsonRef
<1>7. CASE \E s \in Slots, t \in Times : SetTimestamp(s, t)
  BY <1>7, SetTimestampRef
<1>8. CASE \E s \in Slots : AddRef(s)
  BY <1>8, AddRefRef
<1>9. CASE \E s \in Slots : Release(s)
  BY <1>9, ReleaseRef
<1>10. CASE UNCHANGED vars
  <2>1. \A y \in Slots : SampleOf(y)' = SampleOf(y)
    BY <1>10, SampleFrame DEF vars
  <2>. QED
    BY <1>10, <2>1, StutterStep DEF vars, KindsMatch
<1>. QED
  BY <1>1, <1>2, <1>3, <1>4, <1>5, <1>6, <1>7, <1>8, <1>9, <1>10 DEF Next

(* The inductive invariant of the refinement.                              *)
RInv == Inv /\ KindsMatch

LEMMA InitRef ==
    ASSUME Init
    PROVE  RInv /\ Samples!Init
<1>1. Inv
  BY InitInv
<1>2. KindsMatch
  BY DEF Init, KindsMatch
<1>3. Samples!Init
  BY DEF Init, SampleOf, Samples!Init, Samples!Slots, Slots
<1>. QED
  BY <1>1, <1>2, <1>3 DEF RInv

(* Spec section 2: a sample is shared through its reference count, is      *)
(* immutable but for its timestamp, and its string payload lives exactly  *)
(* as long as it does.  For any pool sizes, every behaviour of the create  *)
(* functions, dataSample_ExtractJson, SetTimestamp, le_mem_AddRef and      *)
(* le_mem_Release with StringSampleDestructor is, seen through the         *)
(* getters, a behaviour of SampleValues.                                   *)
THEOREM SamplesImplemented == Spec => ImplementsSamples
<1>1. Init => RInv
  BY InitRef
<1>2. RInv /\ [Next]_vars => RInv'
  BY NextInv, NextRef DEF RInv
<1>3. Init => Samples!Init
  BY InitRef
<1>4. RInv /\ [Next]_vars => [Samples!Next]_smpBar
  BY NextRef DEF RInv
<1>. QED
  BY <1>1, <1>2, <1>3, <1>4, PTL DEF Spec, ImplementsSamples, Samples!Spec, smpBar

=============================================================================
