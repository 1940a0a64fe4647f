--------------------------- MODULE DataSampleProofs ---------------------------
(***************************************************************************)
(* Proofs about DataSample: type correctness, and that string blocks are   *)
(* owned one to one by the live string-based samples, for any sizes of the *)
(* three pools and any payloads.                                           *)
(***************************************************************************)
EXTENDS DataSample, TLAPS

USE SlotsAssumption, TimesAssumption, MaxRefAssumption

(* The inductive invariant: StringOwnership needs nothing more than the    *)
(* types.                                                                  *)
Inv == TypeOK /\ StringOwnership

LEMMA InitInv == Init => Inv
<1> SUFFICES ASSUME Init PROVE Inv
  OBVIOUS
<1>1. TypeOK
  BY DEF Init, TypeOK, Slots, Values, Member, DataTypes
<1>2. StringOwnership
  BY DEF Init, StringOwnership
<1>. QED
  BY <1>1, <1>2 DEF Inv

(* CreateSample's timestamp stays a time.                                  *)
LEMMA StampType ==
    ASSUME ts \in [Slots -> Times], NEW s \in Slots, NEW t \in Times \cup {NOW},
           Stamp(t, s)
    PROVE  ts' \in [Slots -> Times]
BY DEF Stamp

(* A sample of NonStringDataSamplePool, whatever the value it is created   *)
(* with, leaves the string-based samples alone.                            *)
LEMMA CreateNonStringInv ==
    ASSUME Inv, NEW t \in Times \cup {NOW},
           NEW dt \in {"TRIGGER", "BOOLEAN", "NUMERIC"}, NEW v,
           dt = "BOOLEAN" => v \in BOOLEAN, dt = "NUMERIC" => v \in Numbers,
           CreateNonString(t, dt, v)
    PROVE  Inv'
<1>1. CASE UNCHANGED vars
  BY <1>1 DEF Inv, TypeOK, StringOwnership, vars
<1>2. CASE \E s \in NonStringSlots \ alloc :
              /\ alloc' = alloc \cup {s}
              /\ ref' = [ref EXCEPT ![s] = 1]
              /\ Stamp(t, s)
              /\ val' = CASE dt = "TRIGGER" -> val
                          [] dt = "BOOLEAN" -> [val EXCEPT ![s] = Member("boolean", v)]
                          [] dt = "NUMERIC" -> [val EXCEPT ![s] = Member("numeric", v)]
              /\ kind' = [kind EXCEPT ![s] = dt]
              /\ UNCHANGED <<strAlloc, text>>
  <2>1. PICK s \in NonStringSlots \ alloc :
              /\ alloc' = alloc \cup {s}
              /\ ref' = [ref EXCEPT ![s] = 1]
              /\ Stamp(t, s)
              /\ val' = CASE dt = "TRIGGER" -> val
                          [] dt = "BOOLEAN" -> [val EXCEPT ![s] = Member("boolean", v)]
                          [] dt = "NUMERIC" -> [val EXCEPT ![s] = Member("numeric", v)]
              /\ kind' = [kind EXCEPT ![s] = dt]
              /\ UNCHANGED <<strAlloc, text>>
    BY <1>2
  <2>2. s \in Slots /\ s \notin StringSlots
    BY DEF Slots
  <2>3. ts' \in [Slots -> Times]
    BY <2>1, <2>2, StampType DEF Inv, TypeOK
  <2>4. val' \in [Slots -> Values] /\ \A x \in StringSlots : val'[x] = val[x]
    BY <2>1, <2>2 DEF Inv, TypeOK, Values, Member, Slots
  <2>5. TypeOK'
    BY <2>1, <2>2, <2>3, <2>4 DEF Inv, TypeOK, Slots, DataTypes
  <2>6. alloc' \cap StringSlots = alloc \cap StringSlots
    BY <2>1, <2>2
  <2>7. StringOwnership'
    BY <2>1, <2>4, <2>6 DEF Inv, StringOwnership
  <2>. QED
    BY <2>5, <2>7 DEF Inv
<1>. QED
  BY <1>1, <1>2 DEF CreateNonString

(* CreateString: a successful StrDup gives the new sample a block nobody   *)
(* owns; a failed one writes NULL into a free block, which owns nothing.   *)
LEMMA CreateStringInv ==
    ASSUME Inv, NEW t \in Times \cup {NOW}, NEW dt \in {"STRING", "JSON"},
           NEW x \in Texts, CreateString(t, dt, x)
    PROVE  Inv'
<1>1. CASE UNCHANGED vars
  BY <1>1 DEF Inv, TypeOK, StringOwnership, vars
<1>2. CASE \E s \in StringSlots \ alloc, b \in StrBlocks \ strAlloc :
              /\ alloc' = alloc \cup {s}
              /\ ref' = [ref EXCEPT ![s] = 1]
              /\ Stamp(t, s)
              /\ val' = [val EXCEPT ![s] = Member("stringPtr", b)]
              /\ kind' = [kind EXCEPT ![s] = dt]
              /\ strAlloc' = strAlloc \cup {b}
              /\ text' = [text EXCEPT ![b] = x]
  <2>1. PICK s \in StringSlots \ alloc, b \in StrBlocks \ strAlloc :
              /\ alloc' = alloc \cup {s}
              /\ ref' = [ref EXCEPT ![s] = 1]
              /\ Stamp(t, s)
              /\ val' = [val EXCEPT ![s] = Member("stringPtr", b)]
              /\ kind' = [kind EXCEPT ![s] = dt]
              /\ strAlloc' = strAlloc \cup {b}
              /\ text' = [text EXCEPT ![b] = x]
    BY <1>2
  <2>2. s \in Slots
    BY DEF Slots
  <2>3. ts' \in [Slots -> Times]
    BY <2>1, <2>2, StampType DEF Inv, TypeOK
  <2>4. TypeOK'
    BY <2>1, <2>2, <2>3 DEF Inv, TypeOK, Values, Member, DataTypes, Slots
  <2>5. StringOwnership'
    BY <2>1, <2>2 DEF Inv, TypeOK, StringOwnership, Member
  <2>. QED
    BY <2>4, <2>5 DEF Inv
<1>3. CASE \E s \in StringSlots \ alloc :
              /\ Stamp(t, s)
              /\ val' = [val EXCEPT ![s] = Member("stringPtr", None)]
              /\ UNCHANGED <<alloc, ref, kind, strAlloc, text>>
  <2>1. PICK s \in StringSlots \ alloc :
              /\ Stamp(t, s)
              /\ val' = [val EXCEPT ![s] = Member("stringPtr", None)]
              /\ UNCHANGED <<alloc, ref, kind, strAlloc, text>>
    BY <1>3
  <2>2. s \in Slots
    BY DEF Slots
  <2>3. ts' \in [Slots -> Times]
    BY <2>1, <2>2, StampType DEF Inv, TypeOK
  <2>4. TypeOK'
    BY <2>1, <2>2, <2>3 DEF Inv, TypeOK, Values, Member
  <2>5. StringOwnership'
    BY <2>1, <2>2 DEF Inv, TypeOK, StringOwnership
  <2>. QED
    BY <2>4, <2>5 DEF Inv
<1>. QED
  BY <1>1, <1>2, <1>3 DEF CreateString

(* ExtractJson creates a sample with the source's timestamp, a time.      *)
LEMMA ExtractJsonInv ==
    ASSUME Inv, NEW src \in Slots, ExtractJson(src)
    PROVE  Inv'
<1>1. ts[src] \in Times \cup {NOW}
  BY DEF Inv, TypeOK
<1>2. CASE UNCHANGED vars
  BY <1>2 DEF Inv, TypeOK, StringOwnership, vars
<1>3. CASE CreateTrigger(ts[src])
  BY <1>1, <1>3, CreateNonStringInv DEF CreateTrigger
<1>4. CASE \E v \in BOOLEAN : CreateBoolean(ts[src], v)
  BY <1>1, <1>4, CreateNonStringInv DEF CreateBoolean
<1>5. CASE \E v \in Numbers : CreateNumeric(ts[src], v)
  BY <1>1, <1>5, CreateNonStringInv DEF CreateNumeric
<1>6. CASE \E x \in Texts : CreateString(ts[src], "STRING", x)
  BY <1>1, <1>6, CreateStringInv
<1>7. CASE \E x \in Texts : CreateJson(ts[src], x)
  BY <1>1, <1>7, CreateStringInv DEF CreateJson
<1>. QED
  BY <1>2, <1>3, <1>4, <1>5, <1>6, <1>7 DEF ExtractJson

LEMMA SetTimestampInv ==
    ASSUME Inv, NEW s \in Slots, NEW t \in Times, SetTimestamp(s, t)
    PROVE  Inv'
BY DEF SetTimestamp, Inv, TypeOK, StringOwnership

LEMMA AddRefInv ==
    ASSUME Inv, NEW s \in Slots, AddRef(s)
    PROVE  Inv'
<1>1. TypeOK'
  BY DEF AddRef, Inv, TypeOK
<1>2. StringOwnership'
  BY DEF AddRef, Inv, StringOwnership
<1>. QED
  BY <1>1, <1>2 DEF Inv

(* The last release of a string-based sample frees the one string block it *)
(* owns, which no other sample owns.                                       *)
LEMMA ReleaseInv ==
    ASSUME Inv, NEW s \in Slots, Release(s)
    PROVE  Inv'
<1>1. s \in alloc /\ ref[s] \in 1..MaxRef
  BY DEF Release, Inv, TypeOK
<1>2. TypeOK'
  BY <1>1 DEF Release, Inv, TypeOK
<1>3. ASSUME ref[s] # 1 PROVE StringOwnership'
  BY <1>3 DEF Release, Inv, StringOwnership
<1>4. ASSUME ref[s] = 1, s \notin StringSlots PROVE StringOwnership'
  BY <1>4 DEF Release, Inv, StringOwnership
<1>5. ASSUME ref[s] = 1, s \in StringSlots PROVE StringOwnership'
  <2>1. val[s].v \in strAlloc /\ val[s].v # None
    BY <1>1, <1>5 DEF Inv, TypeOK, StringOwnership
  <2>2. /\ alloc' = alloc \ {s}
        /\ strAlloc' = strAlloc \ {val[s].v}
        /\ val' = val
    BY <1>5, <2>1 DEF Release
  <2>3. \A o \in alloc \cap StringSlots : o # s => val[o].v # val[s].v
    BY <1>1, <1>5 DEF Inv, StringOwnership
  <2>. QED
    BY <2>1, <2>2, <2>3 DEF Inv, StringOwnership
<1>. QED
  BY <1>2, <1>3, <1>4, <1>5 DEF Inv

LEMMA NextInv ==
    ASSUME Inv, [Next]_vars
    PROVE  Inv'
<1>1. CASE \E t \in Times \cup {NOW} : CreateTrigger(t)
  BY <1>1, CreateNonStringInv DEF CreateTrigger
<1>2. CASE \E t \in Times \cup {NOW}, v \in BOOLEAN : CreateBoolean(t, v)
  BY <1>2, CreateNonStringInv DEF CreateBoolean
<1>3. CASE \E t \in Times \cup {NOW}, v \in Numbers : CreateNumeric(t, v)
  BY <1>3, CreateNonStringInv DEF CreateNumeric
<1>4. CASE \E t \in Times \cup {NOW}, x \in Texts : CreateString(t, "STRING", x)
  BY <1>4, CreateStringInv
<1>5. CASE \E t \in Times \cup {NOW}, x \in Texts : CreateJson(t, x)
  BY <1>5, CreateStringInv DEF CreateJson
<1>6. CASE \E s \in Slots : ExtractJson(s)
  BY <1>6, ExtractJsonInv
<1>7. CASE \E s \in Slots, t \in Times : SetTimestamp(s, t)
  BY <1>7, SetTimestampInv
<1>8. CASE \E s \in Slots : AddRef(s)
  BY <1>8, AddRefInv
<1>9. CASE \E s \in Slots : Release(s)
  BY <1>9, ReleaseInv
<1>10. CASE UNCHANGED vars
  BY <1>10 DEF Inv, TypeOK, StringOwnership, vars
<1>. QED
  BY <1>1, <1>2, <1>3, <1>4, <1>5, <1>6, <1>7, <1>8, <1>9, <1>10 DEF Next

(* Type correctness of the sample pools: a sample block is allocated       *)
(* exactly while it has a count, whatever sequence of creates, extractions *)
(* and releases the holders make.                                          *)
THEOREM TypeCorrect == Spec => []TypeOK
<1>1. Init => Inv
  BY InitInv
<1>2. Inv /\ [Next]_vars => Inv'
  BY NextInv
<1>3. Inv => TypeOK
  BY DEF Inv
<1>. QED
  BY <1>1, <1>2, <1>3, PTL DEF Spec

(* For any pool sizes: every live string or JSON sample owns its own       *)
(* StringPool block and every allocated block has an owner, through        *)
(* CreateString's failed StrDup (stringPtr nulled before the release) and  *)
(* StringSampleDestructor.                                                 *)
THEOREM StringsOwned == Spec => []StringOwnership
<1>1. Init => Inv
  BY InitInv
<1>2. Inv /\ [Next]_vars => Inv'
  BY NextInv
<1>3. Inv => StringOwnership
  BY DEF Inv
<1>. QED
  BY <1>1, <1>2, <1>3, PTL DEF Spec

=============================================================================
