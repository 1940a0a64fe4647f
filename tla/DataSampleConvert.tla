--------------------------- MODULE DataSampleConvert ---------------------------
(***************************************************************************)
(* dataSample_ConvertToJson and dataSample_ConvertToString                 *)
(* (src/components/dataHub/dataSample.c): a sample's value written into a *)
(* caller's buffer of valueBuffSize bytes.  A conversion's result is its   *)
(* le_result_t, the NUL-terminated text in the buffer, and whether every   *)
(* byte it wrote lies inside the buffer.                                   *)
(***************************************************************************)
EXTENDS DataSample, Integers, Sequences, TLC

CONSTANT BufSizes   \* the buffer sizes callers pass

ASSUME ConvertAssumption == BufSizes \subseteq Nat \ {0} /\ Numbers \subseteq Int

Ok(out, inBounds) == [code |-> "OK", out |-> out, inBounds |-> inBounds]
Overflow == [code |-> "OVERFLOW", out |-> "", inBounds |-> TRUE]

(* le_utf8_Copy(buf, x, size, NULL): copies x and its NUL when they fit,   *)
(* else truncates (inside the buffer) and returns LE_OVERFLOW.             *)
Utf8Copy(x, size) == IF Len(x) < size THEN Ok(x, TRUE) ELSE Overflow

(* snprintf(buf, size, fmt, ...) of the text x, tested as the code does:  *)
(* the count it returns, Len(x), is at least size on overflow.             *)
Snprintf(x, size) == IF Len(x) >= size THEN Overflow ELSE Ok(x, TRUE)

(* "%lf" of a number: six fractional digits.  The numbers are integers.    *)
FormatLf(n) == ToString(n) \o ".000000"

\* Mutant: the room test forgets the byte for the closing quote.
QuoteStringNoRoom(x, size) ==
    IF size < 3 THEN Overflow
    ELSE LET c == Utf8Copy(x, size - 1)
             len == IF c.code = "OK" THEN Len(x) ELSE size - 2
         IN  IF c.code # "OK" \/ len >= size - 1 THEN Overflow
             ELSE Ok("\"" \o x \o "\"", len + 2 < size)

(* The IO_DATA_TYPE_STRING case: a quote at byte 0, le_utf8_Copy of the   *)
(* string into the size - 1 bytes after it (len is what it copied), the    *)
(* room test, then a quote at byte len + 1 and the NUL at byte len + 2.    *)
QuoteString(x, size) ==
    IF size < 3 THEN Overflow
    ELSE LET c == Utf8Copy(x, size - 1)
             len == IF c.code = "OK" THEN Len(x) ELSE size - 2
         IN  IF c.code # "OK" \/ len >= (size - 1) - 1 THEN Overflow
             ELSE Ok("\"" \o x \o "\"", len + 2 < size)

(* The string a stringPtr points at.                                       *)
Str(s) == text[val[s].v]

(* dataSample_ConvertToJson(s, dt, buf, size).                             *)
ConvertToJson(s, dt, size) ==
    CASE dt = "TRIGGER" -> Utf8Copy("null", size)
      [] dt = "BOOLEAN" -> Snprintf(IF val[s].v THEN "true" ELSE "false", size)
      [] dt = "NUMERIC" -> Snprintf(FormatLf(val[s].v), size)
      [] dt = "STRING"  -> QuoteString(Str(s), size)
      [] dt = "JSON"    -> Utf8Copy(Str(s), size)

(* dataSample_ConvertToString: a string's bytes as they are, anything else *)
(* as JSON.                                                                *)
ConvertToString(s, dt, size) ==
    IF dt = "STRING" THEN Utf8Copy(Str(s), size) ELSE ConvertToJson(s, dt, size)

-----------------------------------------------------------------------------
(* The reference: spec section 4.1's printable and JSON forms.             *)

JsonText(s, dt) ==
    CASE dt = "TRIGGER" -> "null"
      [] dt = "BOOLEAN" -> IF val[s].v THEN "true" ELSE "false"
      [] dt = "NUMERIC" -> FormatLf(val[s].v)
      [] dt = "STRING"  -> "\"" \o Str(s) \o "\""
      [] dt = "JSON"    -> Str(s)

PrintText(s, dt) == IF dt = "STRING" THEN Str(s) ELSE JsonText(s, dt)

(* A conversion into a buffer of size bytes of the text want: it succeeds  *)
(* with exactly want when want and its NUL fit, reports Overflow when      *)
(* they do not, and never writes outside the buffer.                       *)
Converts(got, want, size) ==
    /\ got.inBounds
    /\ IF Len(want) < size THEN got = Ok(want, TRUE) ELSE got.code = "OVERFLOW"

(* Spec sections 4.1, 7 and 8: convert_to_json and convert_to_string of    *)
(* every live sample, read as the type it was created with, give its JSON  *)
(* or printable form or Overflow, for every buffer size; in particular a   *)
(* string needs its length plus three bytes (convert_to_json of "hi" into  *)
(* 2 bytes overflows) and its closing quote and NUL stay in the buffer.    *)
ConversionsCorrect ==
    \A s \in alloc : \A size \in BufSizes :
        /\ Converts(ConvertToJson(s, kind[s], size), JsonText(s, kind[s]), size)
        /\ Converts(ConvertToString(s, kind[s], size), PrintText(s, kind[s]), size)

=============================================================================
