------------------------------ MODULE KeyTypes ------------------------------
(***************************************************************************)
(* The stored form of an index key (src/src/storage/type_serializer.cpp)   *)
(* and the comparison of two keys in that form                             *)
(* (src/src/index/key_comparator.cpp).                                     *)
(*                                                                         *)
(* A value is a record of three numbers whose meaning depends on its type: *)
(*   num   an integer; a day, millisecond or instant; a Boolean; a double  *)
(*         in units of 1e-11; the rank of a text, byte string, UUID,       *)
(*         document or point                                               *)
(*   form  how the value is written: the number of blanks around a CHAR,   *)
(*         zeros of a DECIMAL, case and punctuation of a UUID, layout of a *)
(*         document; for a double 0 is a number and 1, 2, 3 are NaN and    *)
(*         the two infinities                                              *)
(*   len   the bytes of a text, DECIMAL or byte string; two texts with the *)
(*         same num and different len are prefixes of one another          *)
(***************************************************************************)
EXTENDS Integers, Sequences

IntegerTypes == {"TINYINT", "SMALLINT", "INT"}
TextTypes == {"VARCHAR", "TINYTEXT", "CHAR"}
DateTimeTypes == {"DATE", "TIME", "DATETIME", "SMALLDATETIME"}

Least(a, b) == IF a < b THEN a ELSE b

\* An integer narrowed to a number of bits, two's complement.
Narrow(n, bits) == ((n + 2^(bits - 1)) % 2^bits) - 2^(bits - 1)

\* serializeInteger and deserializeInteger.
StoredInteger(type, v) ==
  [v EXCEPT !.num = IF type = "TINYINT" THEN Narrow(v.num, 8)
                    ELSE IF type = "SMALLINT" THEN Narrow(v.num, 16) ELSE v.num]

\* serializeString and deserializeString: the length is written in 16 bits, a
\* TINYTEXT is cut to 255 characters, a CHAR loses its blanks when it is read.
StoredText(type, v) ==
  [v EXCEPT !.len = (IF type = "TINYTEXT" THEN Least(v.len, 255) ELSE v.len) % 2^16,
            !.form = IF type = "CHAR" THEN 0 ELSE v.form]

\* serializeDateTime and deserializeDateTime: a TIME and a SMALLDATETIME are
\* kept in whole seconds, the others in the unit they have.
StoredDateTime(type, v) ==
  [v EXCEPT !.num = IF type \in {"TIME", "SMALLDATETIME"} THEN v.num - (v.num % 1000) ELSE v.num]

\* serializeBoolean and deserializeBoolean.
StoredBoolean(v) == [v EXCEPT !.num = IF v.num = 0 THEN 0 ELSE 1]

\* serializeJsonXml and deserializeJsonXml: a JSON document is written in one layout
\* (QJsonDocument::toJson).
StoredDocument(v) == [v EXCEPT !.form = 0]

\* serializeSpecial and deserializeSpecial: a UUID is written in one form (parseUUID
\* and formatUUID), a geometry that is no point as nothing (parseWKB).
StoredSpecial(type, v) ==
  IF type = "UUID" THEN [v EXCEPT !.form = 0]
  ELSE IF v.form # 0 THEN [v EXCEPT !.num = 0, !.form = 0] ELSE v

\* What deserialize makes of what serialize wrote.
Stored(type, v) ==
  IF type \in IntegerTypes THEN StoredInteger(type, v)
  ELSE IF type \in TextTypes THEN StoredText(type, v)
  ELSE IF type \in DateTimeTypes THEN StoredDateTime(type, v)
  ELSE IF type = "BOOLEAN" THEN StoredBoolean(v)
  ELSE IF type = "JSON" THEN StoredDocument(v)
  ELSE IF type \in {"UUID", "GEOMETRY"} THEN StoredSpecial(type, v)
  ELSE v \* DOUBLE, DECIMAL, BINARY

\* The bytes serialize wrote: a CHAR still has its blanks.
Written(type, v) == IF type = "CHAR" THEN v ELSE Stored(type, v)

\* deserializeDecimal refuses what serializeDecimal wrote when it is longer.
Deserializable(type, v) == type = "DECIMAL" => v.len <= 1024

\* getSerializedSize: a NULL flag, and a length before what has no fixed size.
SerializedSize(type, v) ==
  1 + (IF type \in {"TINYINT", "BOOLEAN"} THEN 1
       ELSE IF type = "SMALLINT" THEN 2
       ELSE IF type \in {"INT", "DATE", "TIME", "SMALLDATETIME"} THEN 4
       ELSE IF type \in {"DOUBLE", "DATETIME"} THEN 8
       ELSE IF type = "UUID" THEN 16
       ELSE IF type = "CHAR" THEN 2 + v.len + v.form
       ELSE IF type \in TextTypes \cup {"DECIMAL"} THEN 2 + v.len
       ELSE 4 + v.len)

-----------------------------------------------------------------------------
Sign(n) == IF n < 0 THEN -1 ELSE IF n > 0 THEN 1 ELSE 0

\* compareFloat: NaN is greater than every number, and numbers that differ by
\* less than 1e-10 are equal.
compareFloat(a, b) ==
  IF a.form = 1 \/ b.form = 1 THEN Sign((IF a.form = 1 THEN 1 ELSE 0) - (IF b.form = 1 THEN 1 ELSE 0))
  ELSE LET Reach(v) == IF v.form = 2 THEN 1 ELSE IF v.form = 3 THEN -1 ELSE 0
       IN IF Reach(a) # Reach(b) THEN Sign(Reach(a) - Reach(b))
          ELSE IF Reach(a) # 0 \/ a.num - b.num \in -9..9 THEN 0
          ELSE Sign(a.num - b.num)

\* compareString and compareBinary: the common part decides, then the length.
compareText(a, b) == IF a.num # b.num THEN Sign(a.num - b.num) ELSE Sign(a.len - b.len)

\* KeyComparator::compare of two values that are not NULL.  JSON documents and
\* geometries have no order: they are all equal.
Compare(type, a, b) ==
  IF type \in TextTypes \cup {"BINARY"} THEN compareText(a, b)
  ELSE IF type = "DOUBLE" THEN compareFloat(a, b)
  ELSE IF type \in {"JSON", "GEOMETRY"} THEN 0
  ELSE Sign(a.num - b.num) \* integers, DECIMAL, dates and times, BOOLEAN, UUID

\* compareSerialized: a key that cannot be read back is equal to every key.
compareSerialized(type, a, b) ==
  IF Deserializable(type, a) /\ Deserializable(type, b)
  THEN Compare(type, Stored(type, a), Stored(type, b))
  ELSE 0

-----------------------------------------------------------------------------
\* What a value means, however it is written: a double's class (negative
\* infinity, numbers, infinity, NaN), the number or text, the length of a text.
Denotes(type, v) ==
  LET s == Stored(type, v)
  IN <<IF type # "DOUBLE" THEN 0 ELSE <<0, 2, 1, -1>>[s.form + 1], s.num,
       IF type \in TextTypes \cup {"BINARY"} THEN s.len ELSE 0>>

\* The order of these meanings.
Precedes(d, e) ==
  \E i \in 1..3 : d[i] < e[i] /\ \A j \in 1..(i - 1) : d[j] = e[j]
=============================================================================
