------------------------------- MODULE Nanopb -------------------------------
(***************************************************************************)
(* The protobuf encoder and decoder of the nodes (pb_encode.c, pb_decode.c *)
(* and pb_common.c of nanopb 0.3.6), for fields kept in the message        *)
(* itself; pointer fields (no malloc) and extensions are left out.         *)
(*                                                                         *)
(* Widths are parameters: a byte holds Byte values and gives Digit of      *)
(* them, Bits bits, to a varint (256, 128 and 7), a 32-bit word has N32    *)
(* bytes (4), a 64-bit one N64 (8).  A byte is then a number below Byte.   *)
(*                                                                         *)
(* A descriptor is a sequence of fields [tag, ltype, htype, size, max,     *)
(* sub, union]: max is the capacity of a string, of a byte array or of an  *)
(* array, sub the descriptor of a submessage, union the oneof (0: none).   *)
(* A message gives each field the sequence of its values: of one value at  *)
(* most, unless the field is repeated.                                     *)
(*                                                                         *)
(* The functions of the code call themselves for submessages.  As a static *)
(* message is nested to a depth that its descriptor gives, one level of it *)
(* is this module, and the level below are its last three parameters.      *)
(***************************************************************************)
EXTENDS Integers, SequencesExt, FiniteSetsExt

CONSTANTS
  Byte, Digit, Bits, N32, N64,
  SubBytes(_, _),             \* the encoding of a submessage: of what descriptor, and what it holds
  SubDecoded(_, _, _, _),     \* what decoding it gives: the buffer, the substream, the descriptor, before
  SubOK(_, _)                 \* the submessages the program may have

-----------------------------------------------------------------------------
(* Numbers                                                                 *)

Power(base, n) == LET p[i \in 0..n] == IF i = 0 THEN 1 ELSE base * p[i - 1] IN p[n]

WidthsOK ==
  /\ Bits \in Nat \ {0} /\ Digit = Power(2, Bits) /\ Byte = 2 * Digit
  /\ N32 \in Nat \ {0} /\ N64 \in Nat /\ N64 > N32

Words(n) == Power(Byte, n)
Signed(n, v) == IF v % Words(n) < Words(n) \div 2 THEN v % Words(n)
                ELSE (v % Words(n)) - Words(n)

\* A number, and what is left of it after each of n shifts by a digit.
Shifted(base, v, n) == LET w[i \in 0..n] == IF i = 0 THEN v ELSE w[i - 1] \div base IN w

\* The number that has these digits, the lowest first.
Number(base, digits) ==
  LET n == Len(digits)
      v[i \in 0..n] == IF i = 0 THEN 0 ELSE digits[n - i + 1] + base * v[i - 1]
  IN  v[n]

\* How many digits n bytes' worth of bits take.
VarintLimit(n) == (n * (Bits + 1) + Bits - 1) \div Bits

\* pb_encode_varint(): the top bit of a byte says that another one follows.
Varint(v) ==
  LET w == Shifted(Digit, v, VarintLimit(N64))
      n == Min({k \in 1..VarintLimit(N64) : w[k] = 0})
  IN  [i \in 1..n |-> (w[i - 1] % Digit) + (IF i < n THEN Digit ELSE 0)]

\* Variant of Zigzag: the sign is dropped.
ZigzagUnsigned(v) == 2 * (IF v < 0 THEN -v ELSE v)

\* pb_encode_svarint() and pb_decode_svarint(): the sign goes to the lowest bit.
Zigzag(v) == IF v < 0 THEN -2 * v - 1 ELSE 2 * v
Unzigzag(w) == IF w % 2 = 1 THEN -(w \div 2) - 1 ELSE w \div 2

\* pb_encode_fixed32() and pb_encode_fixed64(): lowest byte first.
Fixed(n, v) == [i \in 1..n |-> Shifted(Byte, v, n)[i - 1] % Byte]

-----------------------------------------------------------------------------
(* The encoder                                                             *)

Numeric == {"varint", "uvarint", "svarint", "fixed32", "fixed64"}
WtVarint == 0
Wt64Bit == 1
WtString == 2
Wt32Bit == 5

WireType(f) ==
  CASE f.ltype \in {"varint", "uvarint", "svarint"} -> WtVarint
    [] f.ltype = "fixed32" -> Wt32Bit
    [] f.ltype = "fixed64" -> Wt64Bit
    [] OTHER -> WtString

Tag(wireType, tag) == Varint(8 * tag + wireType)

\* What pb_encode_string() writes, the length and the bytes, each by a
\* pb_write() of its own.
LengthThen(bytes) == <<Varint(Len(bytes)), bytes>>

\* pb_enc_string() stops at a null character.
UpToNull(s) ==
  LET ends == {i \in DOMAIN s : s[i] = 0}
  IN  IF ends = {} THEN s ELSE SubSeq(s, 1, Min(ends) - 1)

\* What the encoder writes, one element for each pb_write().  A submessage is
\* written if there is room for the whole of it only.
EncodeValue(f, v) ==
  CASE f.ltype = "varint" -> <<Varint(v % Words(N64))>>
    [] f.ltype = "uvarint" -> <<Varint(v)>>
    [] f.ltype = "svarint" -> <<Varint(Zigzag(v))>>
    [] f.ltype = "fixed32" -> <<Fixed(N32, v)>>
    [] f.ltype = "fixed64" -> <<Fixed(N64, v)>>
    [] f.ltype = "bytes" -> LengthThen(v)
    [] f.ltype = "string" -> LengthThen(UpToNull(v))
    [] f.ltype = "submessage" -> LengthThen(SubBytes(f.sub, v))

Tagged(f, v) == <<Tag(WireType(f), f.tag)>> \o EncodeValue(f, v)
Elements(f, vals) == [i \in DOMAIN vals |-> EncodeValue(f, vals[i])[1]]
PackedAfterTag(f, elements) ==
  <<Tag(WtString, f.tag), Varint(Len(FlattenSeq(elements)))>> \o elements
Packed(f) == f.htype = "repeated" /\ f.ltype \in Numeric
EncodeField(f, vals) ==
  IF Packed(f) /\ vals # <<>> THEN PackedAfterTag(f, Elements(f, vals))
  ELSE FlattenSeq([i \in DOMAIN vals |-> Tagged(f, vals[i])])

EncodeMessage(fields, m) ==
  FlattenSeq([i \in DOMAIN fields |-> EncodeField(fields[i], m[i])])

Encoded(fields, m) == FlattenSeq(EncodeMessage(fields, m))

\* pb_ostream_from_buffer()
OStream(max) == [out |-> <<>>, max |-> max, ok |-> TRUE]

\* How many of the writes fit, and the stream after so many.
Fitting(s, writes) ==
  Max({k \in 0..Len(writes) : k = 0 \/ Len(s.out) + Len(FlattenSeq(SubSeq(writes, 1, k))) <= s.max})
Written(s, writes, n) ==
  [s EXCEPT !.out = @ \o FlattenSeq(SubSeq(writes, 1, n)), !.ok = n = Len(writes)]

\* pb_encode() into a stream: a pb_write() that does not fit is left out, and
\* ends the encoding.
WriteAll(s, writes) == Written(s, writes, Fitting(s, writes))
Encode(s, fields, m) == WriteAll(s, EncodeMessage(fields, m))

-----------------------------------------------------------------------------
(* The decoder.  A stream is a place in a buffer b and the bytes left; what *)
(* is read is [ok, val, s].                                                *)

IStream(b) == [pos |-> 0, left |-> Len(b)]
Skip(s, n) == [pos |-> s.pos + n, left |-> s.left - n]
Got(ok, val, s) == [ok |-> ok, val |-> val, s |-> s]

\* Goes on with what was read; if it could not be read, the result is val.
Then(r, val, Go(_)) == IF r.ok THEN Go(r) ELSE Got(FALSE, val, r.s)

\* To the first byte without the top bit, of limit bytes; the value is their number.
ToLastByte(b, s, limit) ==
  LET ToFirst(ends) == IF ends = {} THEN Got(FALSE, limit, Skip(s, limit))
                       ELSE Got(TRUE, Min(ends), Skip(s, Min(ends)))
  IN  ToFirst({k \in 1..limit : b[s.pos + k] < Digit})

\* pb_decode_varint() and pb_decode_varint32()
ReadVarint(b, s, n) ==
  LET Value(r) ==
        Got(TRUE, Number(Digit, [i \in 1..r.val |-> b[s.pos + i] % Digit]) % Words(n), r.s)
  IN  Then(ToLastByte(b, s, Min({s.left, VarintLimit(n)})), 0, Value)

\* pb_read()
ReadBytes(b, s, n) ==
  IF s.left < n THEN Got(FALSE, <<>>, s)
  ELSE Got(TRUE, SubSeq(b, s.pos + 1, s.pos + n), Skip(s, n))

\* pb_make_string_substream(): the length, and the substream as its value.
ReadLength(b, s) ==
  LET Split(n) == IF n.s.left < n.val THEN Got(FALSE, n.s, n.s)
                  ELSE Got(TRUE, [n.s EXCEPT !.left = n.val], [n.s EXCEPT !.left = @ - n.val])
  IN  Then(ReadVarint(b, s, N32), s, Split)

\* pb_close_string_substream(): the parent goes on where the substream ended,
\* with the bytes left it had without the whole of it.
Close(s, sub) == [s EXCEPT !.pos = sub.pos]

SkipString(b, s) ==
  LET Bytes(n) == ReadBytes(b, n.s, n.val) IN Then(ReadVarint(b, s, N32), <<>>, Bytes)

\* Variant of SkipField: eight bytes are skipped as if they were four.
SkipFieldShort(b, s, wireType) ==
  CASE wireType = WtVarint -> ToLastByte(b, s, s.left)
    [] wireType = WtString -> SkipString(b, s)
    [] OTHER -> ReadBytes(b, s, N32)

\* pb_skip_field()
SkipField(b, s, wireType) ==
  CASE wireType = WtVarint -> ToLastByte(b, s, s.left)
    [] wireType = Wt64Bit -> ReadBytes(b, s, N64)
    [] wireType = WtString -> SkipString(b, s)
    [] wireType = Wt32Bit -> ReadBytes(b, s, N32)
    [] OTHER -> Got(FALSE, 0, s)

\* pb_dec_varint(), pb_dec_uvarint() and pb_dec_svarint(): the value must not
\* change when it is cast to the size of the field.
Clamped(r, v, cast) == Got(cast = v, cast, r.s)
AsInt(f, v) == IF f.size = N64 THEN Signed(N64, v) ELSE Signed(N32, v)
ReadNumber(b, s, f) ==
  LET FromFixed(r) == Got(TRUE, Number(Byte, r.val), r.s)
      FromVarint(r) ==
        CASE f.ltype = "varint" -> Clamped(r, AsInt(f, r.val), Signed(f.size, AsInt(f, r.val)))
          [] f.ltype = "uvarint" -> Clamped(r, r.val, r.val % Words(f.size))
          [] f.ltype = "svarint" -> Clamped(r, Unzigzag(r.val), Signed(f.size, Unzigzag(r.val)))
  IN  CASE f.ltype = "fixed32" -> Then(ReadBytes(b, s, N32), 0, FromFixed)
        [] f.ltype = "fixed64" -> Then(ReadBytes(b, s, N64), 0, FromFixed)
        [] OTHER -> Then(ReadVarint(b, s, N64), 0, FromVarint)

\* pb_dec_bytes() and pb_dec_string(), which wants room for a null character.
ReadString(b, s, f) ==
  LET room(n) == IF f.ltype = "string" THEN n.val + 1 ELSE n.val
      Value(r) == IF f.ltype = "string" THEN Got(TRUE, UpToNull(r.val), r.s) ELSE r
      Bytes(n) == IF room(n) > f.max THEN Got(FALSE, <<>>, n.s)
                  ELSE Then(ReadBytes(b, n.s, n.val), <<>>, Value)
  IN  Then(ReadVarint(b, s, N32), <<>>, Bytes)

Defaults(fields) == [i \in DOMAIN fields |-> <<>>]

\* The field with a tag, if there is one.
Find(fields, tag) == {i \in DOMAIN fields : fields[i].tag = tag}

\* pb_dec_submessage(): what was there before stays, unless the field is
\* repeated or in a oneof.
Earlier(f, before) ==
  IF f.htype = "repeated" \/ f.union # 0 \/ before = <<>> THEN Defaults(f.sub) ELSE before[1]
Closed(r, parent) == Got(r.ok, r.val, Close(parent, r.s))
SubmessageIn(b, f, before, sub) ==
  IF sub.ok THEN Closed(SubDecoded(b, sub.val, f.sub, Earlier(f, before)), sub.s) ELSE sub
ReadSubmessage(b, s, f, before) == SubmessageIn(b, f, before, ReadLength(b, s))

ReadValue(b, s, f, before) ==
  CASE f.ltype \in Numeric -> ReadNumber(b, s, f)
    [] f.ltype = "submessage" -> ReadSubmessage(b, s, f, before)
    [] OTHER -> ReadString(b, s, f)

\* The elements of a packed array, as long as the array has room.
PackedStep(b, f, r) ==
  IF ~r.ok \/ r.s.left = 0 \/ Len(r.val) >= f.max THEN r
  ELSE LET Appended(v) == Got(TRUE, Append(r.val, v.val), v.s)
       IN  Then(ReadValue(b, r.s, f, <<>>), r.val, Appended)
ReadPacked(b, s, f, vals) ==
  LET r[k \in 0..s.left] == IF k = 0 THEN Got(TRUE, vals, s) ELSE PackedStep(b, f, r[k - 1])
  IN  r[s.left]

AllRead(r) == Got(r.ok /\ r.s.left = 0, r.val, r.s)
PackedIn(b, f, vals, sub) ==
  IF sub.ok THEN Closed(AllRead(ReadPacked(b, sub.val, f, vals)), sub.s) ELSE Got(FALSE, vals, sub.s)

\* decode_static_field(): the new values of the field.  The wire type is only
\* looked at if the field is repeated.
ReadField(b, s, f, wireType, before) ==
  LET Stored(r) == IF f.htype = "repeated" THEN Got(Len(before) < f.max, Append(before, r.val), r.s)
                   ELSE Got(TRUE, <<r.val>>, r.s)
  IN  IF Packed(f) /\ wireType = WtString
        THEN PackedIn(b, f, before, ReadLength(b, s))
      ELSE Then(ReadValue(b, s, f, before), before, Stored)

\* A field of a oneof takes the place of the others.
Store(fields, m, i, vals) ==
  [j \in DOMAIN fields |->
     IF j = i THEN vals
     ELSE IF fields[i].union # 0 /\ fields[j].union = fields[i].union THEN <<>> ELSE m[j]]

\* Where pb_decode_noinit() stands in its loop: what it has read so far.
At(pc, m, seen, s) == [pc |-> pc, m |-> m, seen |-> seen, s |-> s]

\* What was read is the field at place i, or was skipped.
Taken(fields, d, i, r) ==
  IF r.ok THEN At("loop", Store(fields, d.m, i, r.val), d.seen \cup {i}, r.s)
  ELSE At("error", d.m, d.seen, r.s)
Skipped(d, r) == At(IF r.ok THEN "loop" ELSE "error", d.m, d.seen, r.s)

\* The field with the tag t, at one of the places found in the descriptor, or skipped.
FieldAt(b, t, fields, d, i) ==
  Taken(fields, d, i, ReadField(b, t.s, fields[i], t.val % 8, d.m[i]))
DecodeField(b, t, fields, d, found) ==
  IF found = {} THEN Skipped(d, SkipField(b, t.s, t.val % 8))
  ELSE FieldAt(b, t, fields, d, Min(found))

\* A message ends with its bytes, with a tag of 0 or in a tag that the bytes left do
\* not complete.
DecodeFrom(b, t, fields, d) ==
  IF t.ok /\ t.val # 0 THEN DecodeField(b, t, fields, d, Find(fields, t.val \div 8))
  ELSE At(IF t.ok \/ t.s.left = 0 THEN "end" ELSE "error", d.m, d.seen, t.s)

\* Once round the loop, which a field always takes a byte for.
DecodeStep(b, fields, d) ==
  IF d.pc # "loop" \/ d.s.left = 0 THEN d
  ELSE DecodeFrom(b, ReadVarint(b, d.s, N32), fields, d)

DecodeLoop(b, s, fields, m) ==
  LET d[k \in 0..s.left] == IF k = 0 THEN At("loop", m, {}, s) ELSE DecodeStep(b, fields, d[k - 1])
  IN  d[s.left]

\* All required fields must have been seen.
Complete(fields, d) ==
  Got(d.pc # "error" /\ \A i \in DOMAIN fields : fields[i].htype = "required" => i \in d.seen,
      d.m, d.s)

\* pb_decode_noinit()
Decoded(b, s, fields, m) == Complete(fields, DecodeLoop(b, s, fields, m))

\* pb_decode()
Decode(bytes, fields) == Decoded(bytes, IStream(bytes), fields, Defaults(fields))

-----------------------------------------------------------------------------
(* What a program may have: a descriptor as the generator writes it, and a *)
(* message that its structure can hold.                                    *)

Ranges(n) == -(Words(n) \div 2)..((Words(n) \div 2) - 1)
Bytes == 0..(Byte - 1)

FieldOK(f) ==
  /\ f.tag \in Nat \ {0} /\ 8 * f.tag + 7 < Words(N32)
  /\ f.ltype \in Numeric \cup {"bytes", "string", "submessage"}
  /\ f.htype \in {"required", "optional", "repeated"}
  /\ f.ltype \in {"varint", "uvarint", "svarint"} => f.size \in {N32, N64}
  /\ f.max \in 0..(Words(N32) - 1)
  /\ f.union # 0 => f.htype = "optional"

IsSeq(s) == Len(s) \in Nat /\ s = [i \in 1..Len(s) |-> s[i]]

DescriptorOK(fields) ==
  /\ IsSeq(fields)
  /\ \A i \in DOMAIN fields : FieldOK(fields[i])
  /\ \A i, j \in DOMAIN fields : fields[i].tag = fields[j].tag => i = j

ValueOK(f, v) ==
  CASE f.ltype \in {"varint", "svarint"} -> v \in Ranges(f.size)
    [] f.ltype = "uvarint" -> v \in 0..(Words(f.size) - 1)
    [] f.ltype = "fixed32" -> v \in 0..(Words(N32) - 1)
    [] f.ltype = "fixed64" -> v \in 0..(Words(N64) - 1)
    [] f.ltype = "bytes" -> v \in Seq(Bytes) /\ Len(v) <= f.max
    [] f.ltype = "string" -> v \in Seq(Bytes \ {0}) /\ Len(v) < f.max
    [] f.ltype = "submessage" -> SubOK(f.sub, v)

\* What a field may hold; the length of a packed array, as that of a message, is a
\* 32-bit number.
FillOK(f, vals) ==
  /\ IsSeq(vals)
  /\ \A i \in DOMAIN vals : ValueOK(f, vals[i])
  /\ CASE f.htype = "required" -> Len(vals) = 1
       [] f.htype = "optional" -> Len(vals) <= 1
       [] f.htype = "repeated" -> Len(vals) <= f.max
  /\ Packed(f) => Len(FlattenSeq(Elements(f, vals))) < Words(N32)

\* Of a oneof, one field at most is there.
MessageOK(fields, m) ==
  /\ DescriptorOK(fields) /\ IsSeq(m) /\ Len(m) = Len(fields)
  /\ \A i \in DOMAIN fields : FillOK(fields[i], m[i])
  /\ \A i, j \in DOMAIN fields :
       i # j /\ fields[i].union # 0 /\ fields[i].union = fields[j].union => <<>> \in {m[i], m[j]}
  /\ Len(Encoded(fields, m)) < Words(N32)

-----------------------------------------------------------------------------
\* Whatever a message holds, decoding what was encoded gives it back, and uses up
\* the bytes.
Gives(r, m) == r.ok /\ r.val = m /\ r.s.left = 0
GivenBack(fields, m) == \A bytes \in {Encoded(fields, m)} : Gives(Decode(bytes, fields), m)

\* A receiver that does not know a field of the message, because its descriptor is
\* older, skips it and finds all the others.
SkippedBy(fields, m) ==
  \A i \in DOMAIN fields :
    LET without(s) == SubSeq(s, 1, i - 1) \o SubSeq(s, i + 1, Len(s))
    IN  \A bytes \in {Encoded(fields, m)} : Gives(Decode(bytes, without(fields)), without(m))
=============================================================================
