---------------------------- MODULE MCSensorNode ----------------------------
(* A byte of 16 values, 7 bits of a varint byte scaled to 8 values, 32 bits  *)
(* to 2 bytes and 64 bits to 4.                                              *)
EXTENDS SensorNode, SequencesExt

MCAmps == {-2}
MCClimates == {<<3, 40>>, <<3, Failed>>}

Num(tag, ltype, htype, size) ==
  [tag |-> tag, ltype |-> ltype, htype |-> htype, size |-> size, max |-> 2, sub |-> <<>>, union |-> 0]
Text(tag, ltype, htype, max) == [Num(tag, ltype, htype, 0) EXCEPT !.max = max]
Sub == <<Num(1, "svarint", "required", 2), Num(2, "uvarint", "optional", 2)>>
SubMessage(tag, htype, max) == [Num(tag, "submessage", htype, 0) EXCEPT !.sub = Sub, !.max = max]
OneOf(f) == [f EXCEPT !.union = 1]

MCDescriptors == {
  <<Num(1, "varint", "required", 2), Num(20, "varint", "optional", 4), Num(3, "uvarint", "optional", 2)>>,
  <<Num(1, "svarint", "repeated", 2), Num(2, "svarint", "optional", 4)>>,
  <<Num(1, "fixed32", "repeated", 2), Num(9, "fixed64", "optional", 4), Num(2, "uvarint", "optional", 4)>>,
  <<Text(1, "bytes", "optional", 3), Text(2, "string", "required", 3), Text(3, "string", "repeated", 2)>>,
  <<SubMessage(1, "optional", 0), Num(5, "fixed32", "optional", 2), SubMessage(2, "repeated", 1)>>,
  <<OneOf(SubMessage(1, "optional", 0)), OneOf(Num(2, "uvarint", "optional", 2)),
    OneOf(Num(3, "fixed64", "optional", 4))>> }

\* The values at the limits of each type, and what a field may hold of them.
RECURSIVE Products(_)
Values(f) ==
  CASE f.ltype \in {"varint", "svarint"} ->
         {-(Flat!Words(f.size) \div 2), -1, 0, Digit, (Flat!Words(f.size) \div 2) - 1}
    [] f.ltype = "uvarint" -> {0, Digit - 1, Digit, Flat!Words(f.size) - 1}
    [] f.ltype = "fixed32" -> {0, Byte, Flat!Words(N32) - 1}
    [] f.ltype = "fixed64" -> {1, Flat!Words(N64) - 1}
    [] f.ltype = "bytes" -> {<<>>, <<0>>, [i \in 1..f.max |-> Byte - 1]}
    [] f.ltype = "string" -> {<<>>, [i \in 1..(f.max - 1) |-> Byte - 1]}
    [] f.ltype = "submessage" -> Products(f.sub)

Fills(f) ==
  CASE f.htype = "required" -> {<<v>> : v \in Values(f)}
    [] f.htype = "optional" -> {<<v>> : v \in Values(f)} \cup {<<>>}
    [] f.htype = "repeated" -> UNION {[1..n -> Values(f)] : n \in 0..f.max}

Products(fields) ==
  FoldLeft(LAMBDA ms, f : {Append(m, v) : m \in ms, v \in Fills(f)}, {<<>>}, fields)

\* Of a oneof, one field at most is there.
MCMessages(fields) ==
  {m \in Products(fields) :
     \A i, j \in DOMAIN fields :
       i # j /\ fields[i].union # 0 /\ fields[i].union = fields[j].union => <<>> \in {m[i], m[j]}}
=============================================================================
