---------------------------- MODULE Nanopb_proof ----------------------------
(***************************************************************************)
(* Proofs about the protobuf encoder and decoder, for all widths of bytes  *)
(* and words, all descriptors and all messages.                            *)
(*                                                                         *)
(* A stream Holds what was written; from there every part of the decoder   *)
(* is shown to read back what the matching part of the encoder wrote, and  *)
(* to skip it where the receiver does not know the field: numbers (a       *)
(* varint by induction over its digits), strings, submessages (supposed of *)
(* the level below, SubGivesBack), then tag and value as one record, the   *)
(* records of a field, and the fields of a message, which the loop of the  *)
(* decoder takes one after the other.  MessageBack gives of this level     *)
(* what was supposed of the level below, so that it can be used again.     *)
(*                                                                         *)
(* The inductions are over sets of numbers (NatInd): of the recursive      *)
(* functions of the codec it is proved first that there is such a function.*)
(***************************************************************************)
EXTENDS Nanopb, WellFoundedInduction, SequenceTheorems, TLAPS

-----------------------------------------------------------------------------
(* Induction                                                               *)

\* A set of numbers has a smallest one: what all the inductions below rest on.
LEMMA NatMin == \A T \in SUBSET Nat : T # {} => \E x \in T : \A y \in T : x <= y
<1> SUFFICES ASSUME NEW T \in SUBSET Nat, T # {} PROVE \E x \in T : \A y \in T : x <= y
  OBVIOUS
<1> DEFINE R == OpToRel(<, Nat)
<1>1. IsWellFoundedOn(R, Nat)
  BY NatLessThanWellFounded
<1>2. \A x, y \in Nat : x < y => <<x, y>> \in R
  BY DEF OpToRel
<1> HIDE DEF R
<1>3. PICK x \in T : \A y \in T : ~(<<y, x>> \in R)
  BY <1>1, WFMin
<1>4. x \in Nat /\ \A y \in T : y \in Nat /\ ~(y < x)
  BY <1>2, <1>3, Zenon
<1>5. \A y \in T : x <= y
  BY <1>4
<1>6. QED BY <1>5

\* Induction, for what can be said as a set.
LEMMA NatInd ==
  ASSUME NEW S, 0 \in S, \A k \in Nat : k \in S => k + 1 \in S
  PROVE  \A k \in Nat : k \in S
<1> DEFINE T == {k \in Nat : k \notin S}
<1> SUFFICES ASSUME T # {} PROVE FALSE
  OBVIOUS
<1>1. PICK x \in T : \A y \in T : x <= y
  <2>1. T \in SUBSET Nat
    OBVIOUS
  <2> HIDE DEF T
  <2>2. QED BY <2>1, NatMin
<1>2. x \in Nat /\ x \notin S /\ \A y \in Nat : y \notin S => x <= y
  BY <1>1
<1>3. x # 0 /\ x - 1 \in Nat
  BY <1>2
<1>4. x - 1 \in S
  BY <1>2, <1>3
<1>5. (x - 1) + 1 \in S
  BY <1>3, <1>4
<1>6. QED BY <1>2, <1>5

-----------------------------------------------------------------------------
(* Recursive functions: there is one, and what it is at each place         *)

\* Power() multiplies n times.
LEMMA PowerIs ==
  ASSUME NEW base, NEW n \in Nat
  PROVE  \E p : /\ Power(base, n) = p[n] /\ p[0] = 1
              /\ \A i \in 1..n : p[i] = base * p[i - 1]
<1> DEFINE zero == 1
           Step(x) == base * x
           F(m, p) == [i \in 0..m |-> IF i = 0 THEN zero ELSE Step(p[i - 1])]
           S == {m \in Nat : \E p : p = F(m, p)}
           r == CHOOSE p : p = F(n, p)
<1>1. Power(base, n) = r[n]
  BY DEF Power
<1> HIDE DEF zero, Step
<1>2. 0 \in S
  <2> DEFINE p == [i \in 0..0 |-> zero]
  <2>1. p = F(0, p)
    OBVIOUS
  <2>2. QED BY <2>1
<1>3. ASSUME NEW m \in Nat, m \in S PROVE m + 1 \in S
  <2>1. PICK p : p = F(m, p)
    BY <1>3
  <2> DEFINE q == [i \in 0..(m + 1) |-> IF i = m + 1 THEN Step(p[m]) ELSE p[i]]
  <2>2. \A i \in 0..m : p[i] = IF i = 0 THEN zero ELSE Step(p[i - 1])
    BY <2>1
  <2>3. \A i \in 0..(m + 1) : q[i] = IF i = 0 THEN zero ELSE Step(q[i - 1])
    BY <2>2
  <2>4. q = F(m + 1, q) /\ m + 1 \in Nat
    BY <2>3
  <2> HIDE DEF q
  <2>5. QED BY <2>4, Zenon
<1>4. n \in S
  <2> HIDE DEF S
  <2>1. QED BY <1>2, <1>3, NatInd
<1>5. r = F(n, r)
  BY <1>4, Zenon
<1> HIDE DEF r
<1>6. r[0] = zero /\ \A i \in 1..n : r[i] = Step(r[i - 1])
  BY <1>5
<1>7. QED BY <1>1, <1>6, Zenon DEF zero, Step

\* Shifted(): the loop of pb_encode_varint() and of pb_encode_fixed32().
LEMMA ShiftedIs ==
  ASSUME NEW base, NEW v, NEW n \in Nat
  PROVE  \E p : /\ Shifted(base, v, n) = p /\ p[0] = v
              /\ \A i \in 1..n : p[i] = p[i - 1] \div base
<1> DEFINE zero == v
           Step(x) == x \div base
           F(m, p) == [i \in 0..m |-> IF i = 0 THEN zero ELSE Step(p[i - 1])]
           S == {m \in Nat : \E p : p = F(m, p)}
           r == CHOOSE p : p = F(n, p)
<1>1. Shifted(base, v, n) = r
  BY DEF Shifted
<1> HIDE DEF zero, Step
<1>2. 0 \in S
  <2> DEFINE p == [i \in 0..0 |-> zero]
  <2>1. p = F(0, p)
    OBVIOUS
  <2>2. QED BY <2>1
<1>3. ASSUME NEW m \in Nat, m \in S PROVE m + 1 \in S
  <2>1. PICK p : p = F(m, p)
    BY <1>3
  <2> DEFINE q == [i \in 0..(m + 1) |-> IF i = m + 1 THEN Step(p[m]) ELSE p[i]]
  <2>2. \A i \in 0..m : p[i] = IF i = 0 THEN zero ELSE Step(p[i - 1])
    BY <2>1
  <2>3. \A i \in 0..(m + 1) : q[i] = IF i = 0 THEN zero ELSE Step(q[i - 1])
    BY <2>2
  <2>4. q = F(m + 1, q) /\ m + 1 \in Nat
    BY <2>3
  <2> HIDE DEF q
  <2>5. QED BY <2>4, Zenon
<1>4. n \in S
  <2> HIDE DEF S
  <2>1. QED BY <1>2, <1>3, NatInd
<1>5. r = F(n, r)
  BY <1>4, Zenon
<1> HIDE DEF r
<1>6. r[0] = zero /\ \A i \in 1..n : r[i] = Step(r[i - 1])
  BY <1>5
<1>7. QED BY <1>1, <1>6, Zenon DEF zero, Step

\* The partial sums of a number, from the highest digit down.
NumberRun(p, base, digits) ==
  p[0] = 0 /\ \A i \in 1..Len(digits) : p[i] = digits[Len(digits) - i + 1] + base * p[i - 1]

\* Number(): the loop of pb_decode_varint().
LEMMA NumberIs ==
  ASSUME NEW base, NEW digits, Len(digits) \in Nat
  PROVE  \E p : NumberRun(p, base, digits) /\ Number(base, digits) = p[Len(digits)]
<1> DEFINE zero == 0
           Step(x, i) == digits[Len(digits) - i + 1] + base * x
           F(m, p) == [i \in 0..m |-> IF i = 0 THEN zero ELSE Step(p[i - 1], i)]
           S == {m \in Nat : \E p : p = F(m, p)}
           r == CHOOSE p : p = F(Len(digits), p)
<1>1. Number(base, digits) = r[Len(digits)]
  BY DEF Number
<1> HIDE DEF zero, Step
<1>2. 0 \in S
  <2> DEFINE p == [i \in 0..0 |-> zero]
  <2>1. p = F(0, p)
    OBVIOUS
  <2>2. QED BY <2>1
<1>3. ASSUME NEW m \in Nat, m \in S PROVE m + 1 \in S
  <2>1. PICK p : p = F(m, p)
    BY <1>3
  <2> DEFINE q == [i \in 0..(m + 1) |-> IF i = m + 1 THEN Step(p[m], m + 1) ELSE p[i]]
  <2>2. \A i \in 0..m : p[i] = IF i = 0 THEN zero ELSE Step(p[i - 1], i)
    BY <2>1
  <2>3. \A i \in 0..(m + 1) : q[i] = IF i = 0 THEN zero ELSE Step(q[i - 1], i)
    BY <2>2
  <2>4. q = F(m + 1, q) /\ m + 1 \in Nat
    BY <2>3
  <2> HIDE DEF q
  <2>5. QED BY <2>4, Zenon
<1>4. Len(digits) \in S
  <2> HIDE DEF S
  <2>1. QED BY <1>2, <1>3, NatInd
<1>5. r = F(Len(digits), r)
  BY <1>4, Zenon
<1> HIDE DEF r
<1>6. r[0] = zero /\ \A i \in 1..Len(digits) : r[i] = Step(r[i - 1], i)
  BY <1>5
<1>7. NumberRun(r, base, digits)
  BY <1>6, Zenon DEF zero, Step, NumberRun
<1>8. QED BY <1>1, <1>7, Zenon

\* The places where the loop of pb_decode_noinit() stands, one step after the other.
LoopRun(p, b, fields, s, before) ==
  p[0] = At("loop", before, {}, s) /\ \A i \in 1..s.left : p[i] = DecodeStep(b, fields, p[i - 1])

\* DecodeLoop: the loop of pb_decode_noinit(), step by step.
LEMMA LoopIs ==
  ASSUME NEW b, NEW fields, NEW s, NEW before, s.left \in Nat
  PROVE  \E p : LoopRun(p, b, fields, s, before) /\ DecodeLoop(b, s, fields, before) = p[s.left]
<1> DEFINE zero == At("loop", before, {}, s)
           Step(x) == DecodeStep(b, fields, x)
           F(m, p) == [i \in 0..m |-> IF i = 0 THEN zero ELSE Step(p[i - 1])]
           S == {m \in Nat : \E p : p = F(m, p)}
           r == CHOOSE p : p = F(s.left, p)
<1>1. DecodeLoop(b, s, fields, before) = r[s.left]
  BY DEF DecodeLoop
<1> HIDE DEF zero, Step
<1>2. 0 \in S
  <2> DEFINE p == [i \in 0..0 |-> zero]
  <2>1. p = F(0, p)
    OBVIOUS
  <2>2. QED BY <2>1
<1>3. ASSUME NEW m \in Nat, m \in S PROVE m + 1 \in S
  <2>1. PICK p : p = F(m, p)
    BY <1>3
  <2> DEFINE q == [i \in 0..(m + 1) |-> IF i = m + 1 THEN Step(p[m]) ELSE p[i]]
  <2>2. \A i \in 0..m : p[i] = IF i = 0 THEN zero ELSE Step(p[i - 1])
    BY <2>1
  <2>3. \A i \in 0..(m + 1) : q[i] = IF i = 0 THEN zero ELSE Step(q[i - 1])
    BY <2>2
  <2>4. q = F(m + 1, q) /\ m + 1 \in Nat
    BY <2>3
  <2> HIDE DEF q
  <2>5. QED BY <2>4, Zenon
<1>4. s.left \in S
  <2> HIDE DEF S
  <2>1. QED BY <1>2, <1>3, NatInd
<1>5. r = F(s.left, r)
  BY <1>4, Zenon
<1> HIDE DEF r
<1>6. r[0] = zero /\ \A i \in 1..s.left : r[i] = Step(r[i - 1])
  BY <1>5
<1>7. LoopRun(r, b, fields, s, before)
  BY <1>6, Zenon DEF zero, Step, LoopRun
<1>8. QED BY <1>1, <1>7, Zenon

\* What the loop over a packed array has read, one element after the other.
PackedRun(p, b, s, f, vals) ==
  p[0] = Got(TRUE, vals, s) /\ \A i \in 1..s.left : p[i] = PackedStep(b, f, p[i - 1])

\* ReadPacked: the loop of decode_static_field() over a packed array.
LEMMA PackedIs ==
  ASSUME NEW b, NEW s, NEW f, NEW vals, s.left \in Nat
  PROVE  \E p : PackedRun(p, b, s, f, vals) /\ ReadPacked(b, s, f, vals) = p[s.left]
<1> DEFINE zero == Got(TRUE, vals, s)
           Step(x) == PackedStep(b, f, x)
           F(m, p) == [i \in 0..m |-> IF i = 0 THEN zero ELSE Step(p[i - 1])]
           S == {m \in Nat : \E p : p = F(m, p)}
           r == CHOOSE p : p = F(s.left, p)
<1>1. ReadPacked(b, s, f, vals) = r[s.left]
  BY DEF ReadPacked
<1> HIDE DEF zero, Step
<1>2. 0 \in S
  <2> DEFINE p == [i \in 0..0 |-> zero]
  <2>1. p = F(0, p)
    OBVIOUS
  <2>2. QED BY <2>1
<1>3. ASSUME NEW m \in Nat, m \in S PROVE m + 1 \in S
  <2>1. PICK p : p = F(m, p)
    BY <1>3
  <2> DEFINE q == [i \in 0..(m + 1) |-> IF i = m + 1 THEN Step(p[m]) ELSE p[i]]
  <2>2. \A i \in 0..m : p[i] = IF i = 0 THEN zero ELSE Step(p[i - 1])
    BY <2>1
  <2>3. \A i \in 0..(m + 1) : q[i] = IF i = 0 THEN zero ELSE Step(q[i - 1])
    BY <2>2
  <2>4. q = F(m + 1, q) /\ m + 1 \in Nat
    BY <2>3
  <2> HIDE DEF q
  <2>5. QED BY <2>4, Zenon
<1>4. s.left \in S
  <2> HIDE DEF S
  <2>1. QED BY <1>2, <1>3, NatInd
<1>5. r = F(s.left, r)
  BY <1>4, Zenon
<1> HIDE DEF r
<1>6. r[0] = zero /\ \A i \in 1..s.left : r[i] = Step(r[i - 1])
  BY <1>5
<1>7. PackedRun(r, b, s, f, vals)
  BY <1>6, Zenon DEF zero, Step, PackedRun
<1>8. QED BY <1>1, <1>7, Zenon

-----------------------------------------------------------------------------
(* Sequences of sequences                                                  *)

\* FlattenSeq appends one sequence after the other.
LEMMA FlattenIs ==
  ASSUME NEW S, NEW ss \in Seq(Seq(S))
  PROVE  \E p \in [0..Len(ss) -> Seq(S)] :
           /\ FlattenSeq(ss) = p[Len(ss)] /\ p[0] = << >>
           /\ \A i \in 1..Len(ss) : p[i] = p[i - 1] \o ss[i]
<1> DEFINE zero == << >>
           n == Len(ss)
           Step(x, i) == IF i = 1 THEN ss[i] ELSE x \o ss[i]
           F(m, p) == [i \in 1..m |-> Step(p[i - 1], i)]
           T == {m \in Nat : \E p : p = F(m, p)}
           r == CHOOSE p : p = F(n, p)
           q == [i \in 0..n |-> IF i = 0 THEN zero ELSE r[i]]
<1>1. n \in Nat /\ \A i \in 1..n : ss[i] \in Seq(S)
  BY LenProperties, ElementOfSeq
<1>2. FlattenSeq(ss) = q[n]
  <2>1. CASE n = 0
    <3>1. ss = zero /\ q[n] = zero
      BY <2>1, EmptySeq
    <3>2. QED BY <2>1, <3>1 DEF FlattenSeq
  <2>2. CASE n # 0
    <3>1. q[n] = r[n]
      BY <1>1, <2>2
    <3>2. QED BY <2>2, <3>1 DEF FlattenSeq
  <2>3. QED BY <2>1, <2>2
<1>8. Step(zero, 1) = ss[1] /\ \A x : \A i \in 2..n : Step(x, i) = x \o ss[i]
  OBVIOUS
<1>14. \A x, y : Step(x, 1) = Step(y, 1)
  OBVIOUS
<1> HIDE DEF Step
<1>3. 1 \in T
  <2> DEFINE p == [i \in 1..1 |-> Step(zero, 1)]
  <2>1. p = F(1, p)
    BY <1>14
  <2>2. QED BY <2>1
<1>4. 0 \in T
  <2> DEFINE p == [i \in 1..0 |-> ss[i]]
  <2>1. p = F(0, p)
    OBVIOUS
  <2>2. QED BY <2>1
<1>5. ASSUME NEW m \in Nat, m \in T PROVE m + 1 \in T
  <2>1. CASE m = 0
    <3>1. m + 1 = 1
      BY <2>1
    <3>2. QED BY <3>1, <1>3
  <2>2. CASE m # 0
    <3>1. PICK p : p = F(m, p)
      BY <1>5
    <3> DEFINE g == [i \in 1..(m + 1) |-> IF i = m + 1 THEN Step(p[m], i) ELSE p[i]]
    <3>2. \A i \in 1..m : p[i] = Step(p[i - 1], i)
      BY <3>1
    <3>3. \A i \in 1..(m + 1) : g[i] = Step(g[i - 1], i)
      BY <3>2, <2>2, <1>14
    <3>4. g = F(m + 1, g) /\ m + 1 \in Nat
      BY <3>3
    <3> HIDE DEF g
    <3>5. QED BY <3>4, Zenon
  <2>3. QED BY <2>1, <2>2
<1>6. n \in T
  <2> HIDE DEF T
  <2>1. QED BY <1>1, <1>4, <1>5, NatInd
<1>7. r = F(n, r)
  BY <1>6, Zenon
<1> HIDE DEF r
<1>15. \A i \in 1..n : r[i] = Step(r[i - 1], i)
  BY <1>7
<1>9. zero \in Seq(S) /\ \A i \in 1..n : zero \o ss[i] = ss[i]
  BY <1>1, EmptySeq, ConcatEmptySeq
<1> HIDE DEF zero
<1>10. q[0] = zero /\ \A i \in 1..n : q[i] = q[i - 1] \o ss[i]
  <2>1. q[0] = zero /\ \A i \in 1..n : q[i] = r[i]
    BY <1>1
  <2> HIDE DEF q
  <2>2. ASSUME NEW i \in 1..n PROVE q[i] = q[i - 1] \o ss[i]
    <3>1. CASE i = 1
      <4>1. r[1] = Step(zero, 1)
        BY <3>1, <1>14, <1>15, Zenon
      <4>2. i - 1 = 0
        BY <3>1
      <4>3. QED BY <4>1, <4>2, <3>1, <1>8, <1>9, <2>1, Zenon
    <3>2. CASE i # 1
      <4>1. i \in 2..n /\ i - 1 \in 1..n
        BY <3>2, <1>1
      <4>2. QED BY <4>1, <1>8, <1>15, <2>1, Zenon
    <3>3. QED BY <3>1, <3>2
  <2>3. QED BY <2>1, <2>2
<1> HIDE DEF q
<1> DEFINE U == {i \in Nat : i <= n => q[i] \in Seq(S)}
<1>11. \A i \in Nat : i \in U
  <2>1. 0 \in U
    BY <1>9, <1>10
  <2>2. ASSUME NEW i \in Nat, i \in U PROVE i + 1 \in U
    <3>1. CASE i + 1 <= n
      <4>1. i + 1 \in 1..n /\ i <= n /\ (i + 1) - 1 = i
        BY <3>1, <1>1
      <4>2. q[i + 1] = q[i] \o ss[i + 1] /\ q[i] \in Seq(S) /\ ss[i + 1] \in Seq(S)
        BY <4>1, <2>2, <1>10, <1>1
      <4>3. q[i + 1] \in Seq(S)
        BY <4>2, ConcatProperties, Zenon
      <4>4. QED BY <4>3
    <3>2. QED BY <3>1
  <2> HIDE DEF U
  <2>3. QED BY <2>1, <2>2, NatInd
<1>12. q \in [0..n -> Seq(S)]
  <2>1. \A i \in 0..n : q[i] \in Seq(S)
    BY <1>1, <1>11
  <2>2. QED BY <2>1 DEF q
<1>13. QED BY <1>2, <1>10, <1>12, Zenon DEF zero

\* It is the only one.
LEMMA FlattenUnique ==
  ASSUME NEW S, NEW ss \in Seq(Seq(S)), NEW p, p[0] = << >>,
         \A i \in 1..Len(ss) : p[i] = p[i - 1] \o ss[i]
  PROVE  FlattenSeq(ss) = p[Len(ss)]
<1> DEFINE zero == << >>
           n == Len(ss)
<1>1. n \in Nat
  BY LenProperties
<1>2. PICK q \in [0..Len(ss) -> Seq(S)] :
        /\ FlattenSeq(ss) = q[n] /\ q[0] = zero
        /\ \A i \in 1..n : q[i] = q[i - 1] \o ss[i]
  BY FlattenIs, Zenon
<1> HIDE DEF zero
<1>3. p[0] = zero
  BY DEF zero
<1> HIDE DEF n
<1>4. \A i \in 1..n : p[i] = p[i - 1] \o ss[i]
  BY DEF n
<1> DEFINE T == {i \in Nat : i <= n => p[i] = q[i]}
<1>5. 0 \in T
  BY <1>2, <1>3
<1>6. ASSUME NEW i \in Nat, i \in T PROVE i + 1 \in T
  <2>1. CASE i + 1 <= n
    <3>1. i + 1 \in 1..n /\ i <= n /\ (i + 1) - 1 = i
      BY <2>1, <1>1
    <3>2. p[i + 1] = p[i] \o ss[i + 1] /\ q[i + 1] = q[i] \o ss[i + 1] /\ p[i] = q[i]
      BY <3>1, <1>2, <1>4, <1>6
    <3>3. i + 1 \in Nat /\ p[i + 1] = q[i + 1]
      BY <3>2
    <3>4. QED BY <3>3
  <2>2. QED BY <2>1, <1>1
<1>7. n \in T
  <2> HIDE DEF T
  <2>1. QED BY <1>1, <1>5, <1>6, NatInd
<1>8. QED BY <1>1, <1>2, <1>7 DEF n

\* What is flattened has elements of the same kind.
LEMMA FlattenType ==
  ASSUME NEW S, NEW ss \in Seq(Seq(S))
  PROVE  FlattenSeq(ss) \in Seq(S)
<1>1. PICK p \in [0..Len(ss) -> Seq(S)] : FlattenSeq(ss) = p[Len(ss)]
  BY FlattenIs, Zenon
<1>2. Len(ss) \in 0..Len(ss)
  BY LenProperties
<1>3. QED BY <1>1, <1>2

\* Of one sequence, flattening gives that one.
LEMMA FlattenOne ==
  ASSUME NEW S, NEW s \in Seq(S)
  PROVE  FlattenSeq(<<s>>) = s
<1>1. <<s>> \in Seq(Seq(S)) /\ Len(<<s>>) = 1 /\ <<s>>[1] = s
  OBVIOUS
<1> DEFINE p == [i \in 0..1 |-> IF i = 0 THEN << >> ELSE s]
<1>2. p[0] = << >> /\ p[1] = s
  OBVIOUS
<1>3. << >> \o s = s
  BY ConcatEmptySeq
<1> HIDE DEF p
<1>4. \A i \in 1..Len(<<s>>) : p[i] = p[i - 1] \o <<s>>[i]
  <2> SUFFICES ASSUME NEW i \in 1..Len(<<s>>) PROVE p[i] = p[i - 1] \o <<s>>[i]
    OBVIOUS
  <2>1. i = 1 /\ i - 1 = 0 /\ <<s>>[i] = s
    BY <1>1
  <2>2. QED BY <2>1, <1>2, <1>3, Zenon
<1>5. FlattenSeq(<<s>>) = p[Len(<<s>>)]
  BY <1>1, <1>2, <1>4, FlattenUnique, Zenon
<1>6. QED BY <1>5, <1>1, <1>2

\* One more sequence comes behind the others.
LEMMA FlattenAppend ==
  ASSUME NEW S, NEW ss \in Seq(Seq(S)), NEW tt \in Seq(Seq(S)), NEW s \in Seq(S),
         Len(tt) = Len(ss) + 1, tt[Len(ss) + 1] = s, \A i \in 1..Len(ss) : tt[i] = ss[i]
  PROVE  FlattenSeq(tt) = FlattenSeq(ss) \o s
<1> DEFINE zero == << >>
           n == Len(ss)
<1>1. n \in Nat
  BY LenProperties
<1>2. PICK q \in [0..Len(ss) -> Seq(S)] :
        /\ FlattenSeq(ss) = q[n] /\ q[0] = zero
        /\ \A i \in 1..n : q[i] = q[i - 1] \o ss[i]
  BY FlattenIs, Zenon
<1>3. PICK p \in [0..Len(tt) -> Seq(S)] :
        /\ FlattenSeq(tt) = p[Len(tt)] /\ p[0] = zero
        /\ \A i \in 1..Len(tt) : p[i] = p[i - 1] \o tt[i]
  BY FlattenIs, Zenon
<1>4. \A i \in 1..n : p[i] = p[i - 1] \o ss[i]
  <2>1. \A i \in 1..n : i \in 1..Len(tt) /\ tt[i] = ss[i]
    BY <1>1
  <2>2. QED BY <2>1, <1>3, Zenon
<1>5. FlattenSeq(ss) = p[n]
  BY <1>3, <1>4, FlattenUnique, Zenon
<1>6. p[n + 1] = p[n] \o s
  <2>1. n + 1 \in 1..Len(tt) /\ (n + 1) - 1 = n
    BY <1>1
  <2>2. QED BY <2>1, <1>3, Zenon
<1>7. QED BY <1>3, <1>5, <1>6

\* Two sequences come one behind the other.
LEMMA FlattenTwo ==
  ASSUME NEW S, NEW s \in Seq(S), NEW t \in Seq(S)
  PROVE  FlattenSeq(<<s, t>>) = s \o t
<1>1. <<s>> \in Seq(Seq(S)) /\ <<s, t>> \in Seq(Seq(S)) /\ Len(<<s, t>>) = Len(<<s>>) + 1
  OBVIOUS
<1>2. <<s, t>>[Len(<<s>>) + 1] = t /\ \A i \in 1..Len(<<s>>) : <<s, t>>[i] = <<s>>[i]
  OBVIOUS
<1>3. FlattenSeq(<<s, t>>) = FlattenSeq(<<s>>) \o t
  BY <1>1, <1>2, FlattenAppend, Zenon
<1>4. QED BY <1>3, FlattenOne

\* Where each piece is in the whole.
PiecesAre(o, ss) ==
  /\ o \in [0..Len(ss) -> Nat] /\ o[0] = 0 /\ Len(FlattenSeq(ss)) = o[Len(ss)]
  /\ \A i \in 1..Len(ss) :
       /\ o[i] = o[i - 1] + Len(ss[i]) /\ o[i] <= o[Len(ss)]
       /\ \A j \in 1..Len(ss[i]) : FlattenSeq(ss)[o[i - 1] + j] = ss[i][j]

\* There are offsets at which each sequence is found in the flattened one.
LEMMA FlattenPieces ==
  ASSUME NEW S, NEW ss \in Seq(Seq(S))
  PROVE  \E o : PiecesAre(o, ss)
<1> DEFINE n == Len(ss)
<1>1. n \in Nat /\ \A i \in 1..n : ss[i] \in Seq(S) /\ Len(ss[i]) \in Nat
  BY LenProperties, ElementOfSeq
<1>2. PICK p \in [0..Len(ss) -> Seq(S)] :
        /\ FlattenSeq(ss) = p[Len(ss)] /\ p[0] = << >>
        /\ \A i \in 1..Len(ss) : p[i] = p[i - 1] \o ss[i]
  BY FlattenIs, Zenon
<1> DEFINE o == [i \in 0..n |-> Len(p[i])]
<1>3. \A i \in 0..n : p[i] \in Seq(S) /\ Len(p[i]) \in Nat
  BY <1>2, LenProperties
<1>4. o \in [0..n -> Nat] /\ o[0] = 0 /\ \A i \in 0..n : o[i] = Len(p[i])
  BY <1>1, <1>2, <1>3
<1> HIDE DEF o
<1>5. ASSUME NEW i \in 1..n
      PROVE  /\ Len(p[i]) = Len(p[i - 1]) + Len(ss[i])
             /\ \A j \in 1..Len(p[i]) :
                  p[i][j] = IF j <= Len(p[i - 1]) THEN p[i - 1][j] ELSE ss[i][j - Len(p[i - 1])]
  <2>1. i - 1 \in 0..n /\ i \in 0..n
    BY <1>1
  <2>2. p[i - 1] \in Seq(S) /\ ss[i] \in Seq(S) /\ p[i] = p[i - 1] \o ss[i]
    BY <2>1, <1>1, <1>2, <1>3
  <2>3. /\ Len(p[i - 1] \o ss[i]) = Len(p[i - 1]) + Len(ss[i])
        /\ \A j \in 1..(Len(p[i - 1]) + Len(ss[i])) : (p[i - 1] \o ss[i])[j] =
             IF j <= Len(p[i - 1]) THEN p[i - 1][j] ELSE ss[i][j - Len(p[i - 1])]
    BY <2>2, ConcatProperties, Zenon
  <2>4. QED BY <2>2, <2>3, Zenon
<1> DEFINE Kept(i, k) == Len(p[i]) <= Len(p[k]) /\ \A j \in 1..Len(p[i]) : p[k][j] = p[i][j]
<1>6. ASSUME NEW i \in 0..n PROVE \A k \in Nat : i <= k /\ k <= n => Kept(i, k)
  <2> DEFINE T == {k \in Nat : i <= k /\ k <= n => Kept(i, k)}
  <2>1. 0 \in T
    <3>1. i = 0 => Kept(i, 0)
      BY <1>1, <1>3
    <3> HIDE DEF Kept
    <3>2. QED BY <3>1
  <2>2. ASSUME NEW k \in Nat, k \in T PROVE k + 1 \in T
    <3>1. CASE i = k + 1 /\ i <= n
      <4>1. Kept(i, k + 1)
        BY <3>1, <1>3
      <4> HIDE DEF Kept
      <4>2. QED BY <4>1
    <3>2. CASE i <= k /\ k + 1 <= n
      <4>1. k + 1 \in 1..n /\ k \in 0..n /\ (k + 1) - 1 = k
        BY <3>2, <1>1
      <4>2. Kept(i, k)
        BY <2>2, <3>2
      <4>3. /\ Len(p[k + 1]) = Len(p[k]) + Len(ss[k + 1]) /\ Len(ss[k + 1]) \in Nat
            /\ \A j \in 1..Len(p[k + 1]) :
                 p[k + 1][j] = IF j <= Len(p[k]) THEN p[k][j] ELSE ss[k + 1][j - Len(p[k])]
        BY <4>1, <1>5, <1>1
      <4>4. Len(p[k]) \in Nat /\ Len(p[i]) \in Nat
        BY <4>1, <1>3
      <4>5. /\ Len(p[i]) <= Len(p[k + 1])
            /\ \A j \in 1..Len(p[i]) : j \in 1..Len(p[k + 1]) /\ j <= Len(p[k])
        <5>1. Len(p[i]) <= Len(p[k]) /\ Len(p[k + 1]) = Len(p[k]) + Len(ss[k + 1])
          BY <4>2, <4>3
        <5>2. Len(ss[k + 1]) \in Nat
          BY <4>3
        <5> HIDE DEF Kept
        <5> DEFINE a == Len(p[i])
                   c == Len(p[k])
                   d == Len(p[k + 1])
        <5>3. a \in Nat /\ c \in Nat /\ a <= c /\ \E e \in Nat : d = c + e
          BY <5>1, <5>2, <4>4
        <5> HIDE DEF a, c, d
        <5>4. a <= d /\ \A j \in 1..a : j \in 1..d /\ j <= c
          BY <5>3
        <5>5. QED BY <5>4 DEF a, c, d
      <4>7. Kept(i, k + 1)
        BY <4>2, <4>3, <4>5, Zenon
      <4> HIDE DEF Kept
      <4>6. QED BY <4>7
    <3> HIDE DEF Kept
    <3>3. CASE k + 1 > n \/ i > k + 1
      BY <3>3, <1>1
    <3>4. QED BY <3>1, <3>2, <3>3, <1>1
  <2> HIDE DEF T
  <2>3. \A k \in Nat : k \in T
    BY <2>1, <2>2, NatInd
  <2>4. QED BY <2>3 DEF T
<1>7. ASSUME NEW i \in 1..n
      PROVE  /\ o[i] = o[i - 1] + Len(ss[i]) /\ o[i] <= o[n]
             /\ \A j \in 1..Len(ss[i]) : FlattenSeq(ss)[o[i - 1] + j] = ss[i][j]
  <2>1. i \in 0..n /\ i - 1 \in 0..n /\ n \in 0..n /\ i <= n
    BY <1>1
  <2>2. Kept(i, n)
    BY <2>1, <1>6, <1>1
  <2>3. /\ Len(p[i]) = Len(p[i - 1]) + Len(ss[i])
        /\ \A j \in 1..Len(p[i]) :
             p[i][j] = IF j <= Len(p[i - 1]) THEN p[i - 1][j] ELSE ss[i][j - Len(p[i - 1])]
    BY <1>5
  <2>4. o[i] = Len(p[i]) /\ o[i - 1] = Len(p[i - 1]) /\ o[n] = Len(p[n])
    BY <2>1, <1>4
  <2>5. Len(p[i]) \in Nat /\ Len(p[i - 1]) \in Nat /\ Len(ss[i]) \in Nat
    BY <2>1, <1>3, <1>1
  <2>6. ASSUME NEW j \in 1..Len(ss[i]) PROVE FlattenSeq(ss)[o[i - 1] + j] = ss[i][j]
    <3>4. Len(p[i]) = Len(p[i - 1]) + Len(ss[i])
      BY <2>3
    <3>1. /\ Len(p[i - 1]) + j \in 1..Len(p[i]) /\ ~(Len(p[i - 1]) + j <= Len(p[i - 1]))
          /\ (Len(p[i - 1]) + j) - Len(p[i - 1]) = j
      <4> DEFINE a == Len(p[i - 1])
                 c == Len(ss[i])
      <4>1. a \in Nat /\ c \in Nat /\ j \in 1..c /\ Len(p[i]) = a + c
        BY <3>4, <2>5
      <4> HIDE DEF a, c
      <4>2. a + j \in 1..(a + c) /\ ~(a + j <= a) /\ (a + j) - a = j
        BY <4>1
      <4>3. QED BY <4>1, <4>2 DEF a
    <3>2. p[n][Len(p[i - 1]) + j] = ss[i][j]
      BY <3>1, <2>2, <2>3, Zenon
    <3>3. QED BY <3>2, <2>4, <1>2
  <2>7. QED BY <2>2, <2>3, <2>4, <2>6
<1>8. Len(FlattenSeq(ss)) = o[n]
  <2>1. n \in 0..n
    BY <1>1
  <2>2. QED BY <2>1, <1>2, <1>4
<1>9. PiecesAre(o, ss)
  BY <1>4, <1>7, <1>8, Zenon DEF PiecesAre
<1>10. QED BY <1>9

\* Of no sequence, flattening gives nothing.
LEMMA FlattenNothing == FlattenSeq(<< >>) = << >>
  BY DEF FlattenSeq

\* Which two of three sequences are joined first does not matter.
LEMMA ConcatAssoc == \A S : \A x, y, z \in Seq(S) : (x \o y) \o z = x \o (y \o z)
<1> SUFFICES ASSUME NEW S, NEW x \in Seq(S), NEW y \in Seq(S), NEW z \in Seq(S)
             PROVE  (x \o y) \o z = x \o (y \o z)
  OBVIOUS
<1> QED BY ConcatAssociative

\* Two lists of sequences, flattened one behind the other.
LEMMA FlattenConcat ==
  ASSUME NEW S
  PROVE  \A ss, tt \in Seq(Seq(S)) : FlattenSeq(ss \o tt) = FlattenSeq(ss) \o FlattenSeq(tt)
<1>12. \A x, y, z \in Seq(S) : (x \o y) \o z = x \o (y \o z)
  BY ConcatAssoc
<1> SUFFICES ASSUME NEW ss \in Seq(Seq(S)), NEW tt \in Seq(Seq(S))
             PROVE  FlattenSeq(ss \o tt) = FlattenSeq(ss) \o FlattenSeq(tt)
  OBVIOUS
<1> DEFINE n == Len(ss)
           m == Len(tt)
<1>1. /\ n \in Nat /\ m \in Nat
      /\ \A i \in 1..n : ss[i] \in Seq(S)
      /\ \A i \in 1..m : tt[i] \in Seq(S)
  BY LenProperties, ElementOfSeq
<1>2. PICK p \in [0..Len(ss) -> Seq(S)] :
        /\ FlattenSeq(ss) = p[Len(ss)] /\ p[0] = << >>
        /\ \A i \in 1..Len(ss) : p[i] = p[i - 1] \o ss[i]
  BY FlattenIs, Zenon
<1>3. PICK q \in [0..Len(tt) -> Seq(S)] :
        /\ FlattenSeq(tt) = q[Len(tt)] /\ q[0] = << >>
        /\ \A i \in 1..Len(tt) : q[i] = q[i - 1] \o tt[i]
  BY FlattenIs, Zenon
<1>4. /\ ss \o tt \in Seq(Seq(S)) /\ Len(ss \o tt) = n + m
      /\ \A i \in 1..(n + m) : (ss \o tt)[i] = IF i <= n THEN ss[i] ELSE tt[i - n]
  BY ConcatProperties, Zenon
<1> DEFINE r == [i \in 0..(n + m) |-> IF i <= n THEN p[i] ELSE p[n] \o q[i - n]]
<1>5. /\ r[0] = << >> /\ \A i \in 0..n : r[i] = p[i]
      /\ \A i \in (n + 1)..(n + m) : r[i] = p[n] \o q[i - n]
  <2>1. \A i \in 0..n : r[i] = p[i]
    BY <1>1
  <2>2. \A i \in (n + 1)..(n + m) : i \in 0..(n + m) /\ ~(i <= n)
    BY <1>1
  <2>3. \A i \in (n + 1)..(n + m) : r[i] = p[n] \o q[i - n]
    BY <2>2, Zenon
  <2>4. 0 \in 0..n
    BY <1>1
  <2>5. QED BY <1>2, <2>1, <2>3, <2>4, Zenon
<1> HIDE DEF r
<1>6. p[n] \in Seq(S) /\ p[n] \o << >> = p[n]
  <2>3. n \in 0..n
    BY <1>1
  <2>1. p[n] \in Seq(S)
    BY <2>3, <1>2
  <2>2. QED BY <2>1, ConcatEmptySeq
<1>7. \A i \in 0..m : r[n + i] = p[n] \o q[i]
  <2> SUFFICES ASSUME NEW i \in 0..m PROVE r[n + i] = p[n] \o q[i]
    OBVIOUS
  <2>1. CASE i = 0
    <3>1. n + i = n /\ n \in 0..n
      BY <2>1, <1>1
    <3>2. QED BY <3>1, <2>1, <1>3, <1>5, <1>6, Zenon
  <2>2. CASE i # 0
    <3>1. n + i \in (n + 1)..(n + m) /\ (n + i) - n = i
      BY <2>2, <1>1
    <3>2. QED BY <3>1, <1>5, Zenon
  <2>3. QED BY <2>1, <2>2
<1>8. ASSUME NEW i \in 1..Len(ss \o tt) PROVE r[i] = r[i - 1] \o (ss \o tt)[i]
  <2>1. CASE i <= n
    <3>1. i \in 1..n /\ i \in 0..n /\ i - 1 \in 0..n /\ i \in 1..(n + m)
      BY <2>1, <1>1, <1>4
    <3>2. QED BY <3>1, <2>1, <1>2, <1>4, <1>5, Zenon
  <2>2. CASE i > n
    <3> DEFINE k == i - n
    <3>1. /\ k \in 1..m /\ k \in 0..m /\ k - 1 \in 0..m /\ i \in 1..(n + m) /\ ~(i <= n)
          /\ n + k = i /\ n + (k - 1) = i - 1
      BY <2>2, <1>1, <1>4
    <3> HIDE DEF k
    <3>2. r[i] = p[n] \o q[k] /\ r[i - 1] = p[n] \o q[k - 1]
      BY <3>1, <1>7, Zenon
    <3>3. q[k] = q[k - 1] \o tt[k]
      BY <3>1, <1>3
    <3>4. q[k - 1] \in Seq(S) /\ tt[k] \in Seq(S)
      BY <3>1, <1>1, <1>3
    <3>8. (p[n] \o q[k - 1]) \o tt[k] = p[n] \o (q[k - 1] \o tt[k])
      <4>1. p[n] \in Seq(S)
        BY <1>6
      <4>2. QED BY <3>4, <4>1, <1>12, Zenon
    <3>5. p[n] \o q[k] = (p[n] \o q[k - 1]) \o tt[k]
      BY <3>3, <3>8, Zenon
    <3>6. (ss \o tt)[i] = tt[k]
      BY <3>1, <1>4, Zenon DEF k
    <3>7. QED BY <3>2, <3>5, <3>6, Zenon
  <2>3. i \in 1..(n + m)
    BY <1>4
  <2>4. i <= n \/ i > n
    BY <2>3, <1>1
  <2>5. QED BY <2>1, <2>2, <2>4
<1>9. FlattenSeq(ss \o tt) = r[Len(ss \o tt)]
  BY <1>4, <1>5, <1>8, FlattenUnique, Zenon
<1>10. m \in 0..m
  BY <1>1
<1>11. QED BY <1>2, <1>3, <1>4, <1>7, <1>9, <1>10, Zenon

\* Flattening twice: the pieces may be flattened first.
LEMMA FlattenFlatten ==
  ASSUME NEW S, NEW X \in Seq(Seq(Seq(S))), NEW Y \in Seq(Seq(S)), Len(Y) = Len(X),
         \A i \in 1..Len(X) : Y[i] = FlattenSeq(X[i])
  PROVE  FlattenSeq(FlattenSeq(X)) = FlattenSeq(Y)
<1> DEFINE n == Len(X)
<1>1. n \in Nat /\ \A i \in 1..n : X[i] \in Seq(Seq(S))
  BY LenProperties, ElementOfSeq
<1>2. PICK p \in [0..Len(X) -> Seq(Seq(S))] :
        /\ FlattenSeq(X) = p[Len(X)] /\ p[0] = << >>
        /\ \A i \in 1..Len(X) : p[i] = p[i - 1] \o X[i]
  BY FlattenIs, Zenon
<1> DEFINE r == [i \in 0..n |-> FlattenSeq(p[i])]
<1>3. \A i \in 0..n : r[i] = FlattenSeq(p[i])
  OBVIOUS
<1> HIDE DEF r
<1>4. r[0] = << >>
  <2>1. 0 \in 0..n
    BY <1>1
  <2>2. QED BY <2>1, <1>2, <1>3, FlattenNothing, Zenon
<1>5. ASSUME NEW i \in 1..Len(Y) PROVE r[i] = r[i - 1] \o Y[i]
  <2>1. i \in 1..n /\ i \in 0..n /\ i - 1 \in 0..n
    BY <1>1
  <2>2. p[i] = p[i - 1] \o X[i] /\ p[i - 1] \in Seq(Seq(S)) /\ X[i] \in Seq(Seq(S))
    BY <2>1, <1>1, <1>2
  <2>3. FlattenSeq(p[i]) = FlattenSeq(p[i - 1]) \o FlattenSeq(X[i])
    BY <2>2, FlattenConcat, Zenon
  <2>4. QED BY <2>1, <2>3, <1>3, Zenon
<1>6. FlattenSeq(Y) = r[Len(Y)]
  BY <1>4, <1>5, FlattenUnique, Zenon
<1>7. n \in 0..n
  BY <1>1
<1>8. QED BY <1>2, <1>3, <1>6, <1>7, Zenon

-----------------------------------------------------------------------------
(* Numbers                                                                 *)

\* A number is what its quotient and its remainder give.
LEMMA DivMod ==
  \A d \in Nat \ {0} : \A x \in Nat :
    x \div d \in Nat /\ x % d \in 0..(d - 1) /\ x = d * (x \div d) + (x % d)
  OBVIOUS

\* Quotient and remainder are known by that.
LEMMA ModIs ==
  \A d \in Nat \ {0} : \A q \in Int : \A r \in 0..(d - 1) :
    (d * q + r) % d = r /\ (d * q + r) \div d = q
  OBVIOUS

\* Products of natural numbers, as the solver does not know them by itself.
LEMMA Multiply ==
  \A a, b, c \in Nat : /\ a * b \in Nat /\ (a * b) * c = a * (b * c) /\ a * b = b * a
                       /\ (a <= b => a * c <= b * c)
  OBVIOUS

\* A power is a positive number, and the next one is base times as large.
LEMMA PowerStep ==
  \A base \in Nat \ {0} :
    /\ Power(base, 0) = 1
    /\ \A n \in Nat : Power(base, n) \in Nat \ {0} /\ Power(base, n + 1) = base * Power(base, n)
<1> SUFFICES ASSUME NEW base \in Nat \ {0}
             PROVE  /\ Power(base, 0) = 1
                    /\ \A n \in Nat : Power(base, n) \in Nat \ {0} /\ Power(base, n + 1) = base * Power(base, n)
  OBVIOUS
<1>1. Power(base, 0) = 1
  BY PowerIs
<1>2. ASSUME NEW n \in Nat PROVE Power(base, n + 1) = base * Power(base, n)
  <2>1. \A k \in Nat : \E p : /\ Power(base, k) = p[k] /\ p[0] = 1
                             /\ \A i \in 1..k : p[i] = base * p[i - 1]
    BY PowerIs
  <2>2. PICK p : /\ Power(base, n) = p[n] /\ p[0] = 1
                 /\ \A i \in 1..n : p[i] = base * p[i - 1]
    BY <2>1, Zenon
  <2>3. PICK q : /\ Power(base, n + 1) = q[n + 1] /\ q[0] = 1
                 /\ \A i \in 1..(n + 1) : q[i] = base * q[i - 1]
    <3>1. n + 1 \in Nat
      OBVIOUS
    <3>2. QED BY <2>1, <3>1, Zenon
  <2> DEFINE T == {i \in Nat : i <= n => p[i] = q[i]}
  <2>4. 0 \in T
    BY <2>2, <2>3
  <2>5. ASSUME NEW i \in Nat, i \in T PROVE i + 1 \in T
    <3>1. CASE i + 1 <= n
      <4>1. i + 1 \in 1..n /\ i + 1 \in 1..(n + 1) /\ i <= n /\ (i + 1) - 1 = i
        BY <3>1
      <4>2. p[i + 1] = base * p[i] /\ q[i + 1] = base * q[i] /\ p[i] = q[i]
        BY <4>1, <2>2, <2>3, <2>5
      <4>3. i + 1 \in Nat /\ p[i + 1] = q[i + 1]
        BY <4>2
      <4>4. QED BY <4>3
    <3>2. QED BY <3>1
  <2>6. n \in T
    <3> HIDE DEF T
    <3>1. QED BY <2>4, <2>5, NatInd
  <2>7. p[n] = q[n] /\ n + 1 \in 1..(n + 1) /\ (n + 1) - 1 = n
    BY <2>6
  <2>8. q[n + 1] = base * q[n]
    BY <2>3, <2>7
  <2>9. QED BY <2>2, <2>3, <2>7, <2>8
<1> DEFINE S == {n \in Nat : Power(base, n) \in Nat \ {0}}
<1>3. 0 \in S
  BY <1>1
<1>4. ASSUME NEW n \in Nat, n \in S PROVE n + 1 \in S
  BY <1>2, <1>4
<1>5. \A n \in Nat : n \in S
  <2> HIDE DEF S
  <2>1. QED BY <1>3, <1>4, NatInd
<1>6. QED BY <1>1, <1>2, <1>5

\* Powers multiply as their exponents add.
LEMMA PowerAdd ==
  \A base \in Nat \ {0} : \A m, n \in Nat : Power(base, m + n) = Power(base, m) * Power(base, n)
<1> SUFFICES ASSUME NEW base \in Nat \ {0}, NEW m \in Nat
             PROVE  \A n \in Nat : Power(base, m + n) = Power(base, m) * Power(base, n)
  OBVIOUS
<1>1. /\ Power(base, 0) = 1
      /\ \A n \in Nat : Power(base, n) \in Nat \ {0} /\ Power(base, n + 1) = base * Power(base, n)
  BY PowerStep
<1> DEFINE S == {n \in Nat : Power(base, m + n) = Power(base, m) * Power(base, n)}
<1>2. 0 \in S
  BY <1>1
<1>3. ASSUME NEW n \in Nat, n \in S PROVE n + 1 \in S
  <2>1. Power(base, m + n) = Power(base, m) * Power(base, n)
    BY <1>3
  <2>2. m + n \in Nat /\ m + (n + 1) = (m + n) + 1
    OBVIOUS
  <2>3. Power(base, m + (n + 1)) = base * Power(base, m + n)
    BY <2>2, <1>1
  <2>4. Power(base, m) \in Nat /\ Power(base, n) \in Nat /\ base \in Nat /\ Power(base, n + 1) = base * Power(base, n)
    BY <1>1
  <2>5. base * (Power(base, m) * Power(base, n)) = Power(base, m) * (base * Power(base, n))
    <3> DEFINE x == Power(base, m)
               y == Power(base, n)
    <3>1. x \in Nat /\ y \in Nat
      BY <2>4
    <3> HIDE DEF x, y
    <3>2. base * (x * y) = x * (base * y)
      BY <3>1
    <3>3. QED BY <3>2 DEF x, y
  <2>6. Power(base, m + (n + 1)) = Power(base, m) * Power(base, n + 1)
    BY <2>1, <2>3, <2>4, <2>5, Zenon
  <2>7. QED BY <2>6
<1>4. \A n \in Nat : n \in S
  <2> HIDE DEF S
  <2>1. QED BY <1>2, <1>3, NatInd
<1>5. QED BY <1>4

\* A higher power is not smaller.
LEMMA PowerMonotone ==
  \A base \in Nat \ {0} : \A m, n \in Nat : m <= n => Power(base, m) <= Power(base, n)
<1> SUFFICES ASSUME NEW base \in Nat \ {0}, NEW m \in Nat, NEW n \in Nat, m <= n
             PROVE  Power(base, m) <= Power(base, n)
  OBVIOUS
<1>1. n - m \in Nat /\ m + (n - m) = n
  OBVIOUS
<1>2. Power(base, n) = Power(base, m) * Power(base, n - m)
  BY <1>1, PowerAdd
<1>3. Power(base, m) \in Nat \ {0} /\ Power(base, n - m) \in Nat \ {0}
  BY <1>1, PowerStep
<1>4. \A x, y \in Nat \ {0} : x <= x * y
  OBVIOUS
<1>5. QED BY <1>2, <1>3, <1>4

\* A power of a power.
LEMMA PowerPower ==
  \A base \in Nat \ {0} : \A q, n \in Nat : Power(Power(base, q), n) = Power(base, q * n)
<1> SUFFICES ASSUME NEW base \in Nat \ {0}, NEW q \in Nat
             PROVE  \A n \in Nat : Power(Power(base, q), n) = Power(base, q * n)
  OBVIOUS
<1> DEFINE u == Power(base, q)
<1>1. u \in Nat \ {0}
  BY PowerStep
<1> HIDE DEF u
<1>2. Power(u, 0) = 1 /\ \A n \in Nat : Power(u, n + 1) = u * Power(u, n) /\ Power(u, n) \in Nat
  BY <1>1, PowerStep
<1> DEFINE S == {n \in Nat : Power(u, n) = Power(base, q * n)}
<1>3. 0 \in S
  <2>1. q * 0 = 0 /\ Power(base, 0) = 1
    BY PowerStep
  <2>2. QED BY <2>1, <1>2
<1>4. ASSUME NEW n \in Nat, n \in S PROVE n + 1 \in S
  <2>1. q * (n + 1) = q * n + q /\ q * n \in Nat
    OBVIOUS
  <2>2. Power(base, q * (n + 1)) = Power(base, q * n) * u
    <3>1. Power(base, q * n + q) = Power(base, q * n) * Power(base, q)
      BY <2>1, PowerAdd
    <3>2. QED BY <2>1, <3>1, Zenon DEF u
  <2>3. Power(u, n + 1) = u * Power(u, n) /\ Power(u, n) \in Nat /\ Power(u, n) = Power(base, q * n)
    BY <1>2, <1>4
  <2>4. Power(u, n + 1) = Power(base, q * (n + 1))
    <3>1. u * Power(u, n) = Power(u, n) * u
      BY <2>3, <1>1, Multiply
    <3>2. QED BY <2>2, <2>3, <3>1, Zenon
  <2>5. QED BY <2>4
<1>5. \A n \in Nat : n \in S
  <2> HIDE DEF S
  <2>1. QED BY <1>3, <1>4, NatInd
<1>6. QED BY <1>5 DEF u

-----------------------------------------------------------------------------
(* The widths                                                              *)

\* What the widths of a byte and of the words are, from WidthsOK.
LEMMA Widths ==
  ASSUME WidthsOK
  PROVE  /\ Bits \in Nat \ {0} /\ N32 \in Nat \ {0} /\ N64 \in Nat \ {0} /\ N32 < N64
         /\ Digit \in Nat /\ Digit >= 2 /\ Byte = 2 * Digit /\ Byte \in Nat \ {0}
         /\ Byte = Power(2, Bits + 1)
<1>1. Bits \in Nat \ {0} /\ N32 \in Nat \ {0} /\ N64 \in Nat \ {0} /\ N32 < N64
  BY DEF WidthsOK
<1>2. Digit = Power(2, Bits) /\ Byte = 2 * Digit
  BY DEF WidthsOK
<1>3. /\ Power(2, 0) = 1
      /\ \A n \in Nat : Power(2, n) \in Nat \ {0} /\ Power(2, n + 1) = 2 * Power(2, n)
  BY PowerStep
<1>4. Power(2, Bits) \in Nat /\ Power(2, Bits) >= 2
  <2>1. Bits - 1 \in Nat /\ (Bits - 1) + 1 = Bits
    BY <1>1
  <2>2. Power(2, Bits) = 2 * Power(2, Bits - 1) /\ Power(2, Bits - 1) \in Nat \ {0}
    BY <2>1, <1>3
  <2>3. QED BY <2>2
<1>5. QED BY <1>1, <1>2, <1>3, <1>4

\* A varint has room for all the bits of a word.
LEMMA LimitIs ==
  ASSUME WidthsOK
  PROVE  \A n \in Nat \ {0} :
           /\ VarintLimit(n) \in Nat \ {0} /\ n * (Bits + 1) <= Bits * VarintLimit(n)
           /\ \A m \in Nat \ {0} : m <= n => VarintLimit(m) <= VarintLimit(n)
<1>1. Bits \in Nat \ {0}
  BY DEF WidthsOK
<1>2. \A a \in Nat \ {0} : \A x \in Nat \ {0} :
        /\ (x + a - 1) \div a \in Nat \ {0} /\ x <= a * ((x + a - 1) \div a)
        /\ \A y \in Nat \ {0} : y <= x => (y + a - 1) \div a <= (x + a - 1) \div a
  OBVIOUS
<1>3. \A a \in Nat \ {0} : \A m, n \in Nat \ {0} :
        n * (a + 1) \in Nat \ {0} /\ (m <= n => m * (a + 1) <= n * (a + 1))
  OBVIOUS
<1>4. QED BY <1>1, <1>2, <1>3 DEF VarintLimit

\* A word has no more bits than the varint that holds it.
LEMMA WordsAre ==
  ASSUME WidthsOK
  PROVE  \A n \in Nat \ {0} :
           /\ Words(n) \in Nat \ {0} /\ Words(n) = 2 * (Words(n) \div 2)
           /\ Words(n) <= Power(Digit, VarintLimit(n))
           /\ \A m \in Nat \ {0} : m <= n => \E c \in Nat \ {0} : Words(n) = Words(m) * c
<1> SUFFICES ASSUME NEW n \in Nat \ {0}
             PROVE  /\ Words(n) \in Nat \ {0} /\ Words(n) = 2 * (Words(n) \div 2)
                    /\ Words(n) <= Power(Digit, VarintLimit(n))
                    /\ \A m \in Nat \ {0} : m <= n => \E c \in Nat \ {0} : Words(n) = Words(m) * c
  OBVIOUS
<1>1. /\ Bits \in Nat \ {0} /\ Digit \in Nat \ {0} /\ Byte = 2 * Digit /\ Byte \in Nat \ {0}
      /\ Byte = Power(2, Bits + 1) /\ Digit = Power(2, Bits)
  BY Widths DEF WidthsOK
<1>2. Words(n) \in Nat \ {0}
  BY <1>1, PowerStep DEF Words
<1>3. Words(n) = 2 * (Words(n) \div 2)
  <2>1. n - 1 \in Nat /\ (n - 1) + 1 = n
    OBVIOUS
  <2>2. Power(Byte, n) = Byte * Power(Byte, n - 1) /\ Power(Byte, n - 1) \in Nat
    BY <2>1, <1>1, PowerStep
  <2> DEFINE x == Digit * Power(Byte, n - 1)
  <2>3. x \in Nat /\ Power(Byte, n) = 2 * x
    <3>1. \A d, p \in Nat : d * p \in Nat /\ (2 * d) * p = 2 * (d * p)
      OBVIOUS
    <3>2. QED BY <3>1, <2>2, <1>1
  <2> HIDE DEF x
  <2>4. QED BY <2>3 DEF Words
<1>4. Words(n) <= Power(Digit, VarintLimit(n))
  <2>1. VarintLimit(n) \in Nat /\ n * (Bits + 1) <= Bits * VarintLimit(n)
    BY LimitIs
  <2>2. Power(Byte, n) = Power(2, (Bits + 1) * n)
    BY <1>1, PowerPower
  <2>3. Power(Digit, VarintLimit(n)) = Power(2, Bits * VarintLimit(n))
    BY <1>1, <2>1, PowerPower
  <2>4. (Bits + 1) * n \in Nat /\ Bits * VarintLimit(n) \in Nat /\ (Bits + 1) * n <= Bits * VarintLimit(n)
    BY <1>1, <2>1
  <2>5. Power(2, (Bits + 1) * n) <= Power(2, Bits * VarintLimit(n))
    BY <2>4, PowerMonotone
  <2>6. QED BY <2>2, <2>3, <2>5 DEF Words
<1>5. ASSUME NEW m \in Nat \ {0}, m <= n PROVE \E c \in Nat \ {0} : Words(n) = Words(m) * c
  <2>1. n - m \in Nat /\ m + (n - m) = n
    BY <1>5
  <2>2. Power(Byte, n) = Power(Byte, m) * Power(Byte, n - m)
    <3>1. Byte \in Nat \ {0}
      BY <1>1
    <3>2. Power(Byte, m + (n - m)) = Power(Byte, m) * Power(Byte, n - m)
      BY <3>1, <2>1, PowerAdd
    <3>3. QED BY <3>2, <2>1
  <2>3. Power(Byte, n - m) \in Nat \ {0}
    BY <2>1, <1>1, PowerStep
  <2>4. QED BY <2>2, <2>3 DEF Words
<1>6. QED BY <1>2, <1>3, <1>4, <1>5

-----------------------------------------------------------------------------
(* Digits and streams                                                      *)

\* Min() of numbers is one of them and not above any.
LEMMA MinIs == \A T \in SUBSET Nat : T # {} => Min(T) \in T /\ \A y \in T : Min(T) <= y
<1> SUFFICES ASSUME NEW T \in SUBSET Nat, T # {} PROVE Min(T) \in T /\ \A y \in T : Min(T) <= y
  OBVIOUS
<1>1. \E x \in T : \A y \in T : x <= y
  BY NatMin
<1>2. QED BY <1>1, Zenon DEF Min

\* The values that the shifts leave.
ShiftRun(w, base, v, n) ==
  /\ w[0] = v
  /\ \A i \in 1..n : w[i] = w[i - 1] \div base
  /\ \A i \in 0..n : w[i] \in Nat /\ (v < Power(base, i) => w[i] = 0)

\* pb_encode_varint() and pb_encode_fixed32(): a shift makes the value smaller, and after
\* n of them nothing is left of one with n digits.
LEMMA ShiftsAre ==
  ASSUME NEW base \in Nat \ {0}, NEW v \in Nat, NEW n \in Nat
  PROVE  ShiftRun(Shifted(base, v, n), base, v, n)
<1> DEFINE w == Shifted(base, v, n)
<1>1. w[0] = v /\ \A i \in 1..n : w[i] = w[i - 1] \div base
  <2>1. PICK p : /\ Shifted(base, v, n) = p /\ p[0] = v
                 /\ \A i \in 1..n : p[i] = p[i - 1] \div base
    BY ShiftedIs
  <2>2. w = p
    BY <2>1
  <2>3. QED BY <2>1, <2>2, Zenon
<1> HIDE DEF w
<1>2. /\ Power(base, 0) = 1
      /\ \A i \in Nat : Power(base, i) \in Nat \ {0} /\ Power(base, i + 1) = base * Power(base, i)
  BY PowerStep
<1> DEFINE T == {i \in Nat : i <= n => w[i] \in Nat /\ w[i] * Power(base, i) <= v}
<1>3. 0 \in T
  BY <1>1, <1>2
<1>4. ASSUME NEW i \in Nat, i \in T PROVE i + 1 \in T
  <2>1. CASE i + 1 <= n
    <3>1. i + 1 \in 1..n /\ i <= n /\ (i + 1) - 1 = i
      BY <2>1
    <3>2. w[i] \in Nat /\ w[i] * Power(base, i) <= v /\ w[i + 1] = w[i] \div base
      BY <3>1, <1>1, <1>4
    <3>3. w[i + 1] \in Nat /\ base * w[i + 1] <= w[i]
      <4>1. \A x \in Nat : x \div base \in Nat /\ base * (x \div base) <= x
        BY DivMod
      <4>2. QED BY <3>2, <4>1
    <3>4. \A x, y, p \in Nat : base * y <= x => y * (base * p) <= x * p
      OBVIOUS
    <3>5. w[i + 1] * (base * Power(base, i)) <= w[i] * Power(base, i)
      BY <3>2, <3>3, <3>4, <1>2
    <3>6. w[i + 1] * (base * Power(base, i)) \in Int /\ w[i] * Power(base, i) \in Int
      BY <3>2, <3>3, <1>2
    <3>7. w[i + 1] * (base * Power(base, i)) <= v
      BY <3>2, <3>5, <3>6
    <3>8. w[i + 1] * Power(base, i + 1) <= v
      BY <3>7, <1>2, Zenon
    <3>9. QED BY <3>3, <3>8
  <2>2. QED BY <2>1
<1>5. \A i \in Nat : i \in T
  <2> HIDE DEF T
  <2>1. QED BY <1>3, <1>4, NatInd
<1>6. \A i \in 0..n : w[i] \in Nat /\ (v < Power(base, i) => w[i] = 0)
  <2> SUFFICES ASSUME NEW i \in 0..n PROVE w[i] \in Nat /\ (v < Power(base, i) => w[i] = 0)
    OBVIOUS
  <2>1. w[i] \in Nat /\ w[i] * Power(base, i) <= v
    BY <1>5
  <2>2. Power(base, i) \in Nat \ {0}
    BY <1>2
  <2>3. \A x, y \in Nat : x * y <= v /\ v < y => x = 0
    OBVIOUS
  <2>4. QED BY <2>1, <2>2, <2>3
<1>7. QED BY <1>1, <1>6, Zenon DEF ShiftRun, w

\* The number of the digits that the shifts leave, lowest first.
LEMMA NumberOfShifts ==
  ASSUME NEW base \in Nat \ {0}, NEW digits, Len(digits) \in Nat
  PROVE  \A w : /\ w[Len(digits)] = 0
                /\ \A i \in 0..Len(digits) : w[i] \in Nat
                /\ \A i \in 1..Len(digits) : w[i] = w[i - 1] \div base /\ digits[i] = w[i - 1] % base
                => Number(base, digits) = w[0]
<1>7. \A x \in Nat : /\ x = base * (x \div base) + (x % base)
                      /\ x \div base \in Nat /\ x % base \in Nat
  OBVIOUS
<1>8. PICK p : NumberRun(p, base, digits) /\ Number(base, digits) = p[Len(digits)]
  BY NumberIs
<1> DEFINE n == Len(digits)
<1> SUFFICES ASSUME NEW w, w[n] = 0, \A i \in 0..n : w[i] \in Nat,
                    \A i \in 1..n : w[i] = w[i - 1] \div base /\ digits[i] = w[i - 1] % base
             PROVE  Number(base, digits) = w[0]
  OBVIOUS
<1>9. n \in Nat
  OBVIOUS
<1>1. /\ Number(base, digits) = p[n] /\ p[0] = 0
      /\ \A i \in 1..n : p[i] = digits[n - i + 1] + base * p[i - 1]
  BY <1>8, Zenon DEF NumberRun
<1>10. /\ w[n] = 0 /\ \A i \in 0..n : w[i] \in Nat
       /\ \A i \in 1..n : w[i] = w[i - 1] \div base /\ digits[i] = w[i - 1] % base
  OBVIOUS
<1> HIDE DEF n
<1> DEFINE T == {i \in Nat : i <= n => p[i] = w[n - i]}
<1>2. 0 \in T
  BY <1>1, <1>9, <1>10
<1>3. ASSUME NEW i \in Nat, i \in T PROVE i + 1 \in T
  <2>1. CASE i + 1 <= n
    <3> DEFINE j == n - i
    <3>1. /\ i + 1 \in 1..n /\ i <= n /\ (i + 1) - 1 = i
          /\ j \in 1..n /\ j - 1 \in 0..n /\ n - (i + 1) + 1 = j /\ n - (i + 1) = j - 1
      BY <2>1, <1>9
    <3> HIDE DEF j
    <3>2. p[i + 1] = digits[j] + base * p[i]
      BY <3>1, <1>1
    <3>3. p[i] = w[j]
      BY <3>1, <1>3 DEF j
    <3>4. digits[j] = w[j - 1] % base /\ w[j] = w[j - 1] \div base /\ w[j - 1] \in Nat
      BY <3>1, <1>10
    <3>5. w[j - 1] = base * (w[j - 1] \div base) + (w[j - 1] % base) /\ w[j - 1] \div base \in Nat
          /\ w[j - 1] % base \in Nat
      BY <3>4, <1>7, Zenon
    <3>6. \A x, y, z \in Nat : x = base * y + z => z + base * y = x
      OBVIOUS
    <3>7. (w[j - 1] % base) + base * (w[j - 1] \div base) = w[j - 1]
      BY <3>4, <3>5, <3>6
    <3>8. p[i + 1] = w[j - 1]
      BY <3>2, <3>3, <3>4, <3>7, Zenon
    <3>9. i + 1 \in Nat /\ p[i + 1] = w[n - (i + 1)]
      BY <3>1, <3>8
    <3>10. QED BY <3>9
  <2>2. QED BY <2>1, <1>9
<1>4. n \in T
  <2> HIDE DEF T
  <2>1. QED BY <1>2, <1>3, <1>9, NatInd
<1>5. n - n = 0
  BY <1>9
<1>6. QED BY <1>1, <1>4, <1>5, <1>9

-----------------------------------------------------------------------------
(* What the stream s of the buffer b holds                                 *)

\* The streams, and those that hold x next.
Stream == [pos : Nat, left : Nat]
Holds(b, s, x) == Len(x) <= s.left /\ \A i \in 1..Len(x) : b[s.pos + i] = x[i]

\* Where a stream is after some bytes were read from it.
LEMMA SkipIs ==
  \A s \in Stream : \A n \in 0..s.left :
    /\ Skip(s, n) \in Stream /\ Skip(s, n).pos = s.pos + n /\ Skip(s, n).left = s.left - n
    /\ \A m \in Nat : Skip(Skip(s, n), m) = Skip(s, n + m)
  BY DEF Stream, Skip

\* A stream that holds x and then y holds y behind x.
LEMMA HoldsConcat ==
  ASSUME NEW S, NEW x \in Seq(S), NEW y \in Seq(S), NEW b, NEW s \in Stream, Holds(b, s, x \o y)
  PROVE  /\ Holds(b, s, x) /\ Holds(b, Skip(s, Len(x)), y)
         /\ Len(x) \in Nat /\ Len(y) \in Nat /\ Len(x) <= s.left
         /\ Len(x \o y) = Len(x) + Len(y)
<1> DEFINE c == x \o y
           n == Len(x)
           m == Len(y)
<1>1. /\ Len(c) = n + m
      /\ \A i \in 1..(n + m) : c[i] = IF i <= n THEN x[i] ELSE y[i - n]
  BY ConcatProperties, Zenon
<1>2. n \in Nat /\ m \in Nat
  BY LenProperties
<1>3. s.pos \in Nat /\ s.left \in Nat
  BY DEF Stream
<1>4. Len(c) <= s.left /\ \A i \in 1..Len(c) : b[s.pos + i] = c[i]
  BY Zenon DEF Holds
<1> HIDE DEF c, n, m
<1>5. n <= s.left /\ \A i \in 1..n : b[s.pos + i] = x[i]
  BY <1>1, <1>2, <1>3, <1>4
<1>6. m <= s.left - n /\ \A i \in 1..m : b[(s.pos + n) + i] = y[i]
  <2>1. m <= s.left - n
    BY <1>1, <1>2, <1>3, <1>4
  <2>2. ASSUME NEW i \in 1..m PROVE b[(s.pos + n) + i] = y[i]
    <3>1. n + i \in 1..(n + m) /\ ~(n + i <= n) /\ (n + i) - n = i /\ s.pos + (n + i) = (s.pos + n) + i
      BY <1>2, <1>3
    <3>2. b[s.pos + (n + i)] = c[n + i] /\ c[n + i] = y[(n + i) - n]
      BY <3>1, <1>1, <1>4, Zenon
    <3>3. QED BY <3>1, <3>2, Zenon
  <2>3. QED BY <2>1, <2>2
<1>7. Holds(b, s, x)
  BY <1>5 DEF Holds, n
<1>8. Skip(s, n).pos = s.pos + n /\ Skip(s, n).left = s.left - n
  BY DEF Skip
<1>9. Holds(b, Skip(s, n), y)
  BY <1>6, <1>8 DEF Holds, m
<1>10. QED BY <1>1, <1>2, <1>5, <1>7, <1>9 DEF c, n, m

-----------------------------------------------------------------------------
(* Varints                                                                 *)

\* A byte of a varint: its top bit, and its digit.
LEMMA ByteIs == \A d \in Nat : \A x \in 0..(d - 1) : d >= 2 =>
  /\ x \in Nat /\ x % d = x /\ x < d /\ x \in 0..(2 * d - 1)
  /\ (x + d) % d = x /\ ~(x + d < d) /\ x + d \in 0..(2 * d - 1)
  OBVIOUS

\* A varint of a word: the bytes after the first ones say that another one follows.
VarintRun(x, v, k, w) ==
  /\ w[0] = v /\ w[k] = 0 /\ \A i \in 0..k : w[i] \in Nat
  /\ \A i \in 1..k : w[i] = w[i - 1] \div Digit
  /\ x \in Seq(Bytes) /\ Len(x) = k
  /\ \A i \in 1..k : x[i] % Digit = w[i - 1] % Digit
  /\ x[k] < Digit /\ \A i \in 1..(k - 1) : ~(x[i] < Digit)

\* pb_encode_varint(): the bytes of a number, of which the last one only has no top bit,
\* no more of them than the limit the decoder knows.
LEMMA VarintIs ==
  ASSUME WidthsOK, NEW n \in {N32, N64}, NEW v \in Nat, v < Words(n)
  PROVE  \E k \in 1..VarintLimit(n) : \E w : VarintRun(Varint(v), v, k, w)
<1> DEFINE l == VarintLimit(N64)
           w == Shifted(Digit, v, l)
           T == {k \in 1..l : w[k] = 0}
           k == Min(T)
           x == Varint(v)
<1>1. /\ N64 \in Nat \ {0} /\ n \in Nat \ {0} /\ n <= N64
      /\ Digit \in Nat \ {0} /\ Digit >= 2 /\ Byte = 2 * Digit
  BY Widths
<1>2. l \in Nat \ {0} /\ VarintLimit(n) \in Nat \ {0} /\ VarintLimit(n) <= l
  BY <1>1, LimitIs
<1>3. v < Power(Digit, VarintLimit(n))
  <2>1. Words(n) <= Power(Digit, VarintLimit(n)) /\ Words(n) \in Nat
    BY <1>1, WordsAre
  <2>2. Power(Digit, VarintLimit(n)) \in Nat
    BY <1>1, <1>2, PowerStep
  <2>3. QED BY <2>1, <2>2
<1>4. x = [i \in 1..k |-> (w[i - 1] % Digit) + (IF i < k THEN Digit ELSE 0)]
  BY DEF Varint
<1> HIDE DEF x, l
<1>5. /\ w[0] = v /\ \A i \in 1..l : w[i] = w[i - 1] \div Digit
      /\ \A i \in 0..l : w[i] \in Nat /\ (v < Power(Digit, i) => w[i] = 0)
  <2>1. l \in Nat /\ Digit \in Nat \ {0}
    BY <1>1, <1>2
  <2>2. ShiftRun(w, Digit, v, l)
    BY <2>1, ShiftsAre
  <2> HIDE DEF w
  <2>3. QED BY <2>2, Zenon DEF ShiftRun
<1> HIDE DEF w
<1>6. VarintLimit(n) \in T
  <2>1. VarintLimit(n) \in 0..l /\ VarintLimit(n) \in 1..l
    BY <1>2
  <2>2. QED BY <2>1, <1>3, <1>5
<1>7. k \in T /\ k <= VarintLimit(n) /\ \A i \in T : k <= i
  <2>1. T \in SUBSET Nat /\ T # {}
    BY <1>2, <1>6
  <2> HIDE DEF T
  <2>2. QED BY <2>1, <1>6, MinIs, Zenon
<1> HIDE DEF k
<1>8. k \in 1..l /\ k \in 1..VarintLimit(n) /\ w[k] = 0 /\ k \in Nat
  BY <1>2, <1>7
<1>9. /\ \A i \in 0..k : w[i] \in Nat
      /\ \A i \in 1..k : w[i] = w[i - 1] \div Digit /\ w[i - 1] \in Nat
  <2>1. \A i \in 0..k : i \in 0..l
    BY <1>8, <1>2
  <2>2. \A i \in 1..k : i \in 1..l /\ i - 1 \in 0..l
    BY <1>8, <1>2
  <2>3. QED BY <2>1, <2>2, <1>5, Zenon
<1>10. ASSUME NEW i \in 1..k
       PROVE  /\ x[i] \in Bytes /\ x[i] % Digit = w[i - 1] % Digit
              /\ i = k => x[i] < Digit
              /\ i < k => ~(x[i] < Digit)
  <2> DEFINE y == w[i - 1] % Digit
  <2>1. y \in 0..(Digit - 1)
    BY <1>1, <1>9, DivMod
  <2>2. x[i] = IF i < k THEN y + Digit ELSE y + 0
    BY <1>4, <1>8
  <2> HIDE DEF y
  <2>3. /\ y \in Nat /\ y % Digit = y /\ y < Digit /\ y \in Bytes
        /\ (y + Digit) % Digit = y /\ ~(y + Digit < Digit) /\ y + Digit \in Bytes
    BY <2>1, <1>1, ByteIs DEF Bytes
  <2>4. y + 0 = y
    BY <2>3
  <2>5. x[i] \in Bytes /\ x[i] % Digit = y
    BY <2>2, <2>3, <2>4
  <2>6. (i = k => x[i] < Digit) /\ (i < k => ~(x[i] < Digit))
    BY <2>2, <2>3, <2>4, <1>8
  <2>7. QED BY <2>5, <2>6 DEF y
<1>11. x \in Seq(Bytes) /\ Len(x) = k
  <2>1. x \in [1..k -> Bytes]
    BY <1>4, <1>10
  <2>2. QED BY <2>1, <1>8
<1>12. x[k] < Digit /\ \A i \in 1..(k - 1) : ~(x[i] < Digit)
  BY <1>8, <1>10
<1>13. VarintRun(x, v, k, w)
  BY <1>5, <1>8, <1>9, <1>10, <1>11, <1>12, Zenon DEF VarintRun
<1>14. QED BY <1>8, <1>13, Zenon DEF x

\* pb_decode_varint() stops at the first byte without the top bit.
LEMMA LastByteIs ==
  ASSUME NEW b, NEW s, NEW limit \in Nat, NEW k \in 1..limit, b[s.pos + k] < Digit,
         \A i \in 1..(k - 1) : ~(b[s.pos + i] < Digit)
  PROVE  ToLastByte(b, s, limit) = Got(TRUE, k, Skip(s, k))
<1> DEFINE T == {i \in 1..limit : b[s.pos + i] < Digit}
<1>1. T \in SUBSET Nat /\ T # {} /\ k \in T
  OBVIOUS
<1>2. Min(T) \in T /\ \A i \in T : Min(T) <= i
  <2> HIDE DEF T
  <2>1. QED BY <1>1, MinIs, Zenon
<1>3. Min(T) = k
  <2> DEFINE j == Min(T)
  <2>1. j \in 1..limit /\ b[s.pos + j] < Digit /\ j <= k
    BY <1>1, <1>2
  <2> HIDE DEF j
  <2>2. j = k
    BY <2>1
  <2>3. QED BY <2>2 DEF j
<1>4. QED BY <1>1, <1>3 DEF ToLastByte

\* Decoding a varint gives the number back, with the rest of the stream.
LEMMA VarintBack ==
  ASSUME WidthsOK, NEW n \in {N32, N64}, NEW v \in Nat, v < Words(n),
         NEW b, NEW s \in Stream, Holds(b, s, Varint(v))
  PROVE  /\ ReadVarint(b, s, n) = Got(TRUE, v, Skip(s, Len(Varint(v))))
         /\ ToLastByte(b, s, s.left) = Got(TRUE, Len(Varint(v)), Skip(s, Len(Varint(v))))
         /\ Len(Varint(v)) \in 1..s.left
<1> DEFINE x == Varint(v)
           limit == Min({s.left, VarintLimit(n)})
<1>14. PICK k \in 1..VarintLimit(n) : \E w : VarintRun(Varint(v), v, k, w)
  BY VarintIs
<1>15. PICK w : VarintRun(Varint(v), v, k, w)
  BY <1>14
<1>1. /\ w[0] = v /\ w[k] = 0 /\ \A i \in 0..k : w[i] \in Nat
      /\ \A i \in 1..k : w[i] = w[i - 1] \div Digit
      /\ Varint(v) \in Seq(Bytes) /\ Len(Varint(v)) = k
      /\ \A i \in 1..k : Varint(v)[i] % Digit = w[i - 1] % Digit
      /\ Varint(v)[k] < Digit /\ \A i \in 1..(k - 1) : ~(Varint(v)[i] < Digit)
  BY <1>15, Zenon DEF VarintRun
<1>2. VarintLimit(n) \in Nat \ {0} /\ Digit \in Nat \ {0}
  <2>1. N32 \in Nat \ {0} /\ N64 \in Nat \ {0} /\ Digit \in Nat \ {0}
    BY Widths
  <2>2. QED BY <2>1, LimitIs
<1>3. s.left \in Nat /\ s.pos \in Nat /\ k \in Nat /\ Len(x) = k
  BY <1>1, <1>2 DEF Stream
<1>4. k <= s.left /\ \A i \in 1..k : b[s.pos + i] = x[i]
  BY <1>1, Zenon DEF Holds
<1>5. limit \in {s.left, VarintLimit(n)}
  <2>1. {s.left, VarintLimit(n)} \in SUBSET Nat /\ {s.left, VarintLimit(n)} # {}
    BY <1>2, <1>3
  <2>2. QED BY <2>1, MinIs, Zenon
<1>6. limit \in Nat /\ k \in 1..limit /\ k \in 1..s.left /\ k \in 1..k
  BY <1>2, <1>3, <1>4, <1>5, <1>1
<1> HIDE DEF limit
<1>7. b[s.pos + k] < Digit /\ \A i \in 1..(k - 1) : ~(b[s.pos + i] < Digit)
  <2>1. \A i \in 1..(k - 1) : i \in 1..k
    BY <1>3
  <2>2. QED BY <2>1, <1>1, <1>4, <1>6, Zenon
<1>8. ToLastByte(b, s, limit) = Got(TRUE, k, Skip(s, k))
  BY <1>6, <1>7, LastByteIs
<1>9. ToLastByte(b, s, s.left) = Got(TRUE, k, Skip(s, k))
  BY <1>3, <1>6, <1>7, LastByteIs
<1> DEFINE digits == [i \in 1..k |-> b[s.pos + i] % Digit]
<1>10. Number(Digit, digits) = v
  <2>1. Len(digits) = k
    BY <1>3
  <2>2. \A i \in 1..k : digits[i] = w[i - 1] % Digit
    BY <1>1, <1>4
  <2> HIDE DEF digits
  <2>3. Number(Digit, digits) = w[0]
    <3>1. Len(digits) \in Nat /\ w[Len(digits)] = 0 /\ \A i \in 0..Len(digits) : w[i] \in Nat
      BY <2>1, <1>1, <1>3
    <3>2. \A i \in 1..Len(digits) : w[i] = w[i - 1] \div Digit /\ digits[i] = w[i - 1] % Digit
      BY <2>1, <2>2, <1>1, Zenon
    <3>3. Digit \in Nat \ {0}
      BY <1>2
    <3>4. QED BY <3>1, <3>2, <3>3, NumberOfShifts, Zenon
  <2>4. QED BY <2>3, <1>1
<1>11. v % Words(n) = v
  <2>1. Words(n) \in Nat \ {0}
    BY Widths, WordsAre
  <2>2. \A d \in Nat \ {0} : \A y \in Nat : y < d => y % d = y
    OBVIOUS
  <2>3. QED BY <2>1, <2>2
<1>12. ReadVarint(b, s, n) = Got(TRUE, v, Skip(s, k))
  <2> DEFINE r == Got(TRUE, k, Skip(s, k))
  <2>1. r.ok /\ r.val = k /\ r.s = Skip(s, k)
    BY DEF Got
  <2> HIDE DEF r
  <2>2. QED BY <2>1, <1>8, <1>10, <1>11, Zenon DEF ReadVarint, Then, limit, r
<1>13. QED BY <1>1, <1>6, <1>9, <1>12, Zenon

-----------------------------------------------------------------------------
(* Fixed numbers and signed ones                                           *)

\* pb_encode_fixed32() and pb_encode_fixed64(): so many bytes, which have the number.
LEMMA FixedIs ==
  ASSUME WidthsOK, NEW n \in {N32, N64}, NEW v \in Nat, v < Words(n)
  PROVE  Fixed(n, v) \in Seq(Bytes) /\ Len(Fixed(n, v)) = n /\ Number(Byte, Fixed(n, v)) = v
<1> DEFINE w == Shifted(Byte, v, n)
           x == Fixed(n, v)
<1>1. n \in Nat /\ n # 0 /\ Byte \in Nat \ {0}
  BY Widths
<1>2. ShiftRun(w, Byte, v, n)
  BY <1>1, ShiftsAre
<1>3. x = [i \in 1..n |-> w[i - 1] % Byte]
  BY DEF Fixed
<1> HIDE DEF w, x
<1>4. /\ w[0] = v /\ \A i \in 1..n : w[i] = w[i - 1] \div Byte
      /\ \A i \in 0..n : w[i] \in Nat /\ (v < Power(Byte, i) => w[i] = 0)
  BY <1>2, Zenon DEF ShiftRun
<1>5. w[n] = 0
  BY <1>1, <1>4 DEF Words
<1>6. \A i \in 1..n : x[i] = w[i - 1] % Byte /\ x[i] \in Bytes
  <2> SUFFICES ASSUME NEW i \in 1..n PROVE x[i] = w[i - 1] % Byte /\ x[i] \in Bytes
    OBVIOUS
  <2>1. i - 1 \in 0..n
    BY <1>1
  <2>2. w[i - 1] \in Nat
    BY <2>1, <1>4
  <2>3. w[i - 1] % Byte \in 0..(Byte - 1)
    BY <2>2, <1>1, DivMod
  <2>4. QED BY <2>3, <1>3 DEF Bytes
<1>7. x \in Seq(Bytes) /\ Len(x) = n
  <2>1. x \in [1..n -> Bytes]
    BY <1>3, <1>6
  <2>2. QED BY <2>1, <1>1
<1>8. Number(Byte, x) = v
  <2>1. Len(x) \in Nat /\ w[Len(x)] = 0 /\ \A i \in 0..Len(x) : w[i] \in Nat
    BY <1>1, <1>4, <1>5, <1>7
  <2>2. \A i \in 1..Len(x) : w[i] = w[i - 1] \div Byte /\ x[i] = w[i - 1] % Byte
    BY <1>4, <1>6, <1>7, Zenon
  <2>3. Number(Byte, x) = w[0]
    BY <2>1, <2>2, <1>1, NumberOfShifts, Zenon
  <2>4. QED BY <2>3, <1>4
<1>9. QED BY <1>7, <1>8 DEF x

\* pb_read() gives the bytes that the stream holds.
LEMMA BytesRead ==
  ASSUME NEW S, NEW x \in Seq(S), NEW b, NEW s \in Stream, Holds(b, s, x)
  PROVE  ReadBytes(b, s, Len(x)) = Got(TRUE, x, Skip(s, Len(x)))
<1> DEFINE n == Len(x)
           y == SubSeq(b, s.pos + 1, s.pos + n)
<1>1. n \in Nat /\ s.pos \in Nat /\ s.left \in Nat /\ \A i \in 1..n : x[i] \in S
  BY LenProperties, ElementOfSeq DEF Stream
<1>2. n <= s.left /\ \A i \in 1..n : b[s.pos + i] = x[i]
  BY Zenon DEF Holds
<1>3. y = x
  <2>1. \A i \in (s.pos + 1)..(s.pos + n) : b[i] \in S
    <3> SUFFICES ASSUME NEW i \in (s.pos + 1)..(s.pos + n) PROVE b[i] \in S
      OBVIOUS
    <3>1. i - s.pos \in 1..n /\ s.pos + (i - s.pos) = i
      BY <1>1
    <3>2. QED BY <3>1, <1>1, <1>2
  <2>2. s.pos + 1 \in Int /\ s.pos + n \in Int
    BY <1>1
  <2>3. /\ y \in Seq(S) /\ Len(y) = IF s.pos + 1 <= s.pos + n THEN (s.pos + n) - (s.pos + 1) + 1 ELSE 0
        /\ \A i \in 1..((s.pos + n) - (s.pos + 1) + 1) : y[i] = b[(s.pos + 1) + i - 1]
    <3> DEFINE c == s.pos + 1
               d == s.pos + n
    <3>1. c \in Int /\ d \in Int /\ \A i \in c..d : b[i] \in S
      BY <2>1, <2>2
    <3> HIDE DEF c, d
    <3>2. /\ SubSeq(b, c, d) \in Seq(S) /\ Len(SubSeq(b, c, d)) = IF c <= d THEN d - c + 1 ELSE 0
          /\ \A i \in 1..(d - c + 1) : SubSeq(b, c, d)[i] = b[c + i - 1]
      BY <3>1, SubSeqProperties
    <3>3. QED BY <3>2, Zenon DEF c, d
  <2> HIDE DEF y
  <2>4. Len(y) = n
    BY <2>3, <1>1
  <2>5. \A i \in 1..n : y[i] = x[i]
    <3> SUFFICES ASSUME NEW i \in 1..n PROVE y[i] = x[i]
      OBVIOUS
    <3>1. i \in 1..((s.pos + n) - (s.pos + 1) + 1) /\ (s.pos + 1) + i - 1 = s.pos + i
      BY <1>1
    <3>2. QED BY <3>1, <2>3, <1>2, Zenon
  <2>6. \A i \in 1..Len(y) : y[i] = x[i]
    BY <2>4, <2>5
  <2>7. QED BY <2>3, <2>4, <2>6, SeqEqual, Zenon
<1>4. ~(s.left < n)
  BY <1>1, <1>2
<1>5. QED BY <1>3, <1>4, Zenon DEF ReadBytes

\* pb_encode_svarint() and pb_decode_svarint(): the sign comes back from the lowest bit,
\* and the bits of the type suffice.
LEMMA ZigzagBack ==
  \A v \in Int : /\ Zigzag(v) \in Nat /\ Unzigzag(Zigzag(v)) = v
                 /\ \A h \in Nat : v \in (-h)..(h - 1) => Zigzag(v) < 2 * h
  BY DEF Zigzag, Unzigzag

\* The low part of a low part.
LEMMA ModMod == \A w, c \in Nat \ {0} : \A v \in Int : (v % (w * c)) % w = v % w
<1> SUFFICES ASSUME NEW w \in Nat \ {0}, NEW c \in Nat \ {0}, NEW v \in Int
             PROVE  (v % (w * c)) % w = v % w
  OBVIOUS
<1> DEFINE q == v \div (w * c)
           r == v % (w * c)
           p == r \div w
           t == r % w
<1>1. w * c \in Nat \ {0}
  OBVIOUS
<1>2. q \in Int /\ r \in Nat /\ v = (w * c) * q + r
  BY <1>1
<1> HIDE DEF q, r
<1>3. p \in Int /\ t \in 0..(w - 1) /\ r = w * p + t
  BY <1>2
<1> HIDE DEF p, t
<1>4. v = w * (c * q + p) + t /\ c * q + p \in Int
  BY <1>2, <1>3
<1>5. v % w = t
  BY <1>3, <1>4, ModIs
<1>6. QED BY <1>5 DEF t, r

\* A signed type has as many values below zero as from zero, and its word fits into the
\* long one.
LEMMA RangesAre ==
  ASSUME WidthsOK, NEW n \in {N32, N64}
  PROVE  /\ Words(n) \in Nat \ {0} /\ Words(n) \div 2 \in Nat /\ Words(n) = 2 * (Words(n) \div 2)
         /\ Ranges(n) \subseteq Int /\ Words(n) <= Words(N64)
         /\ \E c \in Nat \ {0} : Words(N64) = Words(n) * c
<1>1. n \in Nat \ {0} /\ N64 \in Nat \ {0} /\ n <= N64
  BY Widths
<1>2. /\ Words(n) \in Nat \ {0} /\ Words(n) = 2 * (Words(n) \div 2)
      /\ \E c \in Nat \ {0} : Words(N64) = Words(n) * c
  BY <1>1, WordsAre
<1>3. Words(n) \div 2 \in Nat
  BY <1>2
<1>4. Ranges(n) \subseteq Int
  BY <1>3 DEF Ranges
<1>5. Words(n) <= Words(N64)
  <2>1. PICK c \in Nat \ {0} : Words(N64) = Words(n) * c
    BY <1>2
  <2>2. \A x, y \in Nat \ {0} : x <= x * y
    OBVIOUS
  <2>3. QED BY <2>1, <2>2, <1>2
<1>6. QED BY <1>2, <1>3, <1>4, <1>5

\* A number of a type is the one that its bits stand for, also when there are
\* more of them.
LEMMA SignedBack ==
  ASSUME WidthsOK, NEW n \in {N32, N64}, NEW v \in Ranges(n)
  PROVE  /\ v \in Int /\ Signed(n, v) = v /\ Signed(n, v % Words(N64)) = v
         /\ v % Words(N64) \in Nat /\ v % Words(N64) < Words(N64)
<1>1. /\ Words(n) \in Nat \ {0} /\ Words(n) \div 2 \in Nat /\ Words(n) = 2 * (Words(n) \div 2)
      /\ \E c \in Nat \ {0} : Words(N64) = Words(n) * c
  BY RangesAre
<1>2. v \in Int
  BY RangesAre
<1>3. Signed(n, v) = v
  <2> DEFINE h == Words(n) \div 2
             u == Words(n)
  <2>1. h \in Nat /\ u = 2 * h /\ u \in Nat \ {0} /\ v \in (-h)..(h - 1)
    BY <1>1 DEF Ranges
  <2>2. Signed(n, v) = IF v % u < h THEN v % u ELSE (v % u) - u
    BY DEF Signed
  <2> HIDE DEF h, u
  <2>3. CASE v >= 0
    <3>1. v % u = v
      BY <2>1, <2>3
    <3>2. QED BY <2>1, <2>2, <3>1
  <2>4. CASE v < 0
    <3>1. v + u \in 0..(u - 1) /\ v = u * (-1) + (v + u)
      BY <2>1, <2>4, <1>2
    <3>2. (u * (-1) + (v + u)) % u = v + u
      BY <2>1, <3>1, ModIs
    <3>3. v % u = v + u
      BY <3>1, <3>2
    <3>4. QED BY <2>1, <2>2, <2>4, <3>3, <1>2
  <2>5. QED BY <2>3, <2>4, <1>2
<1>4. (v % Words(N64)) % Words(n) = v % Words(n)
  <2>1. PICK c \in Nat \ {0} : Words(N64) = Words(n) * c
    BY <1>1
  <2>2. QED BY <2>1, <1>1, <1>2, ModMod
<1>5. Signed(n, v % Words(N64)) = Signed(n, v)
  BY <1>4, Zenon DEF Signed
<1>6. v % Words(N64) \in Nat /\ v % Words(N64) < Words(N64)
  <2>1. Words(N64) \in Nat \ {0}
    BY RangesAre
  <2>2. QED BY <2>1, <1>2
<1>7. QED BY <1>2, <1>3, <1>5, <1>6

-----------------------------------------------------------------------------
(* The values of a field                                                   *)

\* The bytes x are read back as the value v of the field f, or skipped.
ReadsBack(f, x, v) ==
  /\ x \in Seq(Bytes) /\ Len(x) >= 1
  /\ \A b, before : \A s \in Stream :
       /\ Holds(b, s, x) /\ s.left < Words(N32)
       /\ f.ltype = "submessage" => Earlier(f, before) = Defaults(f.sub)
       => /\ ReadValue(b, s, f, before) = Got(TRUE, v, Skip(s, Len(x)))
          /\ SkipField(b, s, WireType(f)).ok /\ SkipField(b, s, WireType(f)).s = Skip(s, Len(x))

\* A varint is a sequence of bytes, and not of none.
LEMMA VarintBytes ==
  ASSUME WidthsOK, NEW n \in {N32, N64}, NEW v \in Nat, v < Words(n)
  PROVE  Varint(v) \in Seq(Bytes) /\ Len(Varint(v)) \in Nat \ {0}
<1>4. PICK k \in 1..VarintLimit(n) : \E w : VarintRun(Varint(v), v, k, w)
  BY VarintIs
<1>1. Varint(v) \in Seq(Bytes) /\ Len(Varint(v)) = k
  BY <1>4, Zenon DEF VarintRun
<1>2. VarintLimit(n) \in Nat
  BY Widths, LimitIs
<1>3. QED BY <1>1, <1>2

\* The types that are written as varints: the number that is written, and what is
\* made of it.
WrittenAs(f, v, u) ==
  /\ u \in Nat /\ u < Words(N64) /\ EncodeValue(f, v) = <<Varint(u)>>
  /\ \A b, s, t : ReadVarint(b, s, N64) = Got(TRUE, u, t) => ReadNumber(b, s, f) = Got(TRUE, v, t)

\* pb_enc_varint(), pb_enc_svarint() and the casts of pb_dec_varint() and its like: there
\* is a number u that is written for v, and v is what is made of it.
LEMMA AsVarint ==
  ASSUME WidthsOK, NEW f, FieldOK(f), f.ltype \in {"varint", "uvarint", "svarint"},
         NEW v, ValueOK(f, v)
  PROVE  \E u : WrittenAs(f, v, u)
<1>1. f.size \in {N32, N64}
  BY DEF FieldOK
<1>2. /\ Words(f.size) \in Nat \ {0} /\ Words(f.size) \div 2 \in Nat
      /\ Words(f.size) = 2 * (Words(f.size) \div 2)
      /\ Words(f.size) <= Words(N64) /\ Words(N64) \in Nat \ {0}
  BY <1>1, RangesAre
<1>3. \A u, t : Got(TRUE, u, t).ok /\ Got(TRUE, u, t).val = u /\ Got(TRUE, u, t).s = t
  BY DEF Got
<1>4. CASE f.ltype = "varint"
  <2> DEFINE u == v % Words(N64)
  <2>1. v \in Ranges(f.size)
    BY <1>4 DEF ValueOK
  <2>2. v \in Int /\ Signed(f.size, v) = v /\ Signed(f.size, u) = v /\ u \in Nat /\ u < Words(N64)
    BY <1>1, <2>1, SignedBack
  <2>3. EncodeValue(f, v) = <<Varint(u)>>
    BY <1>4 DEF EncodeValue
  <2> HIDE DEF u
  <2>4. AsInt(f, u) = v
    BY <1>1, <2>2 DEF AsInt
  <2>5. ASSUME NEW b, NEW s, NEW t, ReadVarint(b, s, N64) = Got(TRUE, u, t)
        PROVE  ReadNumber(b, s, f) = Got(TRUE, v, t)
    <3> DEFINE r == Got(TRUE, u, t)
    <3>1. r.ok /\ r.val = u /\ r.s = t
      BY <1>3
    <3> HIDE DEF r
    <3>2. ReadNumber(b, s, f) = Clamped(r, AsInt(f, r.val), Signed(f.size, AsInt(f, r.val)))
      BY <2>5, <3>1, <1>4 DEF ReadNumber, Then, r
    <3>3. QED BY <3>1, <3>2, <2>2, <2>4 DEF Clamped
  <2>6. QED BY <2>2, <2>3, <2>5, Zenon DEF WrittenAs
<1>5. CASE f.ltype = "uvarint"
  <2>1. v \in 0..(Words(f.size) - 1)
    BY <1>5 DEF ValueOK
  <2>2. v \in Nat /\ v < Words(N64)
    BY <2>1, <1>2
  <2>3. v % Words(f.size) = v
    <3>1. \A d \in Nat \ {0} : \A y \in 0..(d - 1) : y % d = y
      OBVIOUS
    <3>2. QED BY <3>1, <2>1, <1>2
  <2>4. EncodeValue(f, v) = <<Varint(v)>>
    BY <1>5 DEF EncodeValue
  <2>5. ASSUME NEW b, NEW s, NEW t, ReadVarint(b, s, N64) = Got(TRUE, v, t)
        PROVE  ReadNumber(b, s, f) = Got(TRUE, v, t)
    <3> DEFINE r == Got(TRUE, v, t)
    <3>1. r.ok /\ r.val = v /\ r.s = t
      BY <1>3
    <3> HIDE DEF r
    <3>2. ReadNumber(b, s, f) = Clamped(r, r.val, r.val % Words(f.size))
      BY <2>5, <3>1, <1>5 DEF ReadNumber, Then, r
    <3>3. QED BY <3>1, <3>2, <2>3 DEF Clamped
  <2>6. QED BY <2>2, <2>4, <2>5, Zenon DEF WrittenAs
<1>6. CASE f.ltype = "svarint"
  <2> DEFINE u == Zigzag(v)
  <2>1. v \in Ranges(f.size)
    BY <1>6 DEF ValueOK
  <2>2. v \in Int /\ Signed(f.size, v) = v
    BY <1>1, <2>1, SignedBack
  <2>3. u \in Nat /\ Unzigzag(u) = v /\ u < Words(N64)
    <3>1. v \in (-(Words(f.size) \div 2))..((Words(f.size) \div 2) - 1)
      BY <2>1 DEF Ranges
    <3>2. u \in Nat /\ Unzigzag(u) = v /\ u < 2 * (Words(f.size) \div 2)
      BY <3>1, <2>2, <1>2, ZigzagBack
    <3> HIDE DEF u
    <3>3. QED BY <3>2, <1>2
  <2>4. EncodeValue(f, v) = <<Varint(u)>>
    BY <1>6 DEF EncodeValue
  <2> HIDE DEF u
  <2>5. ASSUME NEW b, NEW s, NEW t, ReadVarint(b, s, N64) = Got(TRUE, u, t)
        PROVE  ReadNumber(b, s, f) = Got(TRUE, v, t)
    <3> DEFINE r == Got(TRUE, u, t)
    <3>1. r.ok /\ r.val = u /\ r.s = t
      BY <1>3
    <3> HIDE DEF r
    <3>2. ReadNumber(b, s, f) = Clamped(r, Unzigzag(r.val), Signed(f.size, Unzigzag(r.val)))
      BY <2>5, <3>1, <1>6 DEF ReadNumber, Then, r
    <3>3. QED BY <3>1, <3>2, <2>2, <2>3 DEF Clamped
  <2>6. QED BY <2>3, <2>4, <2>5, Zenon DEF WrittenAs
<1>7. QED BY <1>4, <1>5, <1>6

\* Every number that its type can hold is read back.
LEMMA NumberBack ==
  ASSUME WidthsOK, NEW f, FieldOK(f), f.ltype \in Numeric, NEW v, ValueOK(f, v)
  PROVE  \E x : EncodeValue(f, v) = <<x>> /\ ReadsBack(f, x, v)
<1>1. \A b, s, before : ReadValue(b, s, f, before) = ReadNumber(b, s, f)
  BY DEF ReadValue, Numeric
<1>2. f.ltype # "submessage"
  BY DEF Numeric
<1>3. CASE f.ltype \in {"varint", "uvarint", "svarint"}
  <2>7. PICK u : WrittenAs(f, v, u)
    BY <1>3, AsVarint
  <2>1. /\ u \in Nat /\ u < Words(N64) /\ EncodeValue(f, v) = <<Varint(u)>>
        /\ \A b, s, t : ReadVarint(b, s, N64) = Got(TRUE, u, t) => ReadNumber(b, s, f) = Got(TRUE, v, t)
    BY <2>7, Zenon DEF WrittenAs
  <2> DEFINE x == Varint(u)
  <2>2. x \in Seq(Bytes) /\ Len(x) >= 1
    <3>1. x \in Seq(Bytes) /\ Len(x) \in Nat \ {0}
      BY <2>1, VarintBytes
    <3>2. QED BY <3>1
  <2>3. WireType(f) = WtVarint
    BY <1>3 DEF WireType
  <2>4. ASSUME NEW b, NEW before, NEW s \in Stream, Holds(b, s, x)
        PROVE  /\ ReadValue(b, s, f, before) = Got(TRUE, v, Skip(s, Len(x)))
               /\ SkipField(b, s, WireType(f)).ok /\ SkipField(b, s, WireType(f)).s = Skip(s, Len(x))
    <3>1. /\ ReadVarint(b, s, N64) = Got(TRUE, u, Skip(s, Len(x)))
          /\ ToLastByte(b, s, s.left) = Got(TRUE, Len(x), Skip(s, Len(x)))
      BY <2>1, <2>4, VarintBack
    <3>2. ReadValue(b, s, f, before) = Got(TRUE, v, Skip(s, Len(x)))
      BY <3>1, <2>1, <1>1, Zenon
    <3>3. SkipField(b, s, WireType(f)) = ToLastByte(b, s, s.left)
      BY <2>3 DEF SkipField, WtVarint, Wt64Bit, WtString, Wt32Bit
    <3>4. SkipField(b, s, WireType(f)) = Got(TRUE, Len(x), Skip(s, Len(x)))
      BY <3>1, <3>3, Zenon
    <3>5. SkipField(b, s, WireType(f)).ok /\ SkipField(b, s, WireType(f)).s = Skip(s, Len(x))
      BY <3>4 DEF Got
    <3>6. QED BY <3>2, <3>5
  <2> HIDE DEF x
  <2>5. ReadsBack(f, x, v)
    BY <2>2, <2>4, Zenon DEF ReadsBack
  <2>6. QED BY <2>1, <2>5 DEF x
<1>4. CASE f.ltype \in {"fixed32", "fixed64"}
  <2> DEFINE n == IF f.ltype = "fixed32" THEN N32 ELSE N64
             x == Fixed(n, v)
  <2>1. n \in {N32, N64} /\ v \in 0..(Words(n) - 1)
    BY <1>4 DEF ValueOK
  <2>2. n \in Nat \ {0} /\ Words(n) \in Nat \ {0}
    BY <2>1, Widths, RangesAre
  <2>3. EncodeValue(f, v) = <<x>>
    BY <1>4 DEF EncodeValue
  <2>4. x \in Seq(Bytes) /\ Len(x) = n /\ Number(Byte, x) = v
    <3>1. v \in Nat /\ v < Words(n)
      BY <2>1, <2>2
    <3> HIDE DEF n
    <3>2. QED BY <3>1, <2>1, FixedIs
  <2>5. \A b, s : SkipField(b, s, WireType(f)) = ReadBytes(b, s, n)
    <3>1. CASE f.ltype = "fixed32"
      <4>1. WireType(f) = Wt32Bit
        BY <3>1 DEF WireType
      <4>2. QED BY <4>1, <3>1 DEF SkipField, WtVarint, Wt64Bit, WtString, Wt32Bit
    <3>2. CASE f.ltype = "fixed64"
      <4>1. WireType(f) = Wt64Bit
        BY <3>2 DEF WireType
      <4>2. QED BY <4>1, <3>2 DEF SkipField, WtVarint, Wt64Bit, WtString, Wt32Bit
    <3>3. QED BY <3>1, <3>2, <1>4
  <2>6. ASSUME NEW b, NEW before, NEW s \in Stream, Holds(b, s, x)
        PROVE  /\ ReadValue(b, s, f, before) = Got(TRUE, v, Skip(s, Len(x)))
               /\ SkipField(b, s, WireType(f)).ok /\ SkipField(b, s, WireType(f)).s = Skip(s, Len(x))
    <3> DEFINE r == Got(TRUE, x, Skip(s, n))
    <3>1. r.ok /\ r.val = x /\ r.s = Skip(s, n)
      BY DEF Got
    <3>2. ReadBytes(b, s, n) = r
      <4>1. ReadBytes(b, s, Len(x)) = Got(TRUE, x, Skip(s, Len(x)))
        BY <2>4, <2>6, BytesRead
      <4>2. QED BY <4>1, <2>4
    <3> HIDE DEF r, x
    <3>3. ReadNumber(b, s, f) = Got(TRUE, Number(Byte, r.val), r.s)
      <4>1. CASE f.ltype = "fixed32"
        BY <4>1, <3>1, <3>2 DEF ReadNumber, Then
      <4>2. CASE f.ltype = "fixed64"
        BY <4>2, <3>1, <3>2 DEF ReadNumber, Then
      <4>3. QED BY <4>1, <4>2, <1>4
    <3> HIDE DEF n
    <3>4. ReadValue(b, s, f, before) = Got(TRUE, v, Skip(s, Len(x)))
      BY <3>1, <3>3, <2>4, <1>1, Zenon
    <3>5. QED BY <3>1, <3>2, <3>4, <2>4, <2>5, Zenon
  <2> HIDE DEF x, n
  <2>7. ReadsBack(f, x, v)
    <3>1. x \in Seq(Bytes) /\ Len(x) >= 1
      BY <2>2, <2>4
    <3>2. QED BY <3>1, <2>6, Zenon DEF ReadsBack
  <2>8. QED BY <2>3, <2>7
<1>5. QED BY <1>3, <1>4 DEF Numeric

\* What the level below promises.
SubGivesBack ==
  \A d, v : SubOK(d, v) =>
    /\ SubBytes(d, v) \in Seq(Bytes) /\ Len(SubBytes(d, v)) < Words(N32)
    /\ \A b : \A s \in Stream :
         Holds(b, s, SubBytes(d, v)) /\ s.left = Len(SubBytes(d, v))
         => SubDecoded(b, s, d, Defaults(d)) = Got(TRUE, v, Skip(s, s.left))

\* pb_encode_string(): the length and the bytes.
LEMMA LengthBytes ==
  ASSUME WidthsOK, NEW y \in Seq(Bytes), Len(y) < Words(N32)
  PROVE  /\ LengthThen(y) \in Seq(Seq(Bytes))
         /\ FlattenSeq(LengthThen(y)) = Varint(Len(y)) \o y
         /\ Varint(Len(y)) \o y \in Seq(Bytes) /\ Len(Varint(Len(y)) \o y) >= 1
         /\ Varint(Len(y)) \in Seq(Bytes) /\ Len(Varint(Len(y))) \in Nat \ {0}
<1> DEFINE h == Varint(Len(y))
<1>1. Len(y) \in Nat
  BY LenProperties
<1>2. h \in Seq(Bytes) /\ Len(h) \in Nat \ {0}
  BY <1>1, VarintBytes
<1>3. LengthThen(y) = <<h, y>>
  BY DEF LengthThen
<1> HIDE DEF h
<1>4. FlattenSeq(<<h, y>>) = h \o y
  BY <1>2, FlattenTwo
<1>5. <<h, y>> \in Seq(Seq(Bytes))
  BY <1>2
<1>6. h \o y \in Seq(Bytes) /\ Len(h \o y) = Len(h) + Len(y)
  BY <1>2, ConcatProperties
<1>7. Len(h \o y) >= 1
  BY <1>1, <1>2, <1>6
<1>8. QED BY <1>2, <1>3, <1>4, <1>5, <1>6, <1>7, Zenon DEF h

\* The length has been read, and the stream is t.
LengthRead(b, s, y, t, x) ==
  /\ ReadVarint(b, s, N32) = Got(TRUE, Len(y), t)
  /\ t \in Stream /\ Len(y) \in Nat /\ Len(y) <= t.left /\ t.left <= s.left
  /\ Holds(b, t, y) /\ Skip(t, Len(y)) = Skip(s, Len(x))

\* The length is read back, and leaves the stream t where the bytes begin.
LEMMA LengthBack ==
  ASSUME WidthsOK, NEW y \in Seq(Bytes), Len(y) < Words(N32),
         NEW b, NEW s \in Stream, Holds(b, s, Varint(Len(y)) \o y)
  PROVE  \E t : LengthRead(b, s, y, t, Varint(Len(y)) \o y)
<1> DEFINE h == Varint(Len(y))
           x == h \o y
           t == Skip(s, Len(h))
<1>1. Len(y) \in Nat /\ h \in Seq(Bytes)
  BY LenProperties, LengthBytes
<1>2. /\ Holds(b, s, h) /\ Holds(b, t, y) /\ Len(h) \in Nat /\ Len(h) <= s.left
      /\ Len(x) = Len(h) + Len(y)
  <2> HIDE DEF h
  <2>1. Holds(b, s, h \o y)
    BY DEF h
  <2>2. QED BY <1>1, <2>1, HoldsConcat
<1>3. ReadVarint(b, s, N32) = Got(TRUE, Len(y), t)
  BY <1>1, <1>2, VarintBack
<1> HIDE DEF h, x
<1>4. Len(h) \in 0..s.left /\ s.left \in Nat
  BY <1>2 DEF Stream
<1>5. t \in Stream /\ t.left = s.left - Len(h) /\ Skip(t, Len(y)) = Skip(s, Len(h) + Len(y))
  BY <1>1, <1>4, SkipIs
<1>6. Len(y) <= t.left
  BY <1>2, Zenon DEF Holds
<1>7. t.left <= s.left
  BY <1>4, <1>5
<1>8. LengthRead(b, s, y, t, x)
  BY <1>1, <1>2, <1>3, <1>5, <1>6, <1>7, Zenon DEF LengthRead
<1>9. QED BY <1>8, Zenon DEF h, x

\* It can be skipped.
LEMMA StringSkipped ==
  \A y \in Seq(Bytes) : \A b, s, t, x :
    LengthRead(b, s, y, t, x) => SkipString(b, s) = Got(TRUE, y, Skip(s, Len(x)))
<1> SUFFICES ASSUME NEW y \in Seq(Bytes), NEW b, NEW s, NEW t, NEW x, LengthRead(b, s, y, t, x)
             PROVE  SkipString(b, s) = Got(TRUE, y, Skip(s, Len(x)))
  OBVIOUS
<1> DEFINE n == Got(TRUE, Len(y), t)
<1>1. ReadVarint(b, s, N32) = n /\ t \in Stream /\ Holds(b, t, y) /\ Skip(t, Len(y)) = Skip(s, Len(x))
  BY Zenon DEF LengthRead
<1>2. n.ok /\ n.val = Len(y) /\ n.s = t
  BY DEF Got
<1>3. ReadBytes(b, t, Len(y)) = Got(TRUE, y, Skip(t, Len(y)))
  BY <1>1, BytesRead
<1> HIDE DEF n
<1>4. SkipString(b, s) = ReadBytes(b, n.s, n.val)
  BY <1>1, <1>2 DEF SkipString, Then
<1>5. QED BY <1>1, <1>2, <1>3, <1>4, Zenon

\* pb_enc_bytes() and pb_enc_string(), pb_dec_bytes() and pb_dec_string(): every byte array
\* and string that the field has room for is read back.
LEMMA StringBack ==
  ASSUME WidthsOK, NEW f, FieldOK(f), f.ltype \in {"bytes", "string"}, NEW v, ValueOK(f, v)
  PROVE  /\ EncodeValue(f, v) \in Seq(Seq(Bytes))
         /\ ReadsBack(f, FlattenSeq(EncodeValue(f, v)), v)
<1> DEFINE x == Varint(Len(v)) \o v
<1>1. /\ v \in Seq(Bytes) /\ Len(v) < Words(N32) 
      /\ f.ltype = "string" => UpToNull(v) = v
      /\ f.ltype = "string" => Len(v) + 1 <= f.max
      /\ f.ltype = "bytes" => Len(v) <= f.max
  <2>1. f.max \in 0..(Words(N32) - 1) /\ Words(N32) \in Nat
    BY RangesAre DEF FieldOK
  <2>2. CASE f.ltype = "bytes"
    <3>1. v \in Seq(Bytes) /\ Len(v) <= f.max
      BY <2>2 DEF ValueOK
    <3>2. QED BY <3>1, <2>1, <2>2
  <2>3. CASE f.ltype = "string"
    <3>1. v \in Seq(Bytes \ {0}) /\ Len(v) < f.max
      BY <2>3 DEF ValueOK
    <3>2. v \in Seq(Bytes)
      BY <3>1
    <3>3. {i \in DOMAIN v : v[i] = 0} = {}
      BY <3>1
    <3>4. UpToNull(v) = v
      BY <3>3 DEF UpToNull
    <3>5. QED BY <3>1, <3>2, <3>4, <2>1, <2>3
  <2>4. QED BY <2>2, <2>3
<1>2. v \in Seq(Bytes) /\ Len(v) < Words(N32)
  BY <1>1
<1>3. EncodeValue(f, v) = LengthThen(v)
  BY <1>1 DEF EncodeValue
<1>4. LengthThen(v) \in Seq(Seq(Bytes)) /\ FlattenSeq(LengthThen(v)) = x /\ x \in Seq(Bytes) /\ Len(x) >= 1
  BY <1>2, LengthBytes
<1>5. WireType(f) = WtString
  BY DEF WireType
<1>6. \A b, s, before : ReadValue(b, s, f, before) = ReadString(b, s, f)
  BY DEF ReadValue, Numeric
<1>7. \A b, s : SkipField(b, s, WireType(f)) = SkipString(b, s)
  BY <1>5 DEF SkipField, WtVarint, Wt64Bit, WtString, Wt32Bit
<1>8. ASSUME NEW b, NEW before, NEW s \in Stream, Holds(b, s, x)
      PROVE  /\ ReadValue(b, s, f, before) = Got(TRUE, v, Skip(s, Len(x)))
             /\ SkipField(b, s, WireType(f)).ok /\ SkipField(b, s, WireType(f)).s = Skip(s, Len(x))
  <2>1. PICK t : LengthRead(b, s, v, t, x)
    BY <1>2, <1>8, LengthBack
  <2> HIDE DEF x
  <2> DEFINE n == Got(TRUE, Len(v), t)
             r == Got(TRUE, v, Skip(s, Len(x)))
  <2>2. /\ ReadVarint(b, s, N32) = n /\ t \in Stream /\ Holds(b, t, v) /\ Skip(t, Len(v)) = Skip(s, Len(x))
    BY <2>1, Zenon DEF LengthRead
  <2>3. n.ok /\ n.val = Len(v) /\ n.s = t /\ r.ok /\ r.val = v /\ r.s = Skip(s, Len(x))
    BY DEF Got
  <2>4. ReadBytes(b, t, Len(v)) = r
    BY <1>2, <2>2, BytesRead
  <2>5. SkipField(b, s, WireType(f)) = r
    <3>1. SkipString(b, s) = r
      <4>1. \A c, p, u, z : LengthRead(c, p, v, u, z) => SkipString(c, p) = Got(TRUE, v, Skip(p, Len(z)))
        BY <1>2, StringSkipped
      <4>2. QED BY <2>1, <4>1, Zenon
    <3>2. QED BY <3>1, <1>7
  <2>6. Got(TRUE, r.val, r.s) = r
    BY <2>3, Zenon
  <2>7. Len(v) \in Nat /\ f.max \in Int
    BY <1>2, LenProperties DEF FieldOK
  <2> HIDE DEF n, r
  <2>8. ReadString(b, s, f) = r
    <3>1. CASE f.ltype = "string"
      <4>1. ~(Len(v) + 1 > f.max)
        BY <3>1, <1>1, <2>7
      <4>2. UpToNull(r.val) = r.val
        BY <3>1, <1>1, <2>3
      <4>3. QED BY <3>1, <4>1, <4>2, <2>2, <2>3, <2>4, <2>6 DEF ReadString, Then
    <3>2. CASE f.ltype = "bytes"
      <4>1. ~(Len(v) > f.max)
        BY <3>2, <1>1, <2>7
      <4>2. QED BY <3>2, <4>1, <2>2, <2>3, <2>4 DEF ReadString, Then
    <3>3. QED BY <3>1, <3>2
  <2>9. QED BY <2>3, <2>5, <2>8, <1>6, Zenon DEF r
<1> HIDE DEF x
<1>9. ReadsBack(f, x, v)
  BY <1>4, <1>8, Zenon DEF ReadsBack
<1>10. QED BY <1>3, <1>4, <1>9, Zenon

\* The substream of a string, and the parent behind it, once the length has been read.
Inside(t, y) == [t EXCEPT !.left = Len(y)]
Behind(t, y) == [t EXCEPT !.left = @ - Len(y)]

\* The length has been read: the substream, the parent, and where it goes on.
SplitAt(b, s, y, t, x) ==
  /\ ReadLength(b, s) = Got(TRUE, Inside(t, y), Behind(t, y))
  /\ Inside(t, y) \in Stream /\ Inside(t, y).left = Len(y) /\ Holds(b, Inside(t, y), y)
  /\ Close(Behind(t, y), Skip(Inside(t, y), Inside(t, y).left)) = Skip(s, Len(x))

\* pb_make_string_substream() and pb_close_string_substream(): the substream has the bytes,
\* the parent goes on behind them.
LEMMA LengthSplit ==
  ASSUME NEW y, NEW b, NEW s, NEW t, NEW x, LengthRead(b, s, y, t, x)
  PROVE  SplitAt(b, s, y, t, x)
<1> DEFINE n == Got(TRUE, Len(y), t)
<1>1. /\ ReadVarint(b, s, N32) = n /\ t \in Stream /\ Holds(b, t, y) /\ Skip(t, Len(y)) = Skip(s, Len(x))
      /\ Len(y) \in Nat /\ Len(y) <= t.left
  BY Zenon DEF LengthRead
<1>2. n.ok /\ n.val = Len(y) /\ n.s = t
  BY DEF Got
<1> HIDE DEF n
<1>3. t \in [pos : Nat, left : Nat]
  BY <1>1 DEF Stream
<1>4. ~(t.left < Len(y))
  BY <1>1, <1>3
<1>5. ReadLength(b, s) = Got(TRUE, Inside(t, y), Behind(t, y))
  BY <1>1, <1>2, <1>4 DEF ReadLength, Then, Inside, Behind
<1>6. /\ Inside(t, y) \in Stream /\ Inside(t, y).left = Len(y) /\ Inside(t, y).pos = t.pos
      /\ Behind(t, y) = [pos |-> t.pos, left |-> t.left - Len(y)]
  BY <1>1, <1>3 DEF Inside, Behind, Stream
<1>7. Holds(b, Inside(t, y), y)
  <2>1. Len(y) <= Len(y)
    BY <1>1
  <2>2. QED BY <2>1, <1>1, <1>6, Zenon DEF Holds
<1>8. Close(Behind(t, y), Skip(Inside(t, y), Len(y))) = Skip(t, Len(y))
  BY <1>1, <1>6 DEF Close, Skip
<1>9. QED BY <1>1, <1>5, <1>6, <1>7, <1>8, Zenon DEF SplitAt

\* pb_enc_submessage() and pb_dec_submessage(): what the level below gives back is given
\* back inside this one.
LEMMA SubmessageBack ==
  ASSUME WidthsOK, SubGivesBack, NEW f, f.ltype = "submessage", NEW v, ValueOK(f, v)
  PROVE  /\ EncodeValue(f, v) \in Seq(Seq(Bytes))
         /\ ReadsBack(f, FlattenSeq(EncodeValue(f, v)), v)
<1> DEFINE y == SubBytes(f.sub, v)
           x == Varint(Len(y)) \o y
<1>1. SubOK(f.sub, v)
  BY DEF ValueOK
<1>2. /\ y \in Seq(Bytes) /\ Len(y) < Words(N32)
      /\ \A b : \A s \in Stream : Holds(b, s, y) /\ s.left = Len(y)
           => SubDecoded(b, s, f.sub, Defaults(f.sub)) = Got(TRUE, v, Skip(s, s.left))
  BY <1>1, Zenon DEF SubGivesBack
<1>3. EncodeValue(f, v) = LengthThen(y)
  BY DEF EncodeValue
<1> HIDE DEF y
<1>4. LengthThen(y) \in Seq(Seq(Bytes)) /\ FlattenSeq(LengthThen(y)) = x /\ x \in Seq(Bytes) /\ Len(x) >= 1
  BY <1>2, LengthBytes
<1>5. WireType(f) = WtString
  BY DEF WireType
<1>6. \A b, s, before : ReadValue(b, s, f, before) = ReadSubmessage(b, s, f, before)
  BY DEF ReadValue, Numeric
<1>7. \A b, s : SkipField(b, s, WireType(f)) = SkipString(b, s)
  BY <1>5 DEF SkipField, WtVarint, Wt64Bit, WtString, Wt32Bit
<1>8. ASSUME NEW b, NEW before, NEW s \in Stream, Holds(b, s, x), Earlier(f, before) = Defaults(f.sub)
      PROVE  /\ ReadValue(b, s, f, before) = Got(TRUE, v, Skip(s, Len(x)))
             /\ SkipField(b, s, WireType(f)).ok /\ SkipField(b, s, WireType(f)).s = Skip(s, Len(x))
  <2>1. PICK t : LengthRead(b, s, y, t, x)
    BY <1>2, <1>8, LengthBack
  <2> HIDE DEF x
  <2> DEFINE u == Inside(t, y)
             sub == Got(TRUE, u, Behind(t, y))
             q == Got(TRUE, v, Skip(u, u.left))
  <2>2. /\ ReadLength(b, s) = sub /\ u \in Stream /\ u.left = Len(y) /\ Holds(b, u, y)
        /\ Close(Behind(t, y), Skip(u, u.left)) = Skip(s, Len(x))
    <3>1. SplitAt(b, s, y, t, x)
      BY <2>1, LengthSplit
    <3>2. QED BY <3>1, Zenon DEF SplitAt
  <2>3. SubDecoded(b, u, f.sub, Earlier(f, before)) = q
    BY <2>2, <1>2, <1>8
  <2>4. sub.ok /\ sub.val = u /\ sub.s = Behind(t, y) /\ q.ok /\ q.ok = TRUE /\ q.val = v /\ q.s = Skip(u, u.left)
    BY DEF Got
  <2> HIDE DEF sub, u, q
  <2>5. ReadSubmessage(b, s, f, before) = Closed(q, Behind(t, y))
    BY <2>2, <2>3, <2>4 DEF ReadSubmessage, SubmessageIn
  <2>6. Closed(q, Behind(t, y)) = Got(TRUE, v, Skip(s, Len(x)))
    BY <2>2, <2>4, Zenon DEF Closed
  <2>7. SkipField(b, s, WireType(f)) = Got(TRUE, y, Skip(s, Len(x)))
    <3>1. SkipString(b, s) = Got(TRUE, y, Skip(s, Len(x)))
      <4>1. \A c, p, w, z : LengthRead(c, p, y, w, z) => SkipString(c, p) = Got(TRUE, y, Skip(p, Len(z)))
        BY <1>2, StringSkipped
      <4>2. QED BY <2>1, <4>1, Zenon
    <3>2. QED BY <3>1, <1>7
  <2>8. SkipField(b, s, WireType(f)).ok /\ SkipField(b, s, WireType(f)).s = Skip(s, Len(x))
    BY <2>7 DEF Got
  <2>9. QED BY <2>5, <2>6, <2>8, <1>6, Zenon
<1> HIDE DEF x
<1>9. ReadsBack(f, x, v)
  BY <1>4, <1>8, Zenon DEF ReadsBack
<1>10. QED BY <1>3, <1>4, <1>9, Zenon

\* Every value of every type is read back.
LEMMA ValueBack ==
  ASSUME WidthsOK, SubGivesBack, NEW f, FieldOK(f), NEW v, ValueOK(f, v)
  PROVE  /\ EncodeValue(f, v) \in Seq(Seq(Bytes))
         /\ ReadsBack(f, FlattenSeq(EncodeValue(f, v)), v)
<1>1. CASE f.ltype \in Numeric
  <2>1. PICK x : EncodeValue(f, v) = <<x>> /\ ReadsBack(f, x, v)
    BY <1>1, NumberBack
  <2>2. x \in Seq(Bytes)
    BY <2>1 DEF ReadsBack
  <2>3. FlattenSeq(<<x>>) = x /\ <<x>> \in Seq(Seq(Bytes))
    BY <2>2, FlattenOne
  <2>4. QED BY <2>1, <2>3, Zenon
<1>2. CASE f.ltype \in {"bytes", "string"}
  BY <1>2, StringBack
<1>3. CASE f.ltype = "submessage"
  BY <1>3, SubmessageBack
<1>4. QED BY <1>1, <1>2, <1>3 DEF FieldOK

-----------------------------------------------------------------------------
(* Pieces of a stream, and of an array                                     *)

\* The pieces of a sequence of sequences, where the stream holds them.
PiecesHeld(o, ss, b, s) ==
  /\ o \in [0..Len(ss) -> Nat] /\ o[0] = 0 /\ o[Len(ss)] = Len(FlattenSeq(ss)) /\ o[Len(ss)] <= s.left
  /\ \A i \in 1..Len(ss) :
       /\ o[i] = o[i - 1] + Len(ss[i]) /\ o[i] <= o[Len(ss)]
       /\ Skip(s, o[i - 1]) \in Stream /\ Skip(s, o[i - 1]).left = s.left - o[i - 1]
       /\ Holds(b, Skip(s, o[i - 1]), ss[i])
       /\ Skip(Skip(s, o[i - 1]), Len(ss[i])) = Skip(s, o[i])

\* A stream that holds a flattened list holds each of its pieces.
LEMMA HoldsFlatten ==
  ASSUME NEW S, NEW ss \in Seq(Seq(S)), NEW b, NEW s \in Stream, Holds(b, s, FlattenSeq(ss))
  PROVE  \E o : PiecesHeld(o, ss, b, s)
<1> DEFINE n == Len(ss)
           x == FlattenSeq(ss)
<1>1. PICK o : PiecesAre(o, ss)
  BY FlattenPieces
<1>2. n \in Nat /\ \A i \in 1..n : Len(ss[i]) \in Nat
  BY LenProperties, ElementOfSeq
<1>3. Len(x) <= s.left /\ \A i \in 1..Len(x) : b[s.pos + i] = x[i]
  BY Zenon DEF Holds
<1>4. /\ o \in [0..n -> Nat] /\ o[0] = 0 /\ Len(x) = o[n]
      /\ \A i \in 1..n :
           /\ o[i] = o[i - 1] + Len(ss[i]) /\ o[i] <= o[n]
           /\ \A j \in 1..Len(ss[i]) : x[o[i - 1] + j] = ss[i][j]
  BY <1>1, Zenon DEF PiecesAre
<1> HIDE DEF x
<1>5. s.pos \in Nat /\ s.left \in Nat /\ o[n] \in Nat /\ o[n] <= s.left
  BY <1>2, <1>3, <1>4 DEF Stream
<1>6. ASSUME NEW i \in 1..n
      PROVE  /\ Skip(s, o[i - 1]) \in Stream /\ Skip(s, o[i - 1]).left = s.left - o[i - 1]
             /\ Holds(b, Skip(s, o[i - 1]), ss[i])
             /\ Skip(Skip(s, o[i - 1]), Len(ss[i])) = Skip(s, o[i])
  <2> DEFINE a == o[i - 1]
             m == Len(ss[i])
             t == Skip(s, a)
  <2>1. a \in Nat /\ m \in Nat /\ o[i] = a + m /\ a + m <= o[n]
    <3>1. i - 1 \in 0..n
      BY <1>2
    <3>2. QED BY <3>1, <1>2, <1>4
  <2>2. \A j \in 1..m : x[a + j] = ss[i][j]
    BY <1>4
  <2> HIDE DEF a, m
  <2>3. a \in 0..s.left
    BY <2>1, <1>5
  <2>4. t \in Stream /\ t.pos = s.pos + a /\ t.left = s.left - a /\ Skip(t, m) = Skip(s, a + m)
    BY <2>1, <2>3, SkipIs
  <2> HIDE DEF t
  <2>5. m <= t.left
    BY <2>1, <2>4, <1>5
  <2>6. \A j \in 1..m : b[t.pos + j] = ss[i][j]
    <3> SUFFICES ASSUME NEW j \in 1..m PROVE b[t.pos + j] = ss[i][j]
      OBVIOUS
    <3>1. Len(x) = o[n]
      BY <1>4, Zenon
    <3>2. a + j \in 1..Len(x) /\ t.pos + j = s.pos + (a + j)
      <4>1. a \in Nat /\ m \in Nat /\ j \in 1..m /\ a + m <= o[n] /\ o[n] \in Nat /\ s.pos \in Nat /\ t.pos = s.pos + a
        BY <2>1, <2>4, <1>5
      <4>2. QED BY <4>1, <3>1
    <3>3. QED BY <3>2, <2>2, <1>3, Zenon
  <2>7. Holds(b, t, ss[i])
    BY <2>5, <2>6 DEF Holds, m
  <2>8. QED BY <2>1, <2>4, <2>7, Zenon DEF a, m, t
<1>7. PiecesHeld(o, ss, b, s)
  BY <1>4, <1>5, <1>6, Zenon DEF PiecesHeld, x
<1>8. QED BY <1>7

\* The first values of a sequence.
Part(vals, i) == [j \in 1..i |-> vals[j]]

\* An array grows by one value at a time.
LEMMA PartIs ==
  ASSUME NEW vals, IsSeq(vals)
  PROVE  /\ Len(vals) \in Nat /\ Part(vals, 0) = << >> /\ Part(vals, Len(vals)) = vals
         /\ \A i \in 0..Len(vals) : Len(Part(vals, i)) = i
         /\ \A i \in 0..(Len(vals) - 1) : Append(Part(vals, i), vals[i + 1]) = Part(vals, i + 1)
<1> DEFINE n == Len(vals)
           V == {vals[j] : j \in 1..n}
<1>1. n \in Nat
  BY DEF IsSeq
<1>2. Part(vals, n) = vals
  BY DEF Part, IsSeq
<1>3. Part(vals, 0) = << >>
  BY DEF Part
<1>4. \A i \in 0..n : Part(vals, i) \in Seq(V) /\ Len(Part(vals, i)) = i
  <2> SUFFICES ASSUME NEW i \in 0..n PROVE Part(vals, i) \in Seq(V) /\ Len(Part(vals, i)) = i
    OBVIOUS
  <2>1. \A j \in 1..i : vals[j] \in V
    BY <1>1
  <2>2. i \in Nat
    BY <1>1
  <2> HIDE DEF V
  <2>3. Part(vals, i) \in [1..i -> V]
    BY <2>1 DEF Part
  <2>4. QED BY <2>2, <2>3
<1>5. ASSUME NEW i \in 0..(n - 1) PROVE Append(Part(vals, i), vals[i + 1]) = Part(vals, i + 1)
  <2> DEFINE p == Part(vals, i)
             q == Part(vals, i + 1)
             a == Append(p, vals[i + 1])
  <2>1. i \in 0..n /\ i + 1 \in 0..n /\ i + 1 \in 1..n
    BY <1>1
  <2>2. p \in Seq(V) /\ Len(p) = i /\ q \in Seq(V) /\ Len(q) = i + 1 /\ vals[i + 1] \in V
    BY <2>1, <1>4
  <2>3. (\A j \in 1..i : p[j] = vals[j]) /\ \A j \in 1..(i + 1) : q[j] = vals[j]
    BY DEF Part
  <2> HIDE DEF p, q, V
  <2>4. /\ a \in Seq(V) /\ Len(a) = i + 1
        /\ \A j \in 1..(i + 1) : a[j] = IF j <= i THEN p[j] ELSE vals[i + 1]
    BY <2>2
  <2> HIDE DEF a
  <2>5. \A j \in 1..Len(a) : a[j] = q[j]
    BY <2>1, <2>3, <2>4, <1>1
  <2>6. a = q
    BY <2>2, <2>4, <2>5, SeqEqual, Zenon
  <2>7. QED BY <2>6 DEF a, p, q
<1>6. QED BY <1>1, <1>2, <1>3, <1>4, <1>5

-----------------------------------------------------------------------------
(* The records of a field                                                  *)

\* A tag has been read, and the stream is t, before the bytes c.
TagRead(b, s, f, wt, c, t, x) ==
  /\ ReadVarint(b, s, N32) = Got(TRUE, 8 * f.tag + wt, t)
  /\ t \in Stream /\ t.left <= s.left /\ Holds(b, t, c) /\ Skip(t, Len(c)) = Skip(s, Len(x))

\* A tag is a varint of a 32-bit word.
LEMMA TagBytes ==
  ASSUME WidthsOK, NEW f, FieldOK(f), NEW wt \in 0..7
  PROVE  /\ 8 * f.tag + wt \in Nat /\ 8 * f.tag + wt < Words(N32)
         /\ Tag(wt, f.tag) = Varint(8 * f.tag + wt)
         /\ Tag(wt, f.tag) \in Seq(Bytes) /\ Len(Tag(wt, f.tag)) \in Nat \ {0}
<1>1. f.tag \in Nat /\ 8 * f.tag + 7 < Words(N32)
  BY DEF FieldOK
<1>2. Words(N32) \in Nat
  BY RangesAre
<1>3. 8 * f.tag + wt \in Nat /\ 8 * f.tag + wt < Words(N32)
  BY <1>1, <1>2
<1>4. Tag(wt, f.tag) = Varint(8 * f.tag + wt)
  BY DEF Tag
<1>5. Varint(8 * f.tag + wt) \in Seq(Bytes) /\ Len(Varint(8 * f.tag + wt)) \in Nat \ {0}
  BY <1>3, VarintBytes
<1>6. QED BY <1>3, <1>4, <1>5, Zenon

\* pb_encode_tag() and pb_decode_tag(): number and wire type of the field come back.
LEMMA TagBack ==
  ASSUME WidthsOK, NEW f, FieldOK(f), NEW wt \in 0..7, NEW c \in Seq(Bytes)
  PROVE  /\ Tag(wt, f.tag) \o c \in Seq(Bytes) /\ Len(Tag(wt, f.tag) \o c) >= 1
         /\ \A b : \A s \in Stream : Holds(b, s, Tag(wt, f.tag) \o c)
              => \E t : TagRead(b, s, f, wt, c, t, Tag(wt, f.tag) \o c)
<1> DEFINE h == Tag(wt, f.tag)
           v == 8 * f.tag + wt
           x == h \o c
<1>1. h \in Seq(Bytes) /\ Len(h) \in Nat \ {0} /\ v \in Nat /\ v < Words(N32) /\ h = Varint(v)
  BY TagBytes
<1>2. Len(c) \in Nat
  BY LenProperties
<1> HIDE DEF h, v
<1>3. x \in Seq(Bytes) /\ Len(x) = Len(h) + Len(c)
  BY <1>1, ConcatProperties
<1>4. Len(x) >= 1
  BY <1>1, <1>2, <1>3
<1>5. ASSUME NEW b, NEW s \in Stream, Holds(b, s, x)
      PROVE  \E t : TagRead(b, s, f, wt, c, t, x)
  <2> DEFINE t == Skip(s, Len(h))
  <2>1. Holds(b, s, h) /\ Holds(b, t, c) /\ Len(h) <= s.left
    BY <1>1, <1>5, HoldsConcat
  <2>2. ReadVarint(b, s, N32) = Got(TRUE, v, t)
    BY <1>1, <2>1, VarintBack
  <2> HIDE DEF x
  <2>3. Len(h) \in 0..s.left /\ s.left \in Nat
    BY <2>1, <1>1 DEF Stream
  <2>4. t \in Stream /\ t.left = s.left - Len(h) /\ Skip(t, Len(c)) = Skip(s, Len(h) + Len(c))
    BY <1>2, <2>3, SkipIs
  <2>5. t.left <= s.left
    BY <2>3, <2>4
  <2>6. TagRead(b, s, f, wt, c, t, x)
    BY <1>3, <2>1, <2>2, <2>4, <2>5, Zenon DEF TagRead, v
  <2>7. QED BY <2>6
<1>6. QED BY <1>3, <1>4, <1>5, Zenon DEF h

\* The bytes x of a field, read after the tag at t, take its values from before to after.
FieldRead(b, s, f, t, wt, x, before, after) ==
  /\ ReadVarint(b, s, N32) = Got(TRUE, 8 * f.tag + wt, t) /\ wt \in 0..7
  /\ ReadField(b, t, f, wt, before) = Got(TRUE, after, Skip(s, Len(x)))
  /\ SkipField(b, t, wt).ok /\ SkipField(b, t, wt).s = Skip(s, Len(x))

\* Wherever a stream holds the bytes x of a field, they take its values from before to
\* after, or are skipped.
RecordReads(f, x, before, after) ==
  /\ x \in Seq(Bytes) /\ Len(x) >= 1
  /\ \A b : \A s \in Stream :
       Holds(b, s, x) /\ s.left < Words(N32) => \E t, wt : FieldRead(b, s, f, t, wt, x, before, after)

\* A tag and a value: the record puts the value behind those that were there.
LEMMA ValueRecord ==
  ASSUME WidthsOK, SubGivesBack, NEW f, FieldOK(f), ~Packed(f), NEW v, ValueOK(f, v), NEW before,
         IF f.htype = "repeated" THEN Len(before) < f.max ELSE before = << >>
  PROVE  /\ Tagged(f, v) \in Seq(Seq(Bytes))
         /\ RecordReads(f, FlattenSeq(Tagged(f, v)), before, Append(before, v))
<1> DEFINE e == EncodeValue(f, v)
           c == FlattenSeq(e)
           wt == WireType(f)
           h == Tag(wt, f.tag)
           x == h \o c
<1>1. wt \in 0..7
  BY DEF FieldOK, WireType, Numeric, WtVarint, Wt64Bit, WtString, Wt32Bit
<1>2. e \in Seq(Seq(Bytes)) /\ ReadsBack(f, c, v)
  BY ValueBack
<1>3. c \in Seq(Bytes)
  BY <1>2, Zenon DEF ReadsBack
<1>4. h \in Seq(Bytes)
  BY <1>1, TagBytes
<1>5. Tagged(f, v) = <<h>> \o e
  BY DEF Tagged
<1> HIDE DEF e, h
<1>6. <<h>> \in Seq(Seq(Bytes)) /\ FlattenSeq(<<h>>) = h
  BY <1>4, FlattenOne
<1>7. Tagged(f, v) \in Seq(Seq(Bytes)) /\ FlattenSeq(Tagged(f, v)) = x
  <2>1. <<h>> \o e \in Seq(Seq(Bytes))
    BY <1>2, <1>6, ConcatProperties
  <2>2. FlattenSeq(<<h>> \o e) = FlattenSeq(<<h>>) \o c
    BY <1>2, <1>6, FlattenConcat
  <2>3. QED BY <2>1, <2>2, <1>5, <1>6, Zenon
<1> HIDE DEF c, wt
<1>8. /\ x \in Seq(Bytes) /\ Len(x) >= 1
      /\ \A b : \A s \in Stream : Holds(b, s, x) => \E t : TagRead(b, s, f, wt, c, t, x)
  BY <1>1, <1>3, TagBack DEF h
<1> HIDE DEF x
<1>9. f.ltype = "submessage" => Earlier(f, before) = Defaults(f.sub)
  BY DEF Earlier
<1>10. ASSUME NEW b, NEW s \in Stream, Holds(b, s, x), s.left < Words(N32)
       PROVE  \E t : FieldRead(b, s, f, t, wt, x, before, Append(before, v))
  <2>1. PICK t : TagRead(b, s, f, wt, c, t, x)
    BY <1>8, <1>10
  <2>2. /\ ReadVarint(b, s, N32) = Got(TRUE, 8 * f.tag + wt, t)
        /\ t \in Stream /\ t.left <= s.left /\ Holds(b, t, c) /\ Skip(t, Len(c)) = Skip(s, Len(x))
    BY <2>1, Zenon DEF TagRead
  <2>3. t.left < Words(N32)
    <3>1. t.left \in Nat /\ s.left \in Nat
      BY <2>2 DEF Stream
    <3>2. Words(N32) \in Nat
      BY RangesAre
    <3>3. t.left <= s.left /\ s.left < Words(N32)
      BY <2>2, <1>10
    <3>4. QED BY <3>1, <3>2, <3>3
  <2>4. /\ ReadValue(b, t, f, before) = Got(TRUE, v, Skip(s, Len(x)))
        /\ SkipField(b, t, wt).ok /\ SkipField(b, t, wt).s = Skip(s, Len(x))
    <3>1. /\ ReadValue(b, t, f, before) = Got(TRUE, v, Skip(t, Len(c)))
          /\ SkipField(b, t, WireType(f)).ok /\ SkipField(b, t, WireType(f)).s = Skip(t, Len(c))
      BY <1>2, <1>9, <2>2, <2>3, Zenon DEF ReadsBack
    <3>2. QED BY <3>1, <2>2, Zenon DEF wt
  <2>5. ReadField(b, t, f, wt, before) = Got(TRUE, Append(before, v), Skip(s, Len(x)))
    <3> DEFINE r == Got(TRUE, v, Skip(s, Len(x)))
    <3>1. r.ok /\ r.val = v /\ r.s = Skip(s, Len(x))
      BY DEF Got
    <3>2. ReadValue(b, t, f, before) = r
      BY <2>4
    <3> HIDE DEF r
    <3>3. CASE f.htype = "repeated"
      <4>1. (Len(before) < f.max) = TRUE
        BY <3>3
      <4>2. QED BY <3>1, <3>2, <3>3, <4>1, Zenon DEF ReadField, Then
    <3>4. CASE f.htype # "repeated"
      <4>1. Append(before, v) = <<v>>
        BY <3>4
      <4>2. QED BY <3>1, <3>2, <3>4, <4>1, Zenon DEF ReadField, Then
    <3>5. QED BY <3>3, <3>4
  <2>6. FieldRead(b, s, f, t, wt, x, before, Append(before, v))
    BY <1>1, <2>2, <2>4, <2>5, Zenon DEF FieldRead
  <2>7. QED BY <2>6
<1>11. RecordReads(f, x, before, Append(before, v))
  BY <1>8, <1>10, Zenon DEF RecordReads
<1>12. QED BY <1>7, <1>11, Zenon

\* The elements of a packed array, with the bytes of each one.
LEMMA PackedElements ==
  ASSUME WidthsOK, NEW f, FieldOK(f), f.ltype \in Numeric, NEW vals, FillOK(f, vals)
  PROVE  /\ Elements(f, vals) \in Seq(Seq(Bytes)) /\ Len(Elements(f, vals)) = Len(vals)
         /\ \A i \in 1..Len(vals) : ReadsBack(f, Elements(f, vals)[i], vals[i])
<1> DEFINE e == Elements(f, vals)
           n == Len(vals)
<1>1. n \in Nat /\ DOMAIN vals = 1..n
  BY DEF FillOK, IsSeq
<1>2. \A i \in 1..n : ValueOK(f, vals[i])
  BY <1>1 DEF FillOK
<1>3. ASSUME NEW i \in 1..n
      PROVE  EncodeValue(f, vals[i])[1] \in Seq(Bytes) /\ ReadsBack(f, EncodeValue(f, vals[i])[1], vals[i])
  <2>1. PICK x : EncodeValue(f, vals[i]) = <<x>> /\ ReadsBack(f, x, vals[i])
    BY <1>2, NumberBack
  <2>2. EncodeValue(f, vals[i])[1] = x
    BY <2>1
  <2>3. QED BY <2>1, <2>2, Zenon DEF ReadsBack
<1>4. e = [i \in 1..n |-> EncodeValue(f, vals[i])[1]]
  BY <1>1 DEF Elements
<1> HIDE DEF e
<1>5. e \in [1..n -> Seq(Bytes)] /\ \A i \in 1..n : e[i] = EncodeValue(f, vals[i])[1]
  BY <1>3, <1>4
<1>6. e \in Seq(Seq(Bytes)) /\ Len(e) = n
  BY <1>1, <1>5
<1>7. QED BY <1>3, <1>5, <1>6, Zenon DEF e

\* What the loop of decode_static_field() has read after i elements.
PackedAt(p, f, vals, u, o, i) == p[i] = Got(TRUE, Part(vals, i), Skip(u, o[i]))

\* Wherever a stream holds the bytes of a packed array, all of them are read as its values.
PackedReads(f, vals) ==
  \A y, b : \A u \in Stream :
    /\ y = FlattenSeq(Elements(f, vals)) /\ Holds(b, u, y)
    /\ u.left = Len(y) /\ u.left < Words(N32)
    => ReadPacked(b, u, f, << >>) = Got(TRUE, vals, Skip(u, u.left))

\* decode_static_field(): all the elements of a packed array are read back, whatever bytes
\* each of them takes.
LEMMA PackedRead ==
  ASSUME WidthsOK, NEW f, FieldOK(f), Packed(f), NEW vals, FillOK(f, vals)
  PROVE  PackedReads(f, vals)
<1> SUFFICES ASSUME NEW y, NEW b, NEW u \in Stream, y = FlattenSeq(Elements(f, vals)),
                    Holds(b, u, y), u.left = Len(y), u.left < Words(N32)
             PROVE  ReadPacked(b, u, f, << >>) = Got(TRUE, vals, Skip(u, u.left))
  BY Zenon DEF PackedReads
<1> DEFINE e == Elements(f, vals)
           n == Len(vals)
<1>1. f.htype = "repeated" /\ f.ltype \in Numeric
  BY DEF Packed
<1>2. e \in Seq(Seq(Bytes)) /\ Len(e) = n /\ \A i \in 1..n : ReadsBack(f, e[i], vals[i])
  BY <1>1, PackedElements
<1>3. IsSeq(vals) /\ n \in Nat /\ n <= f.max
  BY <1>1 DEF FillOK, IsSeq
<1> HIDE DEF e
<1>4. y = FlattenSeq(e)
  BY DEF e
<1>5. PICK o : PiecesHeld(o, e, b, u)
  BY <1>2, <1>4, HoldsFlatten
<1>6. PICK p : PackedRun(p, b, u, f, << >>) /\ ReadPacked(b, u, f, << >>) = p[u.left]
  BY PackedIs DEF Stream
<1>7. /\ o \in [0..n -> Nat] /\ o[0] = 0 /\ o[n] = u.left
      /\ \A i \in 1..n :
           /\ o[i] = o[i - 1] + Len(e[i]) /\ o[i] <= o[n]
           /\ Skip(u, o[i - 1]) \in Stream /\ Skip(u, o[i - 1]).left = u.left - o[i - 1]
           /\ Holds(b, Skip(u, o[i - 1]), e[i])
           /\ Skip(Skip(u, o[i - 1]), Len(e[i])) = Skip(u, o[i])
  BY <1>2, <1>4, <1>5, Zenon DEF PiecesHeld
<1>8. p[0] = Got(TRUE, << >>, u) /\ \A i \in 1..u.left : p[i] = PackedStep(b, f, p[i - 1])
  BY <1>6, Zenon DEF PackedRun
<1>9. \A i \in 1..n : Len(e[i]) \in Nat /\ Len(e[i]) >= 1
  <2> SUFFICES ASSUME NEW i \in 1..n PROVE Len(e[i]) \in Nat /\ Len(e[i]) >= 1
    OBVIOUS
  <2>1. e[i] \in Seq(Bytes) /\ Len(e[i]) >= 1
    BY <1>2, Zenon DEF ReadsBack
  <2>2. QED BY <2>1, LenProperties
<1>10. /\ Part(vals, 0) = << >> /\ Part(vals, n) = vals
       /\ \A i \in 0..n : Len(Part(vals, i)) = i
       /\ \A i \in 0..(n - 1) : Append(Part(vals, i), vals[i + 1]) = Part(vals, i + 1)
  BY <1>3, PartIs
<1>11. u.left \in Nat /\ u.pos \in Nat
  BY DEF Stream
\* An element takes a byte at least, and there are as many elements left as bytes.
<1>12. ASSUME NEW i \in Nat, i < n, i <= o[i], PackedAt(p, f, vals, u, o, i)
       PROVE  i + 1 <= o[i + 1] /\ PackedAt(p, f, vals, u, o, i + 1)
  <2> DEFINE s == Skip(u, o[i])
             x == e[i + 1]
             r == Got(TRUE, Part(vals, i), s)
             w == Got(TRUE, vals[i + 1], Skip(u, o[i + 1]))
  <2>1. i + 1 \in 1..n /\ i \in 0..n /\ i \in 0..(n - 1) /\ (i + 1) - 1 = i
    BY <1>3, <1>12
  <2>2. /\ o[i + 1] = o[i] + Len(x) /\ o[i + 1] <= u.left /\ s \in Stream /\ s.left = u.left - o[i]
        /\ Holds(b, s, x) /\ Skip(s, Len(x)) = Skip(u, o[i + 1])
    BY <1>7, <2>1
  <2>3. Len(x) \in Nat /\ Len(x) >= 1 /\ o[i] \in Nat
    BY <1>7, <1>9, <2>1
  <2>4. p[i] = r /\ r.ok /\ r.val = Part(vals, i) /\ r.s = s /\ w.ok /\ w.val = vals[i + 1] /\ w.s = Skip(u, o[i + 1])
    BY <1>12 DEF PackedAt, Got
  <2>5. ReadsBack(f, x, vals[i + 1])
    BY <1>2, <2>1
  <2> HIDE DEF s, x, r, w
  <2>6. s.left # 0 /\ s.left < Words(N32) /\ i + 1 <= o[i + 1] /\ i + 1 \in 1..u.left
    <3>1. o[i + 1] \in Nat /\ s.left = u.left - o[i]
      BY <2>2, <2>3
    <3>2. Words(N32) \in Nat
      BY RangesAre
    <3>3. QED BY <3>1, <3>2, <2>2, <2>3, <1>11, <1>12
  <2>7. ReadValue(b, s, f, << >>) = w
    <3>1. f.ltype # "submessage"
      BY <1>1 DEF Numeric
    <3>2. ReadValue(b, s, f, << >>) = Got(TRUE, vals[i + 1], Skip(s, Len(x)))
      BY <2>2, <2>5, <2>6, <3>1, Zenon DEF ReadsBack
    <3>3. QED BY <2>2, <3>2 DEF w
  <2>8. ~(Len(r.val) >= f.max)
    <3>1. Len(r.val) = i
      BY <2>1, <2>4, <1>10
    <3>2. f.max \in Int
      BY DEF FieldOK
    <3>3. QED BY <3>1, <3>2, <1>3, <1>12
  <2>9. PackedStep(b, f, r) = Got(TRUE, Append(r.val, w.val), w.s)
    BY <2>4, <2>6, <2>7, <2>8, Zenon DEF PackedStep, Then
  <2>10. p[i + 1] = PackedStep(b, f, p[i])
    BY <2>1, <2>6, <1>8
  <2>11. Append(r.val, w.val) = Part(vals, i + 1)
    BY <2>1, <2>4, <1>10
  <2>12. p[i + 1] = Got(TRUE, Part(vals, i + 1), Skip(u, o[i + 1]))
    BY <2>4, <2>9, <2>10, <2>11, Zenon
  <2>13. QED BY <2>6, <2>12 DEF PackedAt
<1>13. n <= o[n] /\ PackedAt(p, f, vals, u, o, n)
  <2> DEFINE T == {i \in Nat : i <= n => i <= o[i] /\ PackedAt(p, f, vals, u, o, i)}
  <2>1. 0 \in T
    <3>1. Skip(u, 0) = u
      BY <1>11 DEF Skip, Stream
    <3>2. PackedAt(p, f, vals, u, o, 0)
      BY <3>1, <1>7, <1>8, <1>10, Zenon DEF PackedAt
    <3>3. o[0] = 0
      BY <1>7
    <3>4. QED BY <3>2, <3>3
  <2>2. ASSUME NEW k \in Nat, k \in T PROVE k + 1 \in T
    <3>1. CASE k < n
      BY <3>1, <2>2, <1>12
    <3>2. CASE ~(k < n)
      BY <3>2, <1>3
    <3>3. QED BY <3>1, <3>2
  <2> HIDE DEF T
  <2>3. n \in T
    BY <2>1, <2>2, <1>3, NatInd
  <2>4. QED BY <2>3, <1>3 DEF T
\* All bytes are used up, and the loop stands still.
<1>14. p[n] = Got(TRUE, vals, Skip(u, u.left)) /\ p[n].s.left = 0
  <2>1. p[n] = Got(TRUE, vals, Skip(u, u.left))
    BY <1>7, <1>10, <1>13 DEF PackedAt
  <2>2. Skip(u, u.left).left = 0
    BY <1>11 DEF Skip
  <2>3. QED BY <2>1, <2>2 DEF Got
<1>15. ASSUME NEW r, r.s.left = 0 PROVE PackedStep(b, f, r) = r
  BY <1>15, Zenon DEF PackedStep
<1>16. p[u.left] = p[n]
  <2> DEFINE T == {k \in Nat : n + k <= u.left => p[n + k] = p[n]}
  <2>1. 0 \in T
    BY <1>3
  <2>2. ASSUME NEW k \in Nat, k \in T PROVE k + 1 \in T
    <3> SUFFICES ASSUME n + (k + 1) <= u.left PROVE p[n + (k + 1)] = p[n]
      OBVIOUS
    <3>1. n + (k + 1) \in 1..u.left /\ (n + (k + 1)) - 1 = n + k /\ n + k <= u.left
      BY <1>3, <1>11
    <3>2. p[n + k] = p[n]
      BY <3>1, <2>2
    <3>3. p[n + (k + 1)] = PackedStep(b, f, p[n])
      BY <3>1, <3>2, <1>8
    <3>4. QED BY <3>3, <1>14, <1>15, Zenon
  <2> HIDE DEF T
  <2>3. u.left - n \in Nat /\ n + (u.left - n) = u.left
    BY <1>3, <1>7, <1>11, <1>13
  <2>4. u.left - n \in T
    BY <2>1, <2>2, <2>3, NatInd
  <2>5. QED BY <2>3, <2>4 DEF T
<1>17. QED BY <1>6, <1>14, <1>16, Zenon

\* A packed array is one record.
LEMMA PackedRecord ==
  ASSUME WidthsOK, NEW f, FieldOK(f), Packed(f), NEW vals, FillOK(f, vals), vals # << >>
  PROVE  /\ EncodeField(f, vals) \in Seq(Seq(Bytes))
         /\ RecordReads(f, FlattenSeq(EncodeField(f, vals)), << >>, vals)
<1> DEFINE e == Elements(f, vals)
           y == FlattenSeq(e)
           h == Tag(WtString, f.tag)
           l == Varint(Len(y))
           c == l \o y
           x == h \o c
<1>1. f.ltype \in Numeric
  BY DEF Packed
<1>2. e \in Seq(Seq(Bytes)) /\ Len(y) < Words(N32)
  BY <1>1, PackedElements DEF FillOK
<1>3. WtString \in 0..7
  BY DEF WtString
<1>4. h \in Seq(Bytes)
  BY <1>3, TagBytes
<1> HIDE DEF e
<1>5. y \in Seq(Bytes)
  BY <1>2, FlattenType
<1> HIDE DEF y
<1>6. l \in Seq(Bytes) /\ c \in Seq(Bytes)
  BY <1>2, <1>5, LengthBytes
<1>7. EncodeField(f, vals) = <<h, l>> \o e
  BY DEF EncodeField, PackedAfterTag, e, y
<1> HIDE DEF h, l
<1>8. EncodeField(f, vals) \in Seq(Seq(Bytes)) /\ FlattenSeq(EncodeField(f, vals)) = x
  <2>1. <<h, l>> \in Seq(Seq(Bytes))
    BY <1>4, <1>6
  <2>2. FlattenSeq(<<h, l>>) = h \o l
    BY <1>4, <1>6, FlattenTwo
  <2>3. FlattenSeq(<<h, l>> \o e) = FlattenSeq(<<h, l>>) \o y
    BY <1>2, <2>1, FlattenConcat DEF y
  <2>4. (h \o l) \o y = x
    BY <1>4, <1>5, <1>6, ConcatAssoc
  <2>5. <<h, l>> \o e \in Seq(Seq(Bytes))
    BY <1>2, <2>1, ConcatProperties
  <2>6. QED BY <1>7, <2>2, <2>3, <2>4, <2>5, Zenon
<1> HIDE DEF c
<1>9. /\ x \in Seq(Bytes) /\ Len(x) >= 1
      /\ \A b : \A s \in Stream : Holds(b, s, x) => \E t : TagRead(b, s, f, WtString, c, t, x)
  BY <1>3, <1>6, TagBack DEF h
<1> HIDE DEF x
<1>10. ASSUME NEW b, NEW s \in Stream, Holds(b, s, x), s.left < Words(N32)
       PROVE  \E t, wt : FieldRead(b, s, f, t, wt, x, << >>, vals)
  <2>1. PICK t : TagRead(b, s, f, WtString, c, t, x)
    BY <1>9, <1>10
  <2>2. /\ ReadVarint(b, s, N32) = Got(TRUE, 8 * f.tag + WtString, t)
        /\ t \in Stream /\ t.left <= s.left /\ Holds(b, t, c) /\ Skip(t, Len(c)) = Skip(s, Len(x))
    BY <2>1, Zenon DEF TagRead
  <2>3. PICK q : LengthRead(b, t, y, q, c)
    BY <2>2, <1>2, <1>5, LengthBack DEF c, l
  <2>4. SplitAt(b, t, y, q, c)
    BY <2>3, LengthSplit
  <2> DEFINE u == Inside(q, y)
             v == Behind(q, y)
             sub == Got(TRUE, u, v)
             r == Got(TRUE, vals, Skip(u, u.left))
  <2>5. /\ ReadLength(b, t) = sub /\ u \in Stream /\ u.left = Len(y) /\ Holds(b, u, y)
        /\ Close(v, Skip(u, u.left)) = Skip(s, Len(x))
    BY <2>2, <2>4, Zenon DEF SplitAt
  <2>6. /\ sub.ok /\ sub.val = u /\ sub.s = v /\ r.ok /\ r.val = vals /\ r.s = Skip(u, u.left)
    BY DEF Got
  <2> HIDE DEF u, v, sub
  <2>7. ReadPacked(b, u, f, << >>) = r
    <3>1. u.left < Words(N32)
      BY <1>2, <2>5
    <3>2. ReadPacked(b, u, f, << >>) = Got(TRUE, vals, Skip(u, u.left))
      <4>1. y = FlattenSeq(Elements(f, vals))
        BY DEF y, e
      <4>2. PackedReads(f, vals)
        BY PackedRead
      <4>3. Holds(b, u, y) /\ u.left = Len(y) /\ u.left < Words(N32) /\ u \in Stream
        BY <2>5, <3>1
      <4>4. QED BY <4>1, <4>2, <4>3, Zenon DEF PackedReads
    <3>3. QED BY <3>2 DEF r
  <2>8. Skip(u, u.left).left = 0
    BY <2>5 DEF Skip, Stream
  <2> HIDE DEF r
  <2>9. AllRead(r) = Got(TRUE, vals, Skip(u, u.left))
    <3>1. (r.ok /\ r.s.left = 0) = TRUE
      BY <2>6, <2>8
    <3>2. QED BY <2>6, <3>1, Zenon DEF AllRead
  <2>10. Closed(Got(TRUE, vals, Skip(u, u.left)), v) = Got(TRUE, vals, Skip(s, Len(x)))
    BY <2>5 DEF Closed, Got
  <2>11. PackedIn(b, f, << >>, sub) = Got(TRUE, vals, Skip(s, Len(x)))
    BY <2>6, <2>7, <2>9, <2>10, Zenon DEF PackedIn
  <2>12. ReadField(b, t, f, WtString, << >>) = Got(TRUE, vals, Skip(s, Len(x)))
    BY <2>5, <2>11, Zenon DEF ReadField
  <2>13. SkipField(b, t, WtString) = Got(TRUE, y, Skip(s, Len(x)))
    <3>1. SkipString(b, t) = Got(TRUE, y, Skip(t, Len(c)))
      <4>1. \A a, p, w, z : LengthRead(a, p, y, w, z) => SkipString(a, p) = Got(TRUE, y, Skip(p, Len(z)))
        BY <1>5, StringSkipped
      <4>2. QED BY <2>3, <4>1, Zenon
    <3>2. SkipField(b, t, WtString) = SkipString(b, t)
      BY DEF SkipField, WtVarint, Wt64Bit, WtString, Wt32Bit
    <3>3. QED BY <3>1, <3>2, <2>2, Zenon
  <2>14. SkipField(b, t, WtString).ok /\ SkipField(b, t, WtString).s = Skip(s, Len(x))
    BY <2>13 DEF Got
  <2>15. FieldRead(b, s, f, t, WtString, x, << >>, vals)
    BY <1>3, <2>2, <2>12, <2>14, Zenon DEF FieldRead
  <2>16. QED BY <2>15
<1>11. RecordReads(f, x, << >>, vals)
  BY <1>9, <1>10, Zenon DEF RecordReads
<1>12. QED BY <1>8, <1>11, Zenon

\* A field is encoded as records xs, that take its values from none to all of them.
Records(f, vals, xs, v) ==
  /\ xs \in Seq(Seq(Bytes)) /\ v[0] = << >> /\ v[Len(xs)] = vals
  /\ Len(xs) = 0 <=> vals = << >>
  /\ \A i \in 1..Len(xs) : RecordReads(f, xs[i], v[i - 1], v[i])
  /\ FlattenSeq(EncodeField(f, vals)) = FlattenSeq(xs)

\* A function on 1..n is a sequence.
LEMMA FunctionSeq == \A S : \A n \in Nat : \A s \in [1..n -> S] : s \in Seq(S) /\ Len(s) = n
  OBVIOUS

\* encode_basic_field(): what is written of a field is a list of records, the first
\* of which finds no value, and the last of which leaves all of them.
LEMMA FieldRecords ==
  ASSUME WidthsOK, SubGivesBack, NEW f, FieldOK(f), NEW vals, FillOK(f, vals)
  PROVE  /\ EncodeField(f, vals) \in Seq(Seq(Bytes))
         /\ \E xs, v : Records(f, vals, xs, v)
<1>1. CASE Packed(f) /\ vals # << >>
  <2> DEFINE x == FlattenSeq(EncodeField(f, vals))
             v == [i \in 0..1 |-> IF i = 0 THEN << >> ELSE vals]
  <2>1. EncodeField(f, vals) \in Seq(Seq(Bytes)) /\ RecordReads(f, x, << >>, vals)
    BY <1>1, PackedRecord
  <2>2. x \in Seq(Bytes)
    BY <2>1, Zenon DEF RecordReads
  <2> HIDE DEF x
  <2>3. FlattenSeq(<<x>>) = x
    BY <2>2, FlattenOne
  <2>4. <<x>> \in Seq(Seq(Bytes)) /\ Len(<<x>>) = 1 /\ <<x>>[1] = x
    BY <2>2
  <2>5. v[0] = << >> /\ v[1] = vals
    OBVIOUS
  <2> HIDE DEF v
  <2>6. \A i \in 1..Len(<<x>>) : RecordReads(f, <<x>>[i], v[i - 1], v[i])
    BY <2>1, <2>4, <2>5
  <2>7. (Len(<<x>>) = 0) <=> (vals = << >>)
    BY <1>1, <2>4
  <2>8. Records(f, vals, <<x>>, v)
    BY <2>3, <2>4, <2>5, <2>6, <2>7, Zenon DEF Records, x
  <2>9. QED BY <2>1, <2>8
<1>2. CASE ~(Packed(f) /\ vals # << >>)
  <2> DEFINE n == Len(vals)
             X == [i \in 1..n |-> Tagged(f, vals[i])]
             xs == [i \in 1..n |-> FlattenSeq(Tagged(f, vals[i]))]
             v == [i \in 0..n |-> Part(vals, i)]
  <2>1. IsSeq(vals) /\ n \in Nat /\ DOMAIN vals = 1..n
    BY DEF FillOK, IsSeq
  <2>2. /\ Part(vals, 0) = << >> /\ Part(vals, n) = vals
        /\ \A i \in 0..n : Len(Part(vals, i)) = i
        /\ \A i \in 0..(n - 1) : Append(Part(vals, i), vals[i + 1]) = Part(vals, i + 1)
    BY <2>1, PartIs
  <2>3. EncodeField(f, vals) = FlattenSeq(X)
    BY <1>2, <2>1 DEF EncodeField
  <2>4. (n = 0) <=> (vals = << >>)
    BY <2>1, <2>2
  <2>5. n > 0 => ~Packed(f)
    BY <1>2, <2>4
  <2>6. f.htype = "repeated" => n <= f.max
    BY DEF FillOK
  <2>7. f.htype # "repeated" => n <= 1
    <3>1. f.htype \in {"required", "optional", "repeated"}
      BY DEF FieldOK
    <3>2. (f.htype = "required" => n = 1) /\ (f.htype = "optional" => n <= 1)
      <4>1. CASE f.htype = "required"
        BY <4>1 DEF FillOK
      <4>2. CASE f.htype = "optional"
        BY <4>2 DEF FillOK
      <4>3. QED BY <4>1, <4>2
    <3>3. QED BY <2>1, <3>1, <3>2
  <2>8. ASSUME NEW i \in 1..n
        PROVE  /\ Tagged(f, vals[i]) \in Seq(Seq(Bytes))
               /\ RecordReads(f, FlattenSeq(Tagged(f, vals[i])), Part(vals, i - 1), Part(vals, i))
    <3>1. i - 1 \in 0..(n - 1) /\ i - 1 \in 0..n /\ (i - 1) + 1 = i /\ n > 0
      BY <2>1
    <3>2. Append(Part(vals, i - 1), vals[i]) = Part(vals, i) /\ Len(Part(vals, i - 1)) = i - 1
      BY <2>2, <3>1
    <3>3. ValueOK(f, vals[i]) /\ ~Packed(f)
      BY <2>1, <2>5, <3>1 DEF FillOK
    <3>4. IF f.htype = "repeated" THEN Len(Part(vals, i - 1)) < f.max ELSE Part(vals, i - 1) = << >>
      <4>1. CASE f.htype = "repeated"
        <5>1. f.max \in Int
          BY DEF FieldOK
        <5>2. QED BY <4>1, <5>1, <2>1, <2>6, <3>2
      <4>2. CASE f.htype # "repeated"
        <5>1. i - 1 = 0
          BY <4>2, <2>1, <2>7
        <5>2. QED BY <4>2, <5>1, <2>2
      <4>3. QED BY <4>1, <4>2
    <3>5. /\ Tagged(f, vals[i]) \in Seq(Seq(Bytes))
          /\ RecordReads(f, FlattenSeq(Tagged(f, vals[i])), Part(vals, i - 1), Append(Part(vals, i - 1), vals[i]))
      BY <3>3, <3>4, ValueRecord
    <3>6. QED BY <3>2, <3>5, Zenon
  <2>9. \A i \in 1..n : FlattenSeq(Tagged(f, vals[i])) \in Seq(Bytes)
    BY <2>8, Zenon DEF RecordReads
  <2>10. /\ X \in [1..n -> Seq(Seq(Bytes))] /\ xs \in [1..n -> Seq(Bytes)]
         /\ \A i \in 1..n : X[i] = Tagged(f, vals[i]) /\ xs[i] = FlattenSeq(X[i])
    BY <2>8, <2>9, Zenon
  <2>11. v[0] = << >> /\ v[n] = vals /\ \A i \in 1..n : v[i - 1] = Part(vals, i - 1) /\ v[i] = Part(vals, i)
    BY <2>1, <2>2
  <2> HIDE DEF X, xs, v
  <2>12. X \in Seq(Seq(Seq(Bytes))) /\ xs \in Seq(Seq(Bytes)) /\ Len(X) = n /\ Len(xs) = n
    BY <2>1, <2>10, FunctionSeq, Zenon
  <2>13. FlattenSeq(FlattenSeq(X)) = FlattenSeq(xs)
    <3>1. Len(xs) = Len(X) /\ \A i \in 1..Len(X) : xs[i] = FlattenSeq(X[i])
      BY <2>10, <2>12, Zenon
    <3>2. QED BY <2>12, <3>1, FlattenFlatten
  <2>14. FlattenSeq(X) \in Seq(Seq(Bytes))
    BY <2>12, FlattenType
  <2>15. \A i \in 1..n : RecordReads(f, xs[i], v[i - 1], v[i])
    BY <2>8, <2>10, <2>11, Zenon
  <2>16. Records(f, vals, xs, v)
    BY <2>3, <2>4, <2>11, <2>12, <2>13, <2>15, Zenon DEF Records
  <2>17. QED BY <2>3, <2>14, <2>16
<1>3. QED BY <1>1, <1>2

-----------------------------------------------------------------------------
(* The loop of the decoder                                                 *)

\* Once round the loop, at a record of a field that the receiver has as its field y, or
\* does not have.
LEMMA RecordStep ==
  ASSUME WidthsOK, NEW f, FieldOK(f), NEW x, NEW before, NEW after, RecordReads(f, x, before, after),
         NEW b, NEW s \in Stream, Holds(b, s, x), s.left < Words(N32),
         NEW R, NEW M, NEW seen
  PROVE  /\ Find(R, f.tag) = {}
            => DecodeStep(b, R, At("loop", M, seen, s)) = At("loop", M, seen, Skip(s, Len(x)))
         /\ \A y \in Nat : Find(R, f.tag) = {y} /\ R[y] = f /\ M[y] = before
            => DecodeStep(b, R, At("loop", M, seen, s))
                 = At("loop", Store(R, M, y, after), seen \cup {y}, Skip(s, Len(x)))
<1> DEFINE d == At("loop", M, seen, s)
           found == Find(R, f.tag)
<1>1. x \in Seq(Bytes) /\ Len(x) >= 1
  BY Zenon DEF RecordReads
<1>2. PICK t, wt : FieldRead(b, s, f, t, wt, x, before, after)
  BY Zenon DEF RecordReads
<1> DEFINE r == Got(TRUE, 8 * f.tag + wt, t)
           g == Got(TRUE, after, Skip(s, Len(x)))
<1>3. /\ ReadVarint(b, s, N32) = r /\ wt \in 0..7 /\ ReadField(b, t, f, wt, before) = g
      /\ SkipField(b, t, wt).ok /\ SkipField(b, t, wt).s = Skip(s, Len(x))
  BY <1>2, Zenon DEF FieldRead
<1>4. r.val # 0 /\ r.val \div 8 = f.tag /\ r.val % 8 = wt
  <2>1. f.tag \in Nat \ {0}
    BY DEF FieldOK
  <2>2. 8 * f.tag + wt # 0
    BY <2>1, <1>3
  <2>3. (8 * f.tag + wt) \div 8 = f.tag /\ (8 * f.tag + wt) % 8 = wt
    <3>1. 8 \in Nat \ {0} /\ f.tag \in Int /\ wt \in 0..(8 - 1)
      BY <2>1, <1>3
    <3>2. QED BY <3>1, ModIs, Zenon
  <2>4. QED BY <2>2, <2>3 DEF Got
<1>5. s.left # 0
  <2>1. Len(x) <= s.left
    BY DEF Holds
  <2>2. s.left \in Nat
    BY DEF Stream
  <2>3. Len(x) \in Nat /\ Len(x) >= 1
    BY <1>1, LenProperties
  <2>4. QED BY <2>1, <2>2, <2>3
<1>6. r.ok /\ r.s = t /\ g.ok /\ g.val = after /\ g.s = Skip(s, Len(x))
  BY DEF Got
<1>7. d.pc = "loop" /\ d.m = M /\ d.seen = seen /\ d.s = s
  BY DEF At
<1> HIDE DEF d, r, g
<1>8. DecodeStep(b, R, d) = DecodeField(b, r, R, d, found)
  BY <1>3, <1>4, <1>5, <1>6, <1>7, Zenon DEF DecodeStep, DecodeFrom
<1> HIDE DEF found
<1>9. found = {} => DecodeField(b, r, R, d, found) = At("loop", M, seen, Skip(s, Len(x)))
  BY <1>3, <1>4, <1>6, <1>7, Zenon DEF DecodeField, Skipped
<1>10. ASSUME NEW y \in Nat, found = {y}, R[y] = f, M[y] = before
       PROVE  DecodeField(b, r, R, d, found) = At("loop", Store(R, M, y, after), seen \cup {y}, Skip(s, Len(x)))
  <2>1. Min(found) = y /\ found # {}
    <3>1. found \in SUBSET Nat /\ found # {}
      BY <1>10
    <3>2. Min(found) \in found
      BY <3>1, MinIs
    <3>3. QED BY <3>1, <3>2, <1>10
  <2>2. ReadField(b, r.s, R[Min(found)], r.val % 8, d.m[Min(found)]) = g
    BY <2>1, <1>3, <1>4, <1>6, <1>7, <1>10, Zenon
  <2>3. QED BY <2>1, <2>2, <1>6, <1>7, Zenon DEF DecodeField, FieldAt, Taken
<1>11. QED BY <1>8, <1>9, <1>10, Zenon DEF d, found

\* From d, the loop comes to e in k steps; in n steps at most.
Leads(b, R, d, e, k) ==
  \A p : \A i \in Nat : p[i] = d /\ (\A j \in (i + 1)..(i + k) : p[j] = DecodeStep(b, R, p[j - 1])) => p[i + k] = e
Reaches(b, R, d, e, n) == \E k \in 0..n : Leads(b, R, d, e, k)

\* No step leads nowhere else.
LEMMA ReachesNone == \A b, R, d : Reaches(b, R, d, d, 0)
<1> SUFFICES ASSUME NEW b, NEW R, NEW d PROVE Reaches(b, R, d, d, 0)
  OBVIOUS
<1>1. \A p : \A i \in Nat : p[i] = d => p[i + 0] = d
  OBVIOUS
<1>2. Leads(b, R, d, d, 0)
  BY <1>1, Zenon DEF Leads
<1>3. 0 \in 0..0
  OBVIOUS
<1>4. QED BY <1>2, <1>3, Zenon DEF Reaches

\* One step more, for which one byte at least was read.
LEMMA ReachesStep ==
  ASSUME NEW b, NEW R, NEW d, NEW e, NEW g, NEW n \in Nat, NEW m \in Nat, m >= 1,
         Reaches(b, R, d, e, n), g = DecodeStep(b, R, e)
  PROVE  Reaches(b, R, d, g, n + m)
<1>1. PICK k \in 0..n : Leads(b, R, d, e, k)
  BY Zenon DEF Reaches
<1>2. k \in Nat /\ k + 1 \in 0..(n + m)
  BY <1>1
<1>3. ASSUME NEW p, NEW i \in Nat, p[i] = d,
             \A j \in (i + 1)..(i + (k + 1)) : p[j] = DecodeStep(b, R, p[j - 1])
      PROVE  p[i + (k + 1)] = g
  <2>1. \A j \in (i + 1)..(i + k) : j \in (i + 1)..(i + (k + 1))
    BY <1>2
  <2>2. p[i + k] = e
    BY <2>1, <1>1, <1>3, Zenon DEF Leads
  <2>3. i + (k + 1) \in (i + 1)..(i + (k + 1)) /\ (i + (k + 1)) - 1 = i + k
    BY <1>2
  <2>4. p[i + (k + 1)] = DecodeStep(b, R, p[(i + (k + 1)) - 1])
    BY <2>3, <1>3, Zenon
  <2>5. QED BY <2>2, <2>3, <2>4, Zenon
<1>4. Leads(b, R, d, g, k + 1)
  BY <1>3, Zenon DEF Leads
<1>5. QED BY <1>2, <1>4, Zenon DEF Reaches

\* Steps, and then further steps.
LEMMA ReachesTrans ==
  ASSUME NEW b, NEW R, NEW d, NEW e, NEW g, NEW n \in Nat, NEW m \in Nat,
         Reaches(b, R, d, e, n), Reaches(b, R, e, g, m)
  PROVE  Reaches(b, R, d, g, n + m)
<1>1. PICK k \in 0..n : Leads(b, R, d, e, k)
  BY Zenon DEF Reaches
<1>2. PICK l \in 0..m : Leads(b, R, e, g, l)
  BY Zenon DEF Reaches
<1>3. k \in Nat /\ l \in Nat /\ k + l \in 0..(n + m)
  BY <1>1, <1>2
<1>4. ASSUME NEW p, NEW i \in Nat, p[i] = d,
             \A j \in (i + 1)..(i + (k + l)) : p[j] = DecodeStep(b, R, p[j - 1])
      PROVE  p[i + (k + l)] = g
  <2>1. \A j \in (i + 1)..(i + k) : j \in (i + 1)..(i + (k + l))
    BY <1>3
  <2>2. p[i + k] = e
    BY <2>1, <1>1, <1>4, Zenon DEF Leads
  <2>3. i + k \in Nat /\ (i + k) + l = i + (k + l) /\ \A j \in ((i + k) + 1)..((i + k) + l) : j \in (i + 1)..(i + (k + l))
    BY <1>3
  <2>4. p[(i + k) + l] = g
    BY <2>2, <2>3, <1>2, <1>4, Zenon DEF Leads
  <2>5. QED BY <2>3, <2>4, Zenon
<1>5. Leads(b, R, d, g, k + l)
  BY <1>4, Zenon DEF Leads
<1>6. QED BY <1>3, <1>5, Zenon DEF Reaches

\* At the end of its bytes the loop stands still, and that is its result.
LEMMA LoopEnds ==
  ASSUME NEW b, NEW R, NEW s \in Stream, NEW M, NEW e, e.s.left = 0,
         Reaches(b, R, At("loop", M, {}, s), e, s.left)
  PROVE  DecodeLoop(b, s, R, M) = e
<1>1. s.left \in Nat
  BY DEF Stream
<1>2. PICK p : LoopRun(p, b, R, s, M) /\ DecodeLoop(b, s, R, M) = p[s.left]
  BY <1>1, LoopIs
<1>3. p[0] = At("loop", M, {}, s) /\ \A i \in 1..s.left : p[i] = DecodeStep(b, R, p[i - 1])
  BY <1>2, Zenon DEF LoopRun
<1>4. PICK k \in 0..s.left : Leads(b, R, At("loop", M, {}, s), e, k)
  BY Zenon DEF Reaches
<1>5. k \in Nat
  BY <1>1, <1>4
<1>6. p[k] = e
  <2>1. 0 \in Nat /\ 0 + k = k /\ \A j \in (0 + 1)..(0 + k) : j \in 1..s.left
    BY <1>1, <1>4
  <2>2. p[0 + k] = e
    BY <2>1, <1>3, <1>4, Zenon DEF Leads
  <2>3. QED BY <2>1, <2>2, Zenon
<1>7. DecodeStep(b, R, e) = e
  BY Zenon DEF DecodeStep
<1>8. p[s.left] = e
  <2> DEFINE T == {i \in Nat : k + i <= s.left => p[k + i] = e}
  <2>1. 0 \in T
    BY <1>5, <1>6
  <2>2. ASSUME NEW i \in Nat, i \in T PROVE i + 1 \in T
    <3> SUFFICES ASSUME k + (i + 1) <= s.left PROVE p[k + (i + 1)] = e
      OBVIOUS
    <3>1. k + (i + 1) \in 1..s.left /\ (k + (i + 1)) - 1 = k + i /\ k + i <= s.left
      BY <1>1, <1>5
    <3>2. p[k + i] = e
      BY <3>1, <2>2
    <3>3. p[k + (i + 1)] = DecodeStep(b, R, e)
      BY <3>1, <3>2, <1>3
    <3>4. QED BY <3>3, <1>7, Zenon
  <2> HIDE DEF T
  <2>3. s.left - k \in Nat /\ k + (s.left - k) = s.left
    BY <1>1, <1>4
  <2>4. s.left - k \in T
    BY <2>1, <2>2, <2>3, NatInd
  <2>5. QED BY <2>3, <2>4 DEF T
<1>9. QED BY <1>2, <1>8, Zenon

\* A sequence of steps, each of a byte at least.
LEMMA StepsReach ==
  ASSUME NEW b, NEW R, NEW n \in Nat, NEW o \in [0..n -> Nat], NEW e, o[0] = 0,
         \A i \in 1..n : o[i - 1] < o[i] /\ e[i] = DecodeStep(b, R, e[i - 1])
  PROVE  Reaches(b, R, e[0], e[n], o[n])
<1> DEFINE T == {i \in Nat : i <= n => Reaches(b, R, e[0], e[i], o[i])}
<1>1. 0 \in T
  BY ReachesNone
<1>2. ASSUME NEW i \in Nat, i \in T PROVE i + 1 \in T
  <2> SUFFICES ASSUME i + 1 <= n PROVE Reaches(b, R, e[0], e[i + 1], o[i + 1])
    OBVIOUS
  <2>1. i + 1 \in 1..n /\ (i + 1) - 1 = i /\ i \in 0..n /\ i + 1 \in 0..n /\ i <= n
    OBVIOUS
  <2>2. Reaches(b, R, e[0], e[i], o[i])
    BY <1>2, <2>1
  <2>3. o[i] \in Nat /\ o[i + 1] \in Nat /\ o[i] < o[i + 1] /\ e[i + 1] = DecodeStep(b, R, e[i])
    BY <2>1
  <2> DEFINE m == o[i + 1] - o[i]
  <2>4. m \in Nat /\ m >= 1 /\ o[i] + m = o[i + 1]
    BY <2>3
  <2> HIDE DEF m
  <2>5. Reaches(b, R, e[0], e[i + 1], o[i] + m)
    BY <2>2, <2>3, <2>4, ReachesStep
  <2>6. QED BY <2>4, <2>5, Zenon
<1> HIDE DEF T
<1>3. n \in T
  BY <1>1, <1>2, NatInd
<1>4. QED BY <1>3 DEF T

\* The receiver has the field as its field y, that holds nothing yet; the others of its
\* oneof hold nothing.
Takes(f, R, M, y, vals) ==
  /\ y \in Nat /\ y \in DOMAIN R /\ Find(R, f.tag) = {y} /\ R[y] = f
  /\ M = [j \in DOMAIN R |-> M[j]] /\ M[y] = << >>
  /\ vals # << >> => \A j \in DOMAIN R : j # y /\ R[y].union # 0 /\ R[j].union = R[y].union => M[j] = << >>

\* The message once the field y has these values.
Filled(R, M, y, vals) == [j \in DOMAIN R |-> IF j = y THEN vals ELSE M[j]]

\* decode_field(): storing in one field changes that one; if it is in a oneof, the others of
\* the oneof are empty already.
LEMMA StoreFilled ==
  ASSUME NEW f, NEW R, NEW M, NEW y, NEW vals, Takes(f, R, M, y, vals)
  PROVE  /\ Filled(R, M, y, << >>) = M
         /\ \A u : Filled(R, M, y, u)[y] = u
         /\ vals # << >> => \A u, w : Store(R, Filled(R, M, y, u), y, w) = Filled(R, M, y, w)
<1>1. /\ y \in DOMAIN R /\ M = [j \in DOMAIN R |-> M[j]] /\ M[y] = << >>
      /\ vals # << >> => \A j \in DOMAIN R : j # y /\ R[y].union # 0 /\ R[j].union = R[y].union => M[j] = << >>
  BY DEF Takes
<1>2. Filled(R, M, y, << >>) = M
  <2>1. [j \in DOMAIN R |-> IF j = y THEN << >> ELSE M[j]] = [j \in DOMAIN R |-> M[j]]
    BY <1>1
  <2>2. QED BY <1>1, <2>1, Zenon DEF Filled
<1>3. \A u : Filled(R, M, y, u)[y] = u
  BY <1>1 DEF Filled
<1>4. ASSUME vals # << >>, NEW u, NEW w
      PROVE  Store(R, Filled(R, M, y, u), y, w) = Filled(R, M, y, w)
  <2>1. \A j \in DOMAIN R : j # y => Filled(R, M, y, u)[j] = M[j]
    BY DEF Filled
  <2>2. ASSUME NEW j \in DOMAIN R
        PROVE  (IF j = y THEN w
                ELSE IF R[y].union # 0 /\ R[j].union = R[y].union THEN << >> ELSE Filled(R, M, y, u)[j])
               = (IF j = y THEN w ELSE M[j])
    BY <1>1, <1>4, <2>1
  <2>3. QED BY <2>2 DEF Store, Filled
<1>5. QED BY <1>2, <1>3, <1>4

\* The records of a field: skipped one by one, or all of them stored.
LEMMA FieldReached ==
  ASSUME WidthsOK, SubGivesBack, NEW f, FieldOK(f), NEW vals, FillOK(f, vals), NEW x,
         x = FlattenSeq(EncodeField(f, vals)), NEW b, NEW s \in Stream, Holds(b, s, x),
         s.left < Words(N32), NEW R, NEW M, NEW seen
  PROVE  /\ Find(R, f.tag) = {}
            => Reaches(b, R, At("loop", M, seen, s), At("loop", M, seen, Skip(s, Len(x))), Len(x))
         /\ \A y : Takes(f, R, M, y, vals)
            => Reaches(b, R, At("loop", M, seen, s),
                       At("loop", Filled(R, M, y, vals), IF vals = << >> THEN seen ELSE seen \cup {y},
                          Skip(s, Len(x))), Len(x))
<1>1. PICK xs, v : Records(f, vals, xs, v)
  BY FieldRecords
<1> DEFINE n == Len(xs)
<1>2. /\ xs \in Seq(Seq(Bytes)) /\ v[0] = << >> /\ v[n] = vals /\ ((n = 0) <=> (vals = << >>))
      /\ \A i \in 1..n : RecordReads(f, xs[i], v[i - 1], v[i])
      /\ x = FlattenSeq(xs)
  BY <1>1, Zenon DEF Records
<1>3. n \in Nat
  BY <1>2, LenProperties
<1>4. PICK o : PiecesHeld(o, xs, b, s)
  BY <1>2, HoldsFlatten
<1>5. /\ o \in [0..n -> Nat] /\ o[0] = 0 /\ o[n] = Len(x) /\ o[n] <= s.left
      /\ \A i \in 1..n :
           /\ o[i] = o[i - 1] + Len(xs[i]) /\ o[i] <= o[n]
           /\ Skip(s, o[i - 1]) \in Stream /\ Skip(s, o[i - 1]).left = s.left - o[i - 1]
           /\ Holds(b, Skip(s, o[i - 1]), xs[i])
           /\ Skip(Skip(s, o[i - 1]), Len(xs[i])) = Skip(s, o[i])
  BY <1>2, <1>4, Zenon DEF PiecesHeld
<1> DEFINE t(i) == Skip(s, o[i])
<1>6. ASSUME NEW i \in 1..n
      PROVE  /\ i - 1 \in 0..n /\ i \in 0..n /\ o[i - 1] < o[i]
             /\ t(i - 1) \in Stream /\ Holds(b, t(i - 1), xs[i]) /\ t(i - 1).left < Words(N32)
             /\ Skip(t(i - 1), Len(xs[i])) = t(i) /\ RecordReads(f, xs[i], v[i - 1], v[i])
  <2>1. i - 1 \in 0..n /\ i \in 0..n
    BY <1>3
  <2>2. RecordReads(f, xs[i], v[i - 1], v[i])
    BY <1>2
  <2>3. xs[i] \in Seq(Bytes) /\ Len(xs[i]) >= 1
    BY <2>2, Zenon DEF RecordReads
  <2>4. Len(xs[i]) \in Nat
    BY <2>3, LenProperties
  <2>5. o[i - 1] \in Nat /\ o[i] \in Nat /\ o[i] = o[i - 1] + Len(xs[i])
    BY <2>1, <1>5
  <2>6. s.left \in Nat /\ Words(N32) \in Nat
    BY RangesAre DEF Stream
  <2>7. o[i - 1] < o[i]
    BY <2>3, <2>4, <2>5
  <2>8. /\ t(i - 1) \in Stream /\ Holds(b, t(i - 1), xs[i]) /\ t(i - 1).left = s.left - o[i - 1]
        /\ Skip(t(i - 1), Len(xs[i])) = t(i)
    BY <1>5, Zenon
  <2>9. t(i - 1).left < Words(N32)
    <3> HIDE DEF t
    <3>1. QED BY <2>5, <2>6, <2>8
  <2>10. QED BY <2>1, <2>2, <2>7, <2>8, <2>9, Zenon
<1>7. Skip(s, o[0]) = s
  BY <1>5 DEF Skip, Stream
<1> HIDE DEF t
<1>8. t(0) = s /\ t(n) = Skip(s, Len(x))
  BY <1>5, <1>7, Zenon DEF t
<1>9. ASSUME Find(R, f.tag) = {}
      PROVE  Reaches(b, R, At("loop", M, seen, s), At("loop", M, seen, Skip(s, Len(x))), Len(x))
  <2> DEFINE e == [i \in 0..n |-> At("loop", M, seen, t(i))]
  <2>1. ASSUME NEW i \in 1..n PROVE e[i] = DecodeStep(b, R, e[i - 1])
    <3>1. e[i - 1] = At("loop", M, seen, t(i - 1)) /\ e[i] = At("loop", M, seen, t(i))
      BY <1>6
    <3>2. DecodeStep(b, R, At("loop", M, seen, t(i - 1))) = At("loop", M, seen, Skip(t(i - 1), Len(xs[i])))
      BY <1>6, <1>9, RecordStep
    <3>3. QED BY <3>1, <3>2, <1>6, Zenon
  <2>2. e[0] = At("loop", M, seen, t(0)) /\ e[n] = At("loop", M, seen, t(n))
    BY <1>3
  <2> HIDE DEF e
  <2>3. Reaches(b, R, e[0], e[n], o[n])
    BY <1>3, <1>5, <1>6, <2>1, StepsReach
  <2>4. QED BY <2>2, <2>3, <1>5, <1>8, Zenon
<1>10. ASSUME NEW y, Takes(f, R, M, y, vals)
       PROVE  Reaches(b, R, At("loop", M, seen, s),
                      At("loop", Filled(R, M, y, vals), IF vals = << >> THEN seen ELSE seen \cup {y},
                         Skip(s, Len(x))), Len(x))
  <2> DEFINE e == [i \in 0..n |-> At("loop", Filled(R, M, y, v[i]), IF i = 0 THEN seen ELSE seen \cup {y}, t(i))]
  <2>1. /\ Filled(R, M, y, << >>) = M /\ (\A u : Filled(R, M, y, u)[y] = u)
        /\ vals # << >> => \A u, w : Store(R, Filled(R, M, y, u), y, w) = Filled(R, M, y, w)
    BY <1>10, StoreFilled
  <2>2. y \in Nat /\ Find(R, f.tag) = {y} /\ R[y] = f
    BY <1>10, Zenon DEF Takes
  <2>3. ASSUME NEW i \in 1..n PROVE e[i] = DecodeStep(b, R, e[i - 1])
    <3> DEFINE old == IF i - 1 = 0 THEN seen ELSE seen \cup {y}
               N == Filled(R, M, y, v[i - 1])
    <3>1. /\ e[i - 1] = At("loop", N, old, t(i - 1))
          /\ e[i] = At("loop", Filled(R, M, y, v[i]), seen \cup {y}, t(i))
      <4>1. i # 0
        BY <1>3
      <4>2. QED BY <4>1, <1>6
    <3>2. N[y] = v[i - 1]
      BY <2>1
    <3>3. Store(R, N, y, v[i]) = Filled(R, M, y, v[i])
      <4>1. n # 0
        BY <1>3
      <4>2. QED BY <4>1, <1>2, <2>1
    <3>4. old \cup {y} = seen \cup {y}
      OBVIOUS
    <3> HIDE DEF old, N, e
    <3>5. DecodeStep(b, R, At("loop", N, old, t(i - 1)))
            = At("loop", Store(R, N, y, v[i]), old \cup {y}, Skip(t(i - 1), Len(xs[i])))
      <4>1. /\ t(i - 1) \in Stream /\ Holds(b, t(i - 1), xs[i]) /\ t(i - 1).left < Words(N32)
            /\ RecordReads(f, xs[i], v[i - 1], v[i])
        BY <1>6
      <4>2. \A y_1 \in Nat : Find(R, f.tag) = {y_1} /\ R[y_1] = f /\ N[y_1] = v[i - 1]
              => DecodeStep(b, R, At("loop", N, old, t(i - 1)))
                   = At("loop", Store(R, N, y_1, v[i]), old \cup {y_1}, Skip(t(i - 1), Len(xs[i])))
        BY <4>1, RecordStep
      <4>3. QED BY <4>2, <2>2, <3>2, Zenon
    <3>6. QED BY <3>1, <3>3, <3>4, <3>5, <1>6, Zenon
  <2>4. /\ e[0] = At("loop", M, seen, t(0))
        /\ e[n] = At("loop", Filled(R, M, y, vals), IF vals = << >> THEN seen ELSE seen \cup {y}, t(n))
    BY <1>2, <1>3, <2>1
  <2> HIDE DEF e
  <2>5. Reaches(b, R, e[0], e[n], o[n])
    BY <1>3, <1>5, <1>6, <2>3, StepsReach
  <2>6. QED BY <2>4, <2>5, <1>5, <1>8, Zenon
<1>11. QED BY <1>9, <1>10

-----------------------------------------------------------------------------
(* Messages                                                                *)

\* A receiver that has fields R, some of those of the sender, W.
Receives(W, R, g) ==
  /\ DOMAIN R \subseteq Nat /\ g \in [DOMAIN R -> 1..Len(W)]
  /\ \A y \in DOMAIN R : R[y] = W[g[y]]
  /\ \A y, z \in DOMAIN R : g[y] = g[z] => y = z

\* The receiver finds the i-th field of the sender if it has it.
FoundIf(W, R, g, i) ==
  /\ (\A y \in DOMAIN R : g[y] # i) => Find(R, W[i].tag) = {}
  /\ \A y \in DOMAIN R : g[y] = i => Find(R, W[i].tag) = {y} /\ R[y] = W[i]

\* pb_field_iter_find(): a tag is found at one place, where the receiver has that field.
LEMMA FieldFound ==
  ASSUME NEW W, DescriptorOK(W), NEW R, NEW g, Receives(W, R, g)
  PROVE  \A i \in 1..Len(W) : FoundIf(W, R, g, i)
<1> SUFFICES ASSUME NEW i \in 1..Len(W) PROVE FoundIf(W, R, g, i)
  OBVIOUS
<1>1. DOMAIN W = 1..Len(W)
  BY DEF DescriptorOK, IsSeq
<1>2. \A j \in 1..Len(W) : W[j].tag = W[i].tag => j = i
  BY <1>1, Zenon DEF DescriptorOK
<1>3. /\ \A y \in DOMAIN R : g[y] \in 1..Len(W) /\ R[y] = W[g[y]]
      /\ \A y, z \in DOMAIN R : g[y] = g[z] => y = z
  BY DEF Receives
<1>4. \A y \in DOMAIN R : R[y].tag = W[i].tag <=> g[y] = i
  BY <1>2, <1>3, Zenon
<1>5. Find(R, W[i].tag) = {y \in DOMAIN R : g[y] = i}
  BY <1>4 DEF Find
<1>6. ASSUME NEW y \in DOMAIN R, g[y] = i PROVE {z \in DOMAIN R : g[z] = i} = {y}
  BY <1>3, <1>6
<1>7. QED BY <1>3, <1>5, <1>6 DEF FoundIf

\* What the receiver has after the first i fields of the message, what it has seen, and
\* where its loop stands.
After(R, m, g, i) == [y \in DOMAIN R |-> IF g[y] <= i THEN m[g[y]] ELSE << >>]
SeenAfter(R, m, g, i) == {y \in DOMAIN R : g[y] <= i /\ m[g[y]] # << >>}
Come(R, m, g, s, o, i) == At("loop", After(R, m, g, i), SeenAfter(R, m, g, i), Skip(s, o[i]))

\* A field that the receiver does not have changes nothing.
LEMMA AfterNone ==
  ASSUME NEW W, NEW R, NEW m, NEW g, Receives(W, R, g), NEW i \in Nat,
         \A y \in DOMAIN R : g[y] # i + 1
  PROVE  After(R, m, g, i + 1) = After(R, m, g, i) /\ SeenAfter(R, m, g, i + 1) = SeenAfter(R, m, g, i)
<1>1. \A y \in DOMAIN R : g[y] \in Int
  BY DEF Receives
<1>2. \A y \in DOMAIN R : g[y] <= i + 1 <=> g[y] <= i
  BY <1>1
<1>3. QED BY <1>2 DEF After, SeenAfter

\* The field y of the receiver takes the next values of the message.
OneMore(W, R, m, g, i, y) ==
  /\ Takes(W[i + 1], R, After(R, m, g, i), y, m[i + 1])
  /\ Filled(R, After(R, m, g, i), y, m[i + 1]) = After(R, m, g, i + 1)
  /\ (IF m[i + 1] = << >> THEN SeenAfter(R, m, g, i) ELSE SeenAfter(R, m, g, i) \cup {y})
       = SeenAfter(R, m, g, i + 1)

\* A field that it has is empty before it comes, and so are the others of its oneof.
LEMMA AfterOne ==
  ASSUME NEW W, NEW m, MessageOK(W, m), NEW R, NEW g, Receives(W, R, g)
  PROVE  \A i \in Nat : \A y \in DOMAIN R : i < Len(W) /\ g[y] = i + 1 => OneMore(W, R, m, g, i, y)
<1> SUFFICES ASSUME NEW i \in Nat, NEW y \in DOMAIN R, i < Len(W), g[y] = i + 1
             PROVE  OneMore(W, R, m, g, i, y)
  OBVIOUS
<1> DEFINE M == After(R, m, g, i)
<1>1. /\ DOMAIN R \subseteq Nat
      /\ \A z \in DOMAIN R : g[z] \in 1..Len(W) /\ R[z] = W[g[z]]
      /\ \A z, w \in DOMAIN R : g[z] = g[w] => z = w
  BY DEF Receives
<1>2. DescriptorOK(W) /\ DOMAIN W = 1..Len(W) /\ Len(W) \in Nat
  BY DEF MessageOK, DescriptorOK, IsSeq
<1>3. \A z \in DOMAIN R : z # y => g[z] # i + 1
  BY <1>1
<1>4. \A z \in DOMAIN R : g[z] \in Int
  BY <1>1
<1>5. /\ g[y] <= i + 1 /\ ~(g[y] <= i)
      /\ \A z \in DOMAIN R : z # y => (g[z] <= i + 1 <=> g[z] <= i)
  BY <1>3, <1>4
<1>6. i + 1 \in 1..Len(W)
  BY <1>2
<1>7. \A z \in DOMAIN R : M[z] = IF g[z] <= i THEN m[g[z]] ELSE << >>
  BY DEF After
<1>8. Takes(W[i + 1], R, M, y, m[i + 1])
  <2>1. M = [z \in DOMAIN R |-> M[z]]
    BY DEF After
  <2>2. M[y] = << >>
    BY <1>5, <1>7
  <2>3. Find(R, W[i + 1].tag) = {y} /\ R[y] = W[i + 1]
    <3>1. FoundIf(W, R, g, i + 1)
      BY <1>2, <1>6, FieldFound
    <3>2. QED BY <3>1, Zenon DEF FoundIf
  <2>4. ASSUME m[i + 1] # << >>, NEW z \in DOMAIN R, z # y, R[y].union # 0, R[z].union = R[y].union
        PROVE  M[z] = << >>
    <3>1. g[z] \in DOMAIN W /\ g[y] \in DOMAIN W /\ g[z] # g[y] /\ W[g[y]].union # 0 /\ W[g[y]].union = W[g[z]].union
      BY <1>1, <1>2, <2>4
    <3>2. << >> \in {m[g[y]], m[g[z]]}
      BY <3>1, Zenon DEF MessageOK
    <3>3. m[g[z]] = << >>
      BY <3>2, <2>4
    <3>4. QED BY <3>3, <1>7
  <2>5. y \in Nat
    BY <1>1
  <2> HIDE DEF M
  <2>6. QED BY <2>1, <2>2, <2>3, <2>4, <2>5, Zenon DEF Takes
<1>9. Filled(R, M, y, m[i + 1]) = After(R, m, g, i + 1)
  <2>1. ASSUME NEW z \in DOMAIN R
        PROVE  (IF z = y THEN m[i + 1] ELSE M[z]) = (IF g[z] <= i + 1 THEN m[g[z]] ELSE << >>)
    <3>1. CASE z = y
      BY <3>1, <1>5
    <3>2. CASE z # y
      BY <3>2, <1>5, <1>7, Zenon
    <3>3. QED BY <3>1, <3>2
  <2> HIDE DEF M
  <2>2. QED BY <2>1 DEF Filled, After
<1>10. (IF m[i + 1] = << >> THEN SeenAfter(R, m, g, i) ELSE SeenAfter(R, m, g, i) \cup {y})
         = SeenAfter(R, m, g, i + 1)
  <2>1. \A z : z \in SeenAfter(R, m, g, i) <=> z \in DOMAIN R /\ g[z] <= i /\ m[g[z]] # << >>
    BY DEF SeenAfter
  <2>2. \A z : z \in SeenAfter(R, m, g, i + 1) <=> z \in DOMAIN R /\ g[z] <= i + 1 /\ m[g[z]] # << >>
    BY DEF SeenAfter
  <2>3. \A z \in DOMAIN R : z = y => g[z] = i + 1
    OBVIOUS
  <2>4. CASE m[i + 1] = << >>
    <3>1. \A z : z \in SeenAfter(R, m, g, i) <=> z \in SeenAfter(R, m, g, i + 1)
      BY <2>1, <2>2, <2>3, <2>4, <1>5, Zenon
    <3>2. SeenAfter(R, m, g, i) = SeenAfter(R, m, g, i + 1)
      BY <3>1
    <3>3. QED BY <3>2, <2>4
  <2>5. CASE m[i + 1] # << >>
    <3>1. \A z : z \in SeenAfter(R, m, g, i) \/ z = y <=> z \in SeenAfter(R, m, g, i + 1)
      BY <2>1, <2>2, <2>3, <2>5, <1>5, Zenon
    <3>2. SeenAfter(R, m, g, i) \cup {y} = SeenAfter(R, m, g, i + 1)
      BY <3>1
    <3>3. QED BY <3>2, <2>5
  <2>6. QED BY <2>4, <2>5
<1>11. QED BY <1>8, <1>9, <1>10, Zenon DEF OneMore

\* The bytes of a message, one field after the other.
FieldBytes(W, m) == [i \in 1..Len(W) |-> FlattenSeq(EncodeField(W[i], m[i]))]

\* pb_encode(): the bytes of a message are those of its fields, one behind the other.
LEMMA EncodedIs ==
  ASSUME WidthsOK, SubGivesBack, NEW W, NEW m, MessageOK(W, m)
  PROVE  /\ FieldBytes(W, m) \in Seq(Seq(Bytes)) /\ Len(FieldBytes(W, m)) = Len(W)
         /\ Encoded(W, m) = FlattenSeq(FieldBytes(W, m)) /\ Encoded(W, m) \in Seq(Bytes)
<1> DEFINE n == Len(W)
           X == [i \in 1..n |-> EncodeField(W[i], m[i])]
           Y == FieldBytes(W, m)
<1>1. n \in Nat /\ DOMAIN W = 1..n
  BY DEF MessageOK, DescriptorOK, IsSeq
<1>2. \A i \in 1..n : FieldOK(W[i]) /\ FillOK(W[i], m[i])
  BY <1>1, Zenon DEF MessageOK, DescriptorOK
<1>3. \A i \in 1..n : EncodeField(W[i], m[i]) \in Seq(Seq(Bytes))
  BY <1>2, FieldRecords
<1>4. \A i \in 1..n : FlattenSeq(EncodeField(W[i], m[i])) \in Seq(Bytes)
  BY <1>3, FlattenType
<1>5. X \in [1..n -> Seq(Seq(Bytes))] /\ \A i \in 1..n : X[i] = EncodeField(W[i], m[i])
  BY <1>3, Zenon
<1>6. Y \in [1..n -> Seq(Bytes)] /\ \A i \in 1..n : Y[i] = FlattenSeq(EncodeField(W[i], m[i]))
  BY <1>4, Zenon DEF FieldBytes
<1>7. Encoded(W, m) = FlattenSeq(FlattenSeq(X))
  BY <1>1 DEF Encoded, EncodeMessage
<1> HIDE DEF X, Y
<1>8. X \in Seq(Seq(Seq(Bytes))) /\ Y \in Seq(Seq(Bytes)) /\ Len(X) = n /\ Len(Y) = n
  BY <1>1, <1>5, <1>6, FunctionSeq, Zenon
<1>9. FlattenSeq(FlattenSeq(X)) = FlattenSeq(Y)
  <2>1. Len(Y) = Len(X) /\ \A i \in 1..Len(X) : Y[i] = FlattenSeq(X[i])
    BY <1>5, <1>6, <1>8, Zenon
  <2>2. QED BY <1>8, <2>1, FlattenFlatten
<1>10. FlattenSeq(Y) \in Seq(Bytes)
  BY <1>8, FlattenType
<1>11. QED BY <1>7, <1>8, <1>9, <1>10, Zenon DEF Y

\* Whatever fields a receiver has, and wherever a stream holds the message, decoding gives
\* it the values of its fields, and uses up the bytes.
Received(W, m) ==
  \A R, g, b : \A s \in Stream :
    Receives(W, R, g) /\ Holds(b, s, Encoded(W, m)) /\ s.left = Len(Encoded(W, m))
    => Decoded(b, s, R, Defaults(R)) = Got(TRUE, [y \in DOMAIN R |-> m[g[y]]], Skip(s, s.left))

\* pb_decode() of what pb_encode() wrote, by a receiver that may know fewer fields.
LEMMA MessageReceived ==
  ASSUME WidthsOK, SubGivesBack, NEW W, NEW m, MessageOK(W, m)
  PROVE  Received(W, m)
<1> SUFFICES ASSUME NEW R, NEW g, Receives(W, R, g),
                    NEW b, NEW s \in Stream, Holds(b, s, Encoded(W, m)), s.left = Len(Encoded(W, m))
             PROVE  Decoded(b, s, R, Defaults(R)) = Got(TRUE, [y \in DOMAIN R |-> m[g[y]]], Skip(s, s.left))
  BY Zenon DEF Received
<1> DEFINE n == Len(W)
           Y == FieldBytes(W, m)
           x == Encoded(W, m)
<1>1. n \in Nat /\ DOMAIN W = 1..n /\ DescriptorOK(W)
  BY DEF MessageOK, DescriptorOK, IsSeq
<1>2. \A i \in 1..n : FieldOK(W[i]) /\ FillOK(W[i], m[i])
  BY <1>1, Zenon DEF MessageOK, DescriptorOK
<1>3. Y \in Seq(Seq(Bytes)) /\ Len(Y) = n /\ x = FlattenSeq(Y)
  BY EncodedIs
<1>4. s.left < Words(N32) /\ s.left \in Nat /\ s.pos \in Nat /\ Words(N32) \in Nat
  BY RangesAre DEF MessageOK, Stream
<1>5. \A i \in 1..n : Y[i] = FlattenSeq(EncodeField(W[i], m[i]))
  BY DEF FieldBytes
<1> HIDE DEF Y, x
<1>6. PICK o : PiecesHeld(o, Y, b, s)
  BY <1>3, HoldsFlatten DEF x
<1>7. /\ o \in [0..n -> Nat] /\ o[0] = 0 /\ o[n] = s.left
      /\ \A i \in 1..n :
           /\ o[i] = o[i - 1] + Len(Y[i]) /\ o[i] <= o[n]
           /\ Skip(s, o[i - 1]) \in Stream /\ Skip(s, o[i - 1]).left = s.left - o[i - 1]
           /\ Holds(b, Skip(s, o[i - 1]), Y[i])
           /\ Skip(Skip(s, o[i - 1]), Len(Y[i])) = Skip(s, o[i])
  BY <1>3, <1>6, Zenon DEF PiecesHeld, x
<1> DEFINE e(i) == Come(R, m, g, s, o, i)
<1>8. \A y \in DOMAIN R : g[y] \in 1..n
  BY DEF Receives
<1>9. At("loop", Defaults(R), {}, s) = e(0)
  <2>1. \A y \in DOMAIN R : ~(g[y] <= 0)
    BY <1>1, <1>8
  <2>2. Defaults(R) = After(R, m, g, 0) /\ SeenAfter(R, m, g, 0) = {}
    BY <2>1 DEF Defaults, After, SeenAfter
  <2>3. Skip(s, o[0]) = s
    BY <1>7 DEF Skip, Stream
  <2>4. QED BY <2>2, <2>3, Zenon DEF Come
<1>10. \A i \in 1..Len(W) : FoundIf(W, R, g, i)
  BY <1>1, FieldFound
<1>11. \A i \in Nat : \A y \in DOMAIN R : i < Len(W) /\ g[y] = i + 1 => OneMore(W, R, m, g, i, y)
  BY AfterOne
<1>12. ASSUME NEW i \in Nat, i < n PROVE Reaches(b, R, e(i), e(i + 1), Len(Y[i + 1]))
  <2> DEFINE t == Skip(s, o[i])
             M == After(R, m, g, i)
             seen == SeenAfter(R, m, g, i)
  <2>1. i + 1 \in 1..n /\ (i + 1) - 1 = i /\ i \in 0..n
    BY <1>1, <1>12
  <2>2. /\ t \in Stream /\ t.left = s.left - o[i] /\ Holds(b, t, Y[i + 1])
        /\ Skip(t, Len(Y[i + 1])) = Skip(s, o[i + 1])
    BY <2>1, <1>7
  <2>3. FieldOK(W[i + 1]) /\ FillOK(W[i + 1], m[i + 1]) /\ Y[i + 1] = FlattenSeq(EncodeField(W[i + 1], m[i + 1]))
    BY <2>1, <1>2, <1>5
  <2>4. t.left < Words(N32)
    <3>1. o[i] \in Nat
      BY <2>1, <1>7
    <3> HIDE DEF t
    <3>2. QED BY <3>1, <2>2, <1>4
  <2> HIDE DEF t, M, seen
  <2>5. /\ Find(R, W[i + 1].tag) = {}
           => Reaches(b, R, At("loop", M, seen, t), At("loop", M, seen, Skip(t, Len(Y[i + 1]))), Len(Y[i + 1]))
        /\ \A y : Takes(W[i + 1], R, M, y, m[i + 1])
           => Reaches(b, R, At("loop", M, seen, t),
                      At("loop", Filled(R, M, y, m[i + 1]), IF m[i + 1] = << >> THEN seen ELSE seen \cup {y},
                         Skip(t, Len(Y[i + 1]))), Len(Y[i + 1]))
    BY <2>2, <2>3, <2>4, FieldReached
  <2>6. e(i) = At("loop", M, seen, t)
    BY Zenon DEF Come, M, seen, t
  <2>7. e(i + 1) = At("loop", After(R, m, g, i + 1), SeenAfter(R, m, g, i + 1), Skip(t, Len(Y[i + 1])))
    BY <2>2, Zenon DEF Come
  <2>8. CASE \A y \in DOMAIN R : g[y] # i + 1
    <3>1. Find(R, W[i + 1].tag) = {}
      <4>1. FoundIf(W, R, g, i + 1)
        BY <2>1, <1>10
      <4>2. QED BY <4>1, <2>8, Zenon DEF FoundIf
    <3>2. After(R, m, g, i + 1) = M /\ SeenAfter(R, m, g, i + 1) = seen
      BY <2>8, AfterNone DEF M, seen
    <3>3. QED BY <3>1, <3>2, <2>5, <2>6, <2>7, Zenon
  <2>9. CASE \E y \in DOMAIN R : g[y] = i + 1
    <3>1. PICK y \in DOMAIN R : g[y] = i + 1
      BY <2>9
    <3>2. /\ Takes(W[i + 1], R, M, y, m[i + 1])
          /\ Filled(R, M, y, m[i + 1]) = After(R, m, g, i + 1)
          /\ (IF m[i + 1] = << >> THEN seen ELSE seen \cup {y}) = SeenAfter(R, m, g, i + 1)
      <4>1. OneMore(W, R, m, g, i, y)
        BY <3>1, <1>12, <1>11
      <4>2. QED BY <4>1, Zenon DEF OneMore, M, seen
    <3>3. QED BY <3>2, <2>5, <2>6, <2>7, Zenon
  <2>10. QED BY <2>8, <2>9
<1>13. Reaches(b, R, e(0), e(n), o[n])
  <2> DEFINE T == {i \in Nat : i <= n => Reaches(b, R, e(0), e(i), o[i])}
  <2> HIDE DEF e
  <2>1. 0 \in T
    BY <1>7, ReachesNone
  <2>2. ASSUME NEW i \in Nat, i \in T PROVE i + 1 \in T
    <3> SUFFICES ASSUME i + 1 <= n PROVE Reaches(b, R, e(0), e(i + 1), o[i + 1])
      OBVIOUS
    <3>1. i < n /\ i <= n /\ i \in 0..n /\ i + 1 \in 1..n /\ (i + 1) - 1 = i
      BY <1>1
    <3>2. Reaches(b, R, e(0), e(i), o[i]) /\ Reaches(b, R, e(i), e(i + 1), Len(Y[i + 1]))
      BY <2>2, <3>1, <1>12
    <3>3. o[i] \in Nat /\ o[i + 1] = o[i] + Len(Y[i + 1])
      BY <3>1, <1>7
    <3>4. Len(Y[i + 1]) \in Nat
      BY <3>1, <1>3, ElementOfSeq, LenProperties
    <3>5. Reaches(b, R, e(0), e(i + 1), o[i] + Len(Y[i + 1]))
      BY <3>2, <3>3, <3>4, ReachesTrans
    <3>6. QED BY <3>3, <3>5, Zenon
  <2> HIDE DEF T
  <2>3. n \in T
    BY <2>1, <2>2, <1>1, NatInd
  <2>4. QED BY <2>3, <1>1 DEF T
<1> DEFINE all == [y \in DOMAIN R |-> m[g[y]]]
           d == At("loop", all, SeenAfter(R, m, g, n), Skip(s, s.left))
<1>14. e(n) = d
  <2>1. \A y \in DOMAIN R : g[y] <= n
    BY <1>1, <1>8
  <2>2. After(R, m, g, n) = all
    BY <2>1 DEF After
  <2>3. QED BY <2>2, <1>7, Zenon DEF Come
<1>15. d.pc # "error" /\ d.m = all /\ d.seen = SeenAfter(R, m, g, n) /\ d.s = Skip(s, s.left) /\ d.s.left = 0
  <2>1. d.pc = "loop" /\ d.m = all /\ d.seen = SeenAfter(R, m, g, n) /\ d.s = Skip(s, s.left)
    BY DEF At
  <2>2. Skip(s, s.left).left = 0
    BY <1>4 DEF Skip
  <2>3. QED BY <2>1, <2>2
<1>16. \A y \in DOMAIN R : R[y].htype = "required" => y \in SeenAfter(R, m, g, n)
  <2> SUFFICES ASSUME NEW y \in DOMAIN R, R[y].htype = "required" PROVE y \in SeenAfter(R, m, g, n)
    OBVIOUS
  <2>1. g[y] \in 1..n /\ R[y] = W[g[y]] /\ g[y] <= n
    BY <1>1, <1>8 DEF Receives
  <2>2. FillOK(W[g[y]], m[g[y]])
    BY <2>1, <1>2
  <2>3. Len(m[g[y]]) = 1
    BY <2>1, <2>2 DEF FillOK
  <2>4. m[g[y]] # << >>
    <3>1. Len(<< >>) # 1
      OBVIOUS
    <3>2. QED BY <2>3, <3>1, Zenon
  <2>5. QED BY <2>1, <2>4 DEF SeenAfter
<1> HIDE DEF d, all, e
<1>17. DecodeLoop(b, s, R, Defaults(R)) = d
  <2>1. Reaches(b, R, At("loop", Defaults(R), {}, s), d, s.left)
    BY <1>7, <1>9, <1>13, <1>14, Zenon
  <2>2. QED BY <2>1, <1>15, LoopEnds
<1>18. Complete(R, d) = Got(TRUE, all, Skip(s, s.left))
  <2>1. (d.pc # "error" /\ \A y \in DOMAIN R : R[y].htype = "required" => y \in d.seen) = TRUE
    BY <1>15, <1>16
  <2>2. QED BY <2>1, <1>15, Zenon DEF Complete
<1>19. QED BY <1>17, <1>18, Zenon DEF Decoded, all

\* What this level promises.
GivesBack ==
  \A d, v : MessageOK(d, v) =>
    /\ Encoded(d, v) \in Seq(Bytes) /\ Len(Encoded(d, v)) < Words(N32)
    /\ \A b : \A s \in Stream :
         Holds(b, s, Encoded(d, v)) /\ s.left = Len(Encoded(d, v))
         => Decoded(b, s, d, Defaults(d)) = Got(TRUE, v, Skip(s, s.left))

\* Each level of a message is given back if the level below is: decoding what was encoded
\* consumes all the bytes and gives every field its values.
THEOREM MessageBack ==
  ASSUME WidthsOK, SubGivesBack
  PROVE  GivesBack
<1>1. ASSUME NEW d, NEW v, MessageOK(d, v), NEW b, NEW s \in Stream,
             Holds(b, s, Encoded(d, v)), s.left = Len(Encoded(d, v))
      PROVE  Decoded(b, s, d, Defaults(d)) = Got(TRUE, v, Skip(s, s.left))
  <2> DEFINE n == Len(d)
             g == [y \in 1..n |-> y]
             all == [y \in DOMAIN d |-> v[g[y]]]
  <2>1. n \in Nat /\ DOMAIN d = 1..n /\ v = [y \in 1..n |-> v[y]]
    BY <1>1 DEF MessageOK, DescriptorOK, IsSeq
  <2>2. Receives(d, d, g)
    BY <2>1 DEF Receives
  <2>3. all = v
    <3>1. all = [y \in 1..n |-> v[y]]
      BY <2>1
    <3>2. QED BY <2>1, <3>1, Zenon
  <2> HIDE DEF g
  <2>4. Decoded(b, s, d, Defaults(d)) = Got(TRUE, all, Skip(s, s.left))
    <3>1. Received(d, v)
      BY <1>1, MessageReceived
    <3>2. QED BY <1>1, <2>2, <3>1, Zenon DEF Received
  <2>5. QED BY <2>3, <2>4, Zenon
<1>2. \A d, v : MessageOK(d, v) => Len(Encoded(d, v)) < Words(N32)
  BY DEF MessageOK
<1>3. \A d, v : MessageOK(d, v) => Encoded(d, v) \in Seq(Bytes)
  BY EncodedIs
<1>4. QED BY <1>1, <1>2, <1>3, Zenon DEF GivesBack

\* A buffer that is read from its beginning.
LEMMA WholeBuffer ==
  ASSUME NEW S, NEW x \in Seq(S)
  PROVE  /\ IStream(x) \in Stream /\ IStream(x).left = Len(x) /\ Holds(x, IStream(x), x)
         /\ Skip(IStream(x), IStream(x).left).left = 0
<1> DEFINE s == IStream(x)
<1>1. Len(x) \in Nat
  BY LenProperties
<1>2. s \in Stream /\ s.pos = 0 /\ s.left = Len(x)
  BY <1>1 DEF IStream, Stream
<1> HIDE DEF s
<1>3. \A i \in 1..Len(x) : s.pos + i = i
  BY <1>1, <1>2
<1>4. Holds(x, s, x)
  <2>1. Len(x) <= s.left
    BY <1>1, <1>2
  <2>2. \A i \in 1..Len(x) : x[s.pos + i] = x[i]
    BY <1>3, Zenon
  <2>3. QED BY <2>1, <2>2, Zenon DEF Holds
<1>5. Skip(s, s.left).left = 0
  BY <1>1, <1>2 DEF Skip
<1>6. QED BY <1>2, <1>4, <1>5, Zenon DEF s

\* Whatever a message holds, decoding what was encoded gives it back.
THEOREM AlwaysGivenBack ==
  ASSUME WidthsOK, SubGivesBack, NEW fields, NEW m, MessageOK(fields, m)
  PROVE  GivenBack(fields, m)
<1> DEFINE x == Encoded(fields, m)
           s == IStream(x)
           r == Got(TRUE, m, Skip(s, s.left))
<1>1. GivesBack
  BY MessageBack
<1>2. /\ x \in Seq(Bytes)
      /\ \A b : \A t \in Stream : Holds(b, t, x) /\ t.left = Len(x)
           => Decoded(b, t, fields, Defaults(fields)) = Got(TRUE, m, Skip(t, t.left))
  BY <1>1, Zenon DEF GivesBack
<1> HIDE DEF x
<1>3. s \in Stream /\ s.left = Len(x) /\ Holds(x, s, x) /\ Skip(s, s.left).left = 0
  BY <1>2, WholeBuffer
<1>4. Decode(x, fields) = r
  BY <1>2, <1>3, Zenon DEF Decode
<1>5. r.ok /\ r.val = m /\ r.s.left = 0
  BY <1>3 DEF Got
<1>6. Gives(Decode(x, fields), m)
  BY <1>4, <1>5, Zenon DEF Gives
<1>7. QED BY <1>6 DEF GivenBack, x

\* A sequence without its i-th element.
Without(s, i) == SubSeq(s, 1, i - 1) \o SubSeq(s, i + 1, Len(s))

\* Where its y-th element was.
Shift(i, y) == IF y < i THEN y ELSE y + 1

\* It has the elements before the i-th and, one place earlier, those behind it.
LEMMA WithoutIs ==
  ASSUME NEW q, IsSeq(q), NEW i \in 1..Len(q)
  PROVE  Without(q, i) = [y \in 1..(Len(q) - 1) |-> q[Shift(i, y)]]
<1> DEFINE n == Len(q)
           S == {q[j] : j \in 1..n}
           a == SubSeq(q, 1, i - 1)
           c == SubSeq(q, i + 1, n)
           w == [y \in 1..(n - 1) |-> q[Shift(i, y)]]
<1>1. n \in Nat /\ q = [j \in 1..n |-> q[j]] /\ \A j \in 1..n : q[j] \in S
  BY DEF IsSeq
<1> HIDE DEF S
<1>2. q \in Seq(S) /\ n = Len(q)
  <2>1. q \in [1..n -> S]
    BY <1>1
  <2>2. QED BY <1>1, <2>1, FunctionSeq, Zenon
<1>3. i \in Nat /\ i >= 1 /\ i <= n
  BY <1>1
<1>4. a \in Seq(S) /\ Len(a) = i - 1 /\ \A j \in 1..(i - 1) : a[j] = q[j]
  <2>1. \A j \in 1..(i - 1) : q[j] \in S
    BY <1>1, <1>3
  <2>2. QED BY <1>1, <1>2, <1>3, <2>1
<1>5. c \in Seq(S) /\ Len(c) = n - i /\ \A j \in 1..(n - i) : c[j] = q[i + j]
  <2>1. \A j \in (i + 1)..n : q[j] \in S
    BY <1>1, <1>3
  <2>2. QED BY <1>1, <1>2, <1>3, <2>1
<1> HIDE DEF a, c
<1>6. /\ a \o c \in Seq(S) /\ Len(a \o c) = Len(a) + Len(c)
      /\ \A j \in 1..(Len(a) + Len(c)) : (a \o c)[j] = IF j <= Len(a) THEN a[j] ELSE c[j - Len(a)]
  BY <1>4, <1>5, ConcatProperties, Zenon
<1> DEFINE u == a \o c
<1> HIDE DEF u
<1>7. u \in Seq(S) /\ Len(u) = n - 1 /\ \A j \in 1..(n - 1) : u[j] = IF j <= i - 1 THEN a[j] ELSE c[j - (i - 1)]
  <2>1. Len(a) + Len(c) = n - 1
    BY <1>1, <1>3, <1>4, <1>5
  <2>2. QED BY <1>4, <1>6, <2>1, Zenon DEF u
<1>8. \A j \in 1..(n - 1) : u[j] = q[Shift(i, j)]
  <2> SUFFICES ASSUME NEW j \in 1..(n - 1) PROVE u[j] = q[Shift(i, j)]
    OBVIOUS
  <2>1. CASE j < i
    <3>1. j <= i - 1 /\ j \in 1..(i - 1) /\ Shift(i, j) = j
      BY <2>1, <1>1, <1>3 DEF Shift
    <3>2. QED BY <3>1, <1>4, <1>7, Zenon
  <2>2. CASE ~(j < i)
    <3>1. ~(j <= i - 1) /\ j - (i - 1) \in 1..(n - i) /\ i + (j - (i - 1)) = j + 1 /\ Shift(i, j) = j + 1
      BY <2>2, <1>1, <1>3 DEF Shift
    <3>2. QED BY <3>1, <1>5, <1>7, Zenon
  <2>3. QED BY <2>1, <2>2
<1>9. u = [j \in 1..(n - 1) |-> u[j]]
  BY <1>1, <1>3, <1>7
<1>10. u = w
  <2>1. [j \in 1..(n - 1) |-> u[j]] = w
    BY <1>8, Zenon
  <2>2. QED BY <1>9, <2>1, Zenon
<1>11. QED BY <1>10 DEF Without, u, a, c

\* A receiver without one of the fields finds all the others.
THEOREM AlwaysSkipped ==
  ASSUME WidthsOK, SubGivesBack, NEW fields, NEW m, MessageOK(fields, m)
  PROVE  SkippedBy(fields, m)
<1> DEFINE n == Len(fields)
           x == Encoded(fields, m)
           s == IStream(x)
<1>1. /\ IsSeq(fields) /\ IsSeq(m) /\ Len(m) = n /\ n \in Nat /\ DOMAIN fields = 1..n
  BY DEF MessageOK, DescriptorOK, IsSeq
<1>2. x \in Seq(Bytes)
  BY EncodedIs
<1> HIDE DEF x
<1>3. s \in Stream /\ s.left = Len(x) /\ Holds(x, s, x) /\ Skip(s, s.left).left = 0
  BY <1>2, WholeBuffer
<1> HIDE DEF s
<1>4. ASSUME NEW i \in 1..n
      PROVE  Gives(Decode(x, Without(fields, i)), Without(m, i))
  <2> DEFINE g == [y \in 1..(n - 1) |-> Shift(i, y)]
             R == Without(fields, i)
             all == [y \in DOMAIN R |-> m[g[y]]]
             r == Got(TRUE, all, Skip(s, s.left))
  <2>1. /\ R = [y \in 1..(n - 1) |-> fields[Shift(i, y)]]
        /\ Without(m, i) = [y \in 1..(n - 1) |-> m[Shift(i, y)]]
    BY <1>1, WithoutIs
  <2> HIDE DEF R
  <2>2. Receives(fields, R, g)
    <3>1. DOMAIN R = 1..(n - 1) /\ DOMAIN R \subseteq Nat
      BY <2>1, <1>1
    <3>2. \A y \in 1..(n - 1) : Shift(i, y) \in 1..n
      BY <1>1 DEF Shift
    <3>3. \A y, z \in 1..(n - 1) : Shift(i, y) = Shift(i, z) => y = z
      BY <1>1 DEF Shift
    <3>4. g \in [1..(n - 1) -> 1..n]
      BY <3>2
    <3>5. \A y \in 1..(n - 1) : g[y] = Shift(i, y) /\ R[y] = fields[Shift(i, y)]
      BY <2>1
    <3> HIDE DEF g
    <3>6. \A y \in DOMAIN R : R[y] = fields[g[y]]
      BY <3>1, <3>5, Zenon
    <3>7. \A y, z \in DOMAIN R : g[y] = g[z] => y = z
      <4>1. \A y, z \in 1..(n - 1) : g[y] = g[z] => y = z
        <5> SUFFICES ASSUME NEW y \in 1..(n - 1), NEW z \in 1..(n - 1), g[y] = g[z] PROVE y = z
          OBVIOUS
        <5>1. Shift(i, y) = Shift(i, z)
          BY <3>5, Zenon
        <5>2. QED BY <5>1, <3>3, Zenon
      <4>2. QED BY <3>1, <4>1, Zenon
    <3>8. QED BY <3>1, <3>4, <3>6, <3>7, Zenon DEF Receives
  <2>3. all = Without(m, i)
    <3>1. DOMAIN R = 1..(n - 1)
      BY <2>1
    <3>2. all = [y \in 1..(n - 1) |-> m[Shift(i, y)]]
      BY <3>1
    <3>3. QED BY <2>1, <3>2, Zenon
  <2> HIDE DEF g
  <2>4. Decoded(x, s, R, Defaults(R)) = r
    <3>1. Received(fields, m)
      BY MessageReceived
    <3>2. QED BY <1>3, <2>2, <3>1, Zenon DEF Received, x
  <2> HIDE DEF all
  <2>5. r.ok /\ r.val = all /\ r.s.left = 0
    BY <1>3 DEF Got
  <2>6. Decode(x, R) = r
    BY <2>4, Zenon DEF Decode, s
  <2> HIDE DEF r
  <2>7. Gives(r, all)
    BY <2>5, Zenon DEF Gives
  <2>8. QED BY <2>3, <2>6, <2>7, Zenon DEF R
<1>5. QED BY <1>1, <1>4 DEF SkippedBy, Without, x

-----------------------------------------------------------------------------
(* A message in pieces                                                     *)

\* A stream that has room takes the whole of a message.
LEMMA AllWritten ==
  ASSUME NEW S, NEW writes \in Seq(Seq(S)), NEW s, s.out \in Seq(S), s.max \in Nat,
         Len(s.out) + Len(FlattenSeq(writes)) <= s.max
  PROVE  WriteAll(s, writes) = [s EXCEPT !.out = @ \o FlattenSeq(writes), !.ok = TRUE]
<1> DEFINE n == Len(writes)
           K == {k \in 0..n : k = 0 \/ Len(s.out) + Len(FlattenSeq(SubSeq(writes, 1, k))) <= s.max}
<1>1. n \in Nat
  BY LenProperties
<1>2. SubSeq(writes, 1, n) = writes
  OBVIOUS
<1>3. n \in K
  <2>1. Len(s.out) + Len(FlattenSeq(SubSeq(writes, 1, n))) <= s.max
    BY <1>2, Zenon
  <2>2. n \in 0..n
    BY <1>1
  <2>3. QED BY <2>1, <2>2, Zenon
<1>4. K \subseteq 0..n
  OBVIOUS
<1>5. Fitting(s, writes) = Max(K)
  BY DEF Fitting
<1> HIDE DEF K
<1>6. Max(K) = n
  <2>1. \A k \in K : n >= k
    BY <1>1, <1>4
  <2>2. Max(K) = CHOOSE x \in K : \A y \in K : x >= y
    BY DEF Max
  <2>3. Max(K) \in K /\ \A y \in K : Max(K) >= y
    BY <1>3, <2>1, <2>2
  <2>4. Max(K) \in 0..n /\ Max(K) >= n
    BY <1>3, <1>4, <2>3
  <2>5. QED BY <1>1, <2>4
<1>7. (n = Len(writes)) = TRUE
  OBVIOUS
<1>8. QED BY <1>2, <1>5, <1>6, <1>7, Zenon DEF WriteAll, Written

\* One value of an array, encoded as a message of its own.
Single(f, v) == Encoded(<<f>>, <<<<v>>>>)

\* A message of one value has the bytes of its record.
LEMMA SingleIs ==
  ASSUME WidthsOK, SubGivesBack, NEW f, FieldOK(f), f.htype = "repeated", ~Packed(f), 0 < f.max,
         NEW v, ValueOK(f, v)
  PROVE  /\ EncodeMessage(<<f>>, <<<<v>>>>) = Tagged(f, v)
         /\ Tagged(f, v) \in Seq(Seq(Bytes)) /\ FlattenSeq(Tagged(f, v)) \in Seq(Bytes)
         /\ Single(f, v) = FlattenSeq(Tagged(f, v))
<1>1. Tagged(f, v) \in Seq(Seq(Bytes)) /\ RecordReads(f, FlattenSeq(Tagged(f, v)), << >>, Append(<< >>, v))
  <2>1. Len(<< >>) < f.max
    <3>1. Len(<< >>) = 0
      OBVIOUS
    <3>2. QED BY <3>1, Zenon
  <2>2. QED BY <2>1, ValueRecord
<1>2. FlattenSeq(Tagged(f, v)) \in Seq(Bytes)
  BY <1>1, Zenon DEF RecordReads
<1> DEFINE w == Tagged(f, v)
<1>3. EncodeField(f, <<v>>) = FlattenSeq([i \in DOMAIN <<v>> |-> Tagged(f, <<v>>[i])])
  BY DEF EncodeField
<1>4. [i \in DOMAIN <<v>> |-> Tagged(f, <<v>>[i])] = <<w>>
  OBVIOUS
<1> HIDE DEF w
<1>5. FlattenSeq(<<w>>) = w
  BY <1>1, FlattenOne DEF w
<1>6. EncodeField(f, <<v>>) = w
  BY <1>3, <1>4, <1>5, Zenon
<1>7. [i \in DOMAIN <<f>> |-> EncodeField(<<f>>[i], <<<<v>>>>[i])] = <<EncodeField(f, <<v>>)>>
  OBVIOUS
<1>8. EncodeMessage(<<f>>, <<<<v>>>>) = w
  BY <1>5, <1>6, <1>7, Zenon DEF EncodeMessage
<1>9. QED BY <1>1, <1>2, <1>8, Zenon DEF Single, Encoded, w

\* The values of an array, each encoded as a message behind the one before it, are the
\* bytes of one message with all of them.
LEMMA OneByOne ==
  ASSUME WidthsOK, SubGivesBack, NEW f, f.htype = "repeated", ~Packed(f), NEW vals,
         MessageOK(<<f>>, <<vals>>)
  PROVE  /\ IsSeq(vals) /\ \A i \in 1..Len(vals) : FieldOK(f) /\ ValueOK(f, vals[i]) /\ 0 < f.max
         /\ [i \in 1..Len(vals) |-> Single(f, vals[i])] \in Seq(Seq(Bytes))
         /\ Len([i \in 1..Len(vals) |-> Single(f, vals[i])]) = Len(vals)
         /\ Encoded(<<f>>, <<vals>>) = FlattenSeq([i \in 1..Len(vals) |-> Single(f, vals[i])])
<1> DEFINE n == Len(vals)
           X == [i \in 1..n |-> Tagged(f, vals[i])]
           Y == [i \in 1..n |-> Single(f, vals[i])]
<1>1. FieldOK(f) /\ FillOK(f, vals)
  <2> DEFINE W == <<f>>
             m == <<vals>>
  <2>1. 1 \in DOMAIN W /\ W[1] = f /\ m[1] = vals
    OBVIOUS
  <2> HIDE DEF W, m
  <2>2. FieldOK(W[1]) /\ FillOK(W[1], m[1])
    BY <2>1, Zenon DEF MessageOK, DescriptorOK, W, m
  <2>3. QED BY <2>1, <2>2, Zenon
<1>2. IsSeq(vals) /\ n \in Nat /\ n <= f.max /\ DOMAIN vals = 1..n /\ f.max \in Int
  BY <1>1 DEF FillOK, IsSeq, FieldOK
<1>3. \A i \in 1..n : ValueOK(f, vals[i]) /\ 0 < f.max
  BY <1>1, <1>2 DEF FillOK
<1>4. \A i \in 1..n : /\ Tagged(f, vals[i]) \in Seq(Seq(Bytes)) /\ Single(f, vals[i]) \in Seq(Bytes)
                      /\ Single(f, vals[i]) = FlattenSeq(Tagged(f, vals[i]))
  BY <1>1, <1>3, SingleIs
<1>5. EncodeField(f, vals) = FlattenSeq(X)
  BY <1>2 DEF EncodeField
<1>6. X \in [1..n -> Seq(Seq(Bytes))] /\ Y \in [1..n -> Seq(Bytes)]
  BY <1>4, Zenon
<1>7. \A i \in 1..n : Y[i] = FlattenSeq(X[i])
  BY <1>4, Zenon
<1> HIDE DEF X, Y
<1>8. X \in Seq(Seq(Seq(Bytes))) /\ Y \in Seq(Seq(Bytes)) /\ Len(X) = n /\ Len(Y) = n
  BY <1>2, <1>6, FunctionSeq, Zenon
<1>9. FlattenSeq(FlattenSeq(X)) = FlattenSeq(Y)
  <2>1. Len(Y) = Len(X) /\ \A i \in 1..Len(X) : Y[i] = FlattenSeq(X[i])
    BY <1>7, <1>8, Zenon
  <2>2. QED BY <1>8, <2>1, FlattenFlatten
<1>10. EncodeMessage(<<f>>, <<vals>>) = FlattenSeq(X)
  <2> DEFINE w == EncodeField(f, vals)
  <2>1. [i \in DOMAIN <<f>> |-> EncodeField(<<f>>[i], <<vals>>[i])] = <<w>>
    OBVIOUS
  <2>2. w \in Seq(Seq(Bytes))
    BY <1>5, <1>8, FlattenType
  <2> HIDE DEF w
  <2>3. FlattenSeq(<<w>>) = w
    BY <2>2, FlattenOne
  <2>4. QED BY <2>1, <2>3, <1>5, Zenon DEF EncodeMessage, w
<1>11. Encoded(<<f>>, <<vals>>) = FlattenSeq(Y)
  BY <1>9, <1>10, Zenon DEF Encoded
<1>12. QED BY <1>1, <1>2, <1>3, <1>8, <1>11, Zenon DEF Y
=============================================================================
