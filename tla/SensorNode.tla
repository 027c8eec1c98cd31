----------------------------- MODULE SensorNode -----------------------------
(***************************************************************************)
(* The reports of the node on their way to the application: the readings   *)
(* (SensorReports), their protobuf encoding in the send buffer (Nanopb),   *)
(* and what an application that knows sensor.proto decodes of what arrives.*)
(***************************************************************************)
EXTENDS SensorReports

CONSTANTS
  Byte, Digit, Bits, N32, N64,  \* see Nanopb
  BufferSize,             \* bytes in the send buffer
  Descriptors,            \* what other programs use nanopb for: descriptors,
  Messages(_)             \* and messages of each

VARIABLE
  other       \* another message between programs that use nanopb, if any

messagesVars == <<reportsVars, other>>

-----------------------------------------------------------------------------
(* Messages of the sensors, and those of others, have submessages without  *)
(* submessages.                                                            *)

NoBytes(fields, m) == <<>>
NoMessage(b, s, fields, before) == [ok |-> FALSE, val |-> before, s |-> s]
NoneOK(fields, m) == FALSE

Flat == INSTANCE Nanopb_proof WITH SubBytes <- NoBytes, SubDecoded <- NoMessage, SubOK <- NoneOK
Pb == INSTANCE Nanopb_proof WITH SubBytes <- Flat!Encoded, SubDecoded <- Flat!Decoded, SubOK <- Flat!MessageOK

ASSUME MessagesAssumption ==
  /\ Pb!WidthsOK
  /\ BufferSize \in Nat
  /\ \A fields \in Descriptors : \A m \in Messages(fields) : Pb!MessageOK(fields, m)

-----------------------------------------------------------------------------
(* sensor.pb.c                                                             *)

Field(tag, ltype, htype, size, sub) ==
  [tag |-> tag, ltype |-> ltype, htype |-> htype, size |-> size, max |-> 8, sub |-> sub, union |-> 0]

SensorReadingFields ==
  <<Field(1, "uvarint", "optional", N32, <<>>), Field(2, "uvarint", "optional", N32, <<>>)>>
  \o [i \in 1..5 |-> Field(2 + i, "svarint", "optional", N32, <<>>)]
  \o [i \in 1..5 |-> Field(7 + i, "svarint", "optional", N64, <<>>)]

NodeMessageFields == <<Field(1, "submessage", "repeated", 0, SensorReadingFields)>>

-----------------------------------------------------------------------------
(* The message on its way                                                  *)

\* updateAliveSendBuffer() and the other update...SendBuffer(): each reading is a
\* message of its own behind the ones before it; the size is set by those that
\* could be encoded.
Extended(b, s) == [stream |-> s, size |-> IF s.ok THEN Len(s.out) ELSE b.size]
Contents(b) == SubSeq(b.stream.out, 1, b.size)
SendBuffer(readings) ==
  LET Add(b, reading) == Extended(b, Pb!Encode(b.stream, NodeMessageFields, <<<<reading>>>>))
      b[i \in 0..Len(readings)] == IF i = 0 THEN [stream |-> Pb!OStream(BufferSize), size |-> 0]
                                   ELSE Add(b[i - 1], readings[i])
  IN  Contents(b[Len(readings)])

\* What the application decodes of the one buffer there is.
Arrived(readings) ==
  CHOOSE r \in {Pb!Decode(bytes, NodeMessageFields) : bytes \in {SendBuffer(readings)}} : TRUE

-----------------------------------------------------------------------------
(* The node, and the messages of others                                    *)

\* The nodes' encoder and decoder are those of every program that uses nanopb,
\* with any descriptor.  A new node sees such a message pass.
OtherMessage ==
  /\ GaugeInit /\ ~powerlossSend /\ numTxRetries = 0 /\ sent = <<>> /\ other = <<>>
  /\ \E fields \in Descriptors : \E m \in Messages(fields) : other' = <<fields, m>>
  /\ UNCHANGED reportsVars

MessagesInit == ReportsInit /\ other = <<>>

MessagesNext == (ReportsNext /\ other' = <<>>) \/ OtherMessage

MessagesSpec == MessagesInit /\ [][MessagesNext]_messagesVars

-----------------------------------------------------------------------------
(* Whatever a message of any descriptor holds, decoding what was encoded   *)
(* gives it back, and uses up the bytes.                                   *)
RoundTrip == other # <<>> => Pb!GivenBack(other[1], other[2])

(* A receiver that does not know a field of a message, because its         *)
(* descriptor is older, skips that field and finds all the others.         *)
UnknownSkipped == other # <<>> => Pb!SkippedBy(other[1], other[2])
=============================================================================
