------------------------------- MODULE Ublox -------------------------------
(***************************************************************************)
(* The driver of the u-blox receiver: the byte parser of UBX frames, the   *)
(* three loops that read from the bus, and the conversation by which       *)
(* setGpsActive() sets the receiver up.                                    *)
(*                                                                         *)
(* A byte on its way is a place in a frame; the parser sees its value.     *)
(* Payloads are shorter than in the code, and so are the requests and the  *)
(* buffer.                                                                 *)
(***************************************************************************)
EXTENDS Integers, Sequences

CONSTANTS
  PvtPayload(_),  \* the payload of the NAV-PVT message in frame n
  PvtLength,      \* 84 and 92
  PrtPayload,     \* the receiver's port configuration
  Chunk,          \* 128, the most that is requested at once
  BusError,       \* 0xFFFF, what available() gives if the receiver does not answer
  BufferSize,     \* 256
  Piece,          \* how many bytes become ready at once
  MaxFrames,      \* bound on the frames
  MaxFaults       \* bound on the failures of the bus

ASSUME SizesAssumption ==
  /\ {Chunk, Piece} \subseteq Nat \ {0} /\ BusError \in Nat \ {0}
  /\ MaxFrames \in Nat /\ MaxFaults \in Nat /\ BufferSize \in 1..256
ASSUME PayloadsAssumption ==
  /\ {PvtLength, Len(PrtPayload)} \subseteq 1..BufferSize \cap 1..255
  /\ \A n \in 1..MaxFrames : PvtPayload(n) \in [1..PvtLength -> 0..255]
  /\ PrtPayload \in Seq(0..255)

VARIABLES
  parser,        \* state_, Id_, plLength_ and payLoad_ (whose buffer is buf), ck_a and ck_b
  delegate,      \* funcNavPvt is set
  stage,         \* "off", "enabled", "get", "set", "msg" (the call that waits), "running"
  bytes,         \* how many are still to be read by the loop under way
  found,         \* the variable of wait()
  line,          \* what the receiver sends: the bytes the parser has not been given yet,
  wire,          \*   so many of them brought by the request under way,
  beyond,        \*   and so many more that are of no frame
  avail,         \* how many the receiver has ready after these
  commands,      \* that the receiver has not answered
  pvtOn,         \* it sends NAV-PVT
  answers,       \* it answers on the bus
  frames,        \* messages sent, each in a frame
  taken,         \* history: what has been given to funcNavPvt
  swallowed,     \* history: frames that were received in wait(), or without a delegate
  cut,           \* history: frames of which bytes were thrown away
  padded,        \* history: a read has gone on beyond what was ready, in a frame
  faults

driver == <<parser, delegate, stage, bytes, wire, beyond, found>>
receiver == <<line, avail, commands, pvtOn, frames>>
seen == <<taken, swallowed, cut, padded>>
ubloxVars == <<driver, receiver, answers, seen, faults>>

-----------------------------------------------------------------------------
(* The parser                                                              *)

Sync1 == 181
Sync2 == 98
NavPvt == <<1, 7>>
CfgPrt == <<6, 0>>
Ack == <<5, 1>>
Acks == {Ack, <<5, 0>>}

Summed(p, c) == [p EXCEPT !.ckA = (@ + c) % 256, !.ckB = (@ + p.ckA + c) % 256]

\* Variant of Whole: the second byte of the checksum is not looked at.
WholeByOne(p, c) == p.state = 8

Whole(p, c) == p.ckB = c

\* The payload goes to the buffer, or if it is long to what follows it; that of an
\* acknowledgment goes to AckedId_, which nobody reads.
Stored(p, c) ==
  IF p.id \in Acks \/ Len(p.buf) = BufferSize THEN p ELSE [p EXCEPT !.buf = Append(@, c)]

\* process().  A frame that is received whole leaves state 8 for state 0.
Process(p, c) ==
  LET s == Summed(p, c)
  IN  CASE p.state = 0 -> IF c = Sync1 THEN [p EXCEPT !.state = 1] ELSE p
        [] p.state = 1 -> [p EXCEPT !.state = IF c = Sync2 THEN 2 ELSE 0]
        [] p.state = 2 -> [p EXCEPT !.state = 3, !.id = <<c, 0>>, !.ckA = c, !.ckB = c]
        [] p.state = 3 -> [s EXCEPT !.state = 4, !.id[2] = c]
        [] p.state = 4 -> [s EXCEPT !.state = 5, !.left = c]
        [] p.state = 5 ->
             LET n == p.left + 256 * c
             IN  IF p.id \in Acks
                   THEN [s EXCEPT !.state = 6, !.left = n]
                   ELSE [s EXCEPT !.state = 6, !.left = n, !.length = n, !.buf = <<>>]
        [] p.state = 6 ->
             [Stored(s, c) EXCEPT !.left = (@ - 1) % 65536, !.state = IF p.left = 1 THEN 7 ELSE 6]
        [] p.state = 7 -> [p EXCEPT !.state = IF c = p.ckA THEN 8 ELSE 0]
        [] p.state = 8 -> [p EXCEPT !.state = 0]

\* The frame of identity id is whole with the byte c.
Received(id, c) == parser.state = 8 /\ Whole(parser, c) /\ parser.id = id

Reset(p) == [p EXCEPT !.state = 0]

-----------------------------------------------------------------------------
(* The receiver, which is looked at between the loops that read: a loop    *)
(* knows at its start how many bytes it reads.                             *)

\* The Fletcher checksum over the first bytes of s: their sum and the sum of these sums.
Sums(s) ==
  LET Add(sum, c) == <<(sum[1] + c) % 256, (sum[2] + sum[1] + c) % 256>>
      sums[i \in 0..Len(s)] == IF i = 0 THEN <<0, 0>> ELSE Add(sums[i - 1], s[i])
  IN  sums

\* A message of class and number id, in its frame.
Message(id, payload) ==
  LET s == id \o <<Len(payload), 0>> \o payload
  IN  [id |-> id, bytes |-> <<Sync1, Sync2>> \o s \o Sums(s)[Len(s)]]

\* What the n-th message may be: the answers are the port configuration and the
\* acknowledgments of the other two commands.
Messages(n) ==
  {Message(NavPvt, PvtPayload(n)), Message(CfgPrt, PrtPayload),
   Message(Ack, <<6, 0>>), Message(Ack, <<6, 1>>)}

Reading == bytes > 0 \/ wire > 0 \/ beyond > 0

Puts(m) ==
  /\ Len(frames) < MaxFrames
  /\ frames' = Append(frames, m)
  /\ line' = line \o [i \in DOMAIN m.bytes |-> <<Len(frames) + 1, i>>]

\* It sends NAV-PVT messages by itself,
SendPvt ==
  /\ stage # "off" /\ ~Reading /\ pvtOn
  /\ Puts(Message(NavPvt, PvtPayload(Len(frames) + 1)))
  /\ UNCHANGED <<driver, avail, commands, pvtOn, answers, seen, faults>>

\* answers commands,
Answer ==
  /\ stage # "off" /\ ~Reading /\ commands # <<>>
  /\ Puts(CASE Head(commands) = "get" -> Message(CfgPrt, PrtPayload)
            [] Head(commands) = "set" -> Message(Ack, <<6, 0>>)
            [] Head(commands) = "msg" -> Message(Ack, <<6, 1>>))
  /\ commands' = Tail(commands)
  /\ pvtOn' = (pvtOn \/ Head(commands) = "msg")
  /\ UNCHANGED <<driver, avail, answers, seen, faults>>

\* and has more bytes ready.
Ready ==
  /\ stage # "off" /\ ~Reading /\ avail < Len(line)
  /\ avail' = IF avail + Piece < Len(line) THEN avail + Piece ELSE Len(line)
  /\ UNCHANGED <<driver, line, commands, pvtOn, frames, answers, seen, faults>>

BusFails ==
  /\ answers /\ faults < MaxFaults
  /\ answers' = FALSE /\ faults' = faults + 1
  /\ UNCHANGED <<driver, receiver, seen>>

BusRecovers ==
  /\ ~answers /\ answers' = TRUE
  /\ UNCHANGED <<driver, receiver, seen, faults>>

-----------------------------------------------------------------------------
(* The driver                                                              *)

Available == IF answers THEN avail ELSE BusError

Send(command) == commands' = IF answers THEN Append(commands, command) ELSE commands

Value(place) == frames[place[1]].bytes[place[2]]
FramesOf(s) == {s[i][1] : i \in DOMAIN s}
Padding == 255
Overwritten == 256

\* setGpsActive(true)
Enable ==
  /\ stage = "off" /\ stage' = "enabled"
  /\ parser' = Reset(parser)
  /\ UNCHANGED <<delegate, bytes, wire, beyond, found, receiver, answers, seen, faults>>

\* flush(), and the request of getPortConfigurationDDC().
Flush ==
  /\ stage = "enabled" /\ stage' = "get"
  /\ parser' = Reset(parser)
  /\ found' = FALSE
  /\ LET n == IF answers THEN avail ELSE 0
     IN  /\ line' = SubSeq(line, n + 1, Len(line)) /\ avail' = avail - n
         /\ cut' = cut \cup FramesOf(SubSeq(line, 1, n))
  /\ Send("get")
  /\ UNCHANGED <<delegate, bytes, wire, beyond, pvtOn, frames, answers, taken, swallowed, padded, faults>>

\* What follows the call under way: f tells whether the answer was found, p is the
\* parser.  setPortConfigurationDDC() writes its command into the receive buffer.
Return(f, p) ==
  CASE stage = "get" /\ f ->
         /\ stage' = "set" /\ Send("set") /\ UNCHANGED delegate
         /\ parser' = [p EXCEPT !.buf = [i \in DOMAIN @ |-> Overwritten]]
    [] stage = "set" ->
         stage' = "msg" /\ Send("msg") /\ UNCHANGED delegate /\ parser' = p
    [] stage = "msg" ->
         stage' = "running" /\ delegate' = TRUE /\ UNCHANGED commands /\ parser' = p
    [] OTHER ->
         stage' = "running" /\ UNCHANGED <<delegate, commands>> /\ parser' = p

\* wait() sees that bytes are there, or GetPeriodic() does.
Poll ==
  /\ stage \notin {"off", "enabled"} /\ ~Reading /\ Available # 0
  /\ bytes' = Available
  /\ UNCHANGED <<parser, delegate, stage, wire, beyond, found, receiver, answers, seen, faults>>

\* 50 ms have passed in wait().
TimeOut ==
  /\ stage \in {"get", "set", "msg"} /\ ~Reading /\ Available = 0
  /\ Return(FALSE, parser)
  /\ UNCHANGED <<bytes, wire, beyond, found, line, avail, pvtOn, frames, answers, seen, faults>>

\* Variant of LeftToRead: only full reads count.
LeftToReadFull(n) == IF n = Chunk THEN bytes - n ELSE bytes

LeftToRead(n) == bytes - n

\* A turn of the loop with a request of n bytes.  When there are no more, the
\* receiver sends 0xFF.  A request that it does not answer changes nothing.
Request ==
  /\ bytes > 0 /\ wire = 0 /\ beyond = 0 /\ answers
  /\ LET n == IF bytes >= Chunk THEN Chunk ELSE bytes
         here == IF avail < n THEN avail ELSE n
     IN  bytes' = LeftToRead(n) /\ wire' = here /\ beyond' = n - here /\ avail' = avail - here
  /\ UNCHANGED <<parser, delegate, stage, found, line, commands, pvtOn, frames, answers, seen, faults>>

\* Variant of Parsed: a frame has to be whole in one request.
ParsedAnew(c) ==
  [Process(parser, c) EXCEPT !.state = IF wire + beyond = 1 THEN 0 ELSE @]

Parsed(c) == Process(parser, c)

\* The parser is given the byte c of frame n, and what it has received is handed on.
Give(c, n) ==
  LET pvt == Received(NavPvt, c) /\ parser.length = PvtLength
      f == found \/ (Received(CfgPrt, c) /\ parser.length = Len(PrtPayload))
      last == bytes = 0 /\ wire + beyond = 1
  IN  /\ found' = (stage = "get" /\ f)
      /\ IF pvt /\ delegate /\ stage \in {"get", "running"}
           THEN taken' = Append(taken, [frame |-> n, buf |-> parser.buf]) /\ UNCHANGED swallowed
           ELSE swallowed' = (IF pvt THEN swallowed \cup {n} ELSE swallowed) /\ UNCHANGED taken
      /\ IF last THEN Return(found', Parsed(c))
                 ELSE parser' = Parsed(c) /\ UNCHANGED <<stage, delegate, commands>>

Read ==
  /\ \/ /\ wire > 0 /\ wire' = wire - 1 /\ line' = Tail(line)
        /\ Give(Value(Head(line)), Head(line)[1])
        /\ UNCHANGED <<beyond, padded>>
     \/ /\ wire = 0 /\ beyond > 0 /\ beyond' = beyond - 1
        /\ Give(Padding, 0)
        /\ padded' = (padded \/ parser.state # 0)
        /\ UNCHANGED <<wire, line>>
  /\ UNCHANGED <<bytes, avail, pvtOn, frames, answers, cut, faults>>

\* setGpsActive(false).  Without power the receiver forgets what it was to send, and
\* perhaps its settings.
Disable ==
  /\ stage = "running" /\ ~Reading
  /\ stage' = "off" /\ parser' = Reset(parser)
  /\ line' = <<>> /\ avail' = 0 /\ commands' = <<>> /\ pvtOn' \in {pvtOn, FALSE}
  /\ cut' = cut \cup FramesOf(line)
  /\ UNCHANGED <<delegate, bytes, wire, beyond, found, frames, answers, taken, swallowed, padded, faults>>

UbloxInit ==
  /\ parser = [state |-> 0, id |-> <<0, 0>>, left |-> 0, length |-> 0, buf |-> <<>>,
               ckA |-> 0, ckB |-> 0]
  /\ delegate = FALSE /\ stage = "off" /\ bytes = 0 /\ wire = 0 /\ beyond = 0 /\ found = FALSE
  /\ line = <<>> /\ avail = 0 /\ commands = <<>> /\ frames = <<>>
  /\ pvtOn \in BOOLEAN /\ answers = TRUE
  /\ taken = <<>> /\ swallowed = {} /\ cut = {} /\ padded = FALSE
  /\ faults = 0

UbloxNext ==
  \/ SendPvt \/ Answer \/ Ready \/ BusFails \/ BusRecovers
  \/ Enable \/ Flush \/ Poll \/ TimeOut \/ Request \/ Read \/ Disable

UbloxSpec == UbloxInit /\ [][UbloxNext]_ubloxVars

\* The bus answers again, and the processor executes.
UbloxFairSpec == UbloxSpec /\ WF_ubloxVars(BusRecovers) /\ WF_ubloxVars(Read) /\ SF_ubloxVars(Request)

-----------------------------------------------------------------------------
(* Properties                                                              *)

\* Behind its first two bytes no frame looks like the beginning of a frame.  (After
\* bytes were thrown away, the parser begins anywhere in a frame.)
NoInnerSync ==
  \A n \in 1..MaxFrames : \A m \in Messages(n) : \A i \in 3..(Len(m.bytes) - 1) :
    ~ (m.bytes[i] = Sync1 /\ m.bytes[i + 1] = Sync2)

(* However the bytes are spread over the reads, whatever is thrown away or *)
(* put in between: what the delegate is given are NAV-PVT messages that    *)
(* the receiver has sent, each once, in their order and unaltered, but for *)
(* the bytes of a message that had come in when setPortConfigurationDDC()  *)
(* wrote its command into the receive buffer.                              *)
TakenAsSent ==
  /\ \A i \in DOMAIN taken :
       /\ taken[i].frame \in DOMAIN frames /\ frames[taken[i].frame].id = NavPvt
       /\ \A j \in 1..PvtLength :
            taken[i].buf[j] \in {PvtPayload(taken[i].frame)[j], Overwritten}
  /\ \A i, j \in DOMAIN taken : i < j => taken[i].frame < taken[j].frame

\* The last byte of frame n looks like the beginning of a frame.
EndsInSync(n) == frames[n].bytes[Len(frames[n].bytes)] = Sync1

(* A NAV-PVT message that was read is given to the delegate, unless a      *)
(* wait() took it or there was none, or bytes of it were thrown away; or   *)
(* bytes of a frame before it were, and from that one on each frame ends   *)
(* in a byte that looks like the beginning of the next one.  (A read       *)
(* beyond the end in the middle of a frame can spoil any number of them.)  *)
NoneSkipped ==
  ~padded =>
    \A n \in DOMAIN frames :
      frames[n].id = NavPvt /\ n \notin FramesOf(line) =>
        \/ n \in cut \cup swallowed \/ \E i \in DOMAIN taken : taken[i].frame = n
        \/ \E m \in cut : m < n /\ \A k \in m..(n - 1) : EndsInSync(k)

(* A loop that reads comes to an end, if the bus works again and again.    *)
ReadingEnds == Reading ~> ~Reading
=============================================================================
