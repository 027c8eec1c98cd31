---------------------------- MODULE Rn2483Link ----------------------------
(***************************************************************************)
(* The driver of the RN2483 radio module (SodaqOneDevice/Sodaq_RN2483.cpp) *)
(* and the serial line between the two.  A call of the driver prints       *)
(* commands and takes the next line that comes in, within a time limit, as *)
(* the answer.  A line carries no mark of the command it answers: if a     *)
(* limit is missed, the late answer is read as the answer to the next      *)
(* command.  Only wakeUp(), which closes and reopens the port, drops what  *)
(* has not been read.                                                      *)
(*                                                                         *)
(* The module is external: Scripts(c) are the answers the driver tells     *)
(* apart.  A payload is a sequence of bytes; two hex digits are one cell.  *)
(***************************************************************************)
EXTENDS Naturals, SequencesExt, FiniteSetsExt

CONSTANTS
  Downlinks,   \* the payloads the network may send down: sequences of bytes, not 0
  PayloadCap,  \* bytes that fit in receivedPayloadBuffer (16)
  RecvSize,    \* size of the buffer the caller gives to receive() (16)
  Channels,    \* channels of an RN2903 (72)
  DeviceTypes, \* what the module may say it is
  MaxMissed,   \* bound on the time limits missed between two wake-ups
  MaxCalls     \* bound on the calls between two wake-ups

ASSUME SizesAssumption ==
  /\ PayloadCap \in Nat \ {0} /\ RecvSize \in Nat \ {0}
  /\ Channels \in Nat /\ MaxMissed \in Nat /\ MaxCalls \in Nat
ASSUME DownlinksAssumption == \A d \in Downlinks : d \in Seq(Nat \ {0}) /\ d # <<>>
ASSUME DevicesAssumption == DeviceTypes \subseteq {"RN2483", "RN2903"}

Prefix(s, n) == SubSeq(s, 1, IF Len(s) < n THEN Len(s) ELSE n)

\* inputBuffer before the first line.
NoLine == ""

NoReturn == [call |-> "none", val |-> TRUE]

VARIABLES
  active,          \* setLoraActive(true) was the last one
  op,              \* the call in progress, or "none"
  todo,            \* what is left of it: commands to print, lines to wait for
  waiting,         \* a line is being waited for
  ret,             \* the last call, and whether it returned true or NoError
  code,            \* the last MacTransmitErrorCodes
  inputBuffer,     \* the last line read
  packetReceived,
  receivedPayloadBuffer,
  got,             \* what receive() gave last
  pending,         \* answers the module has still to send
  line,            \* lines sent and not read yet
  did,             \* history: the module did all that the call asked for
  heard,           \* history: the last downlink read, and
  taken,           \* whether receive() has given it to the caller
  missed, calls    \* time limits missed, calls made since the last wakeUp()

call == <<op, todo, waiting, ret>>
packet == <<packetReceived, receivedPayloadBuffer, heard>>
vars == <<active, call, code, inputBuffer, packet, got, pending, line,
          did, taken, missed, calls>>

-----------------------------------------------------------------------------
(* The calls                                                               *)

\* One command, and the text waited for.  If the answer is another one the
\* call ends there (must) or goes on as if nothing had happened.  A step
\* that only awaits waits for a second answer to the last command.
Step(cmd, want, must) == [cmd |-> cmd, want |-> want, must |-> must]
Set(must) == Step("set", "ok", must)
Transmission == <<Step("tx", "ok", TRUE), Step("await", "response", TRUE)>>
Activation ==
  <<Step("reset", "RN", TRUE), Set(TRUE), Set(TRUE), Set(TRUE), Set(TRUE),
    Step("join", "ok", TRUE), Step("await", "accepted", TRUE)>>

\* initOTA() and initABP(), setUpCntr() and setDownCntr(), save(), send(),
\* sendReqAck(), and the four queries, which take any line for the value.
Program ==
  [init |-> Activation,
   setCntr |-> <<Set(FALSE), Step("save", "ok", FALSE)>>,
   save |-> <<Step("save", "ok", TRUE)>>,
   get |-> <<Step("get", "any", TRUE)>>,
   send |-> Transmission,
   sendReqAck |-> <<Set(FALSE)>> \o Transmission]

Calls == DOMAIN Program
Transmits == {"send", "sendReqAck"}

\* setFsbChannels(), run by resetDevice() on an RN2903: one command per channel.
SetFsbChannels == [i \in 1..Channels |-> Step("ch", "ok", FALSE)]

-----------------------------------------------------------------------------
(* The module                                                              *)

\* Variant of ErrorTable: an answer to a transmission is missing.
ShortTable ==
  [t \in {"invalid_param", "not_joined", "no_free_ch", "busy"} |-> "Busy"]

\* The strings lookupMacTransmitError() knows, and their codes.
ErrorTable ==
  [invalid_param |-> "InternalError", not_joined |-> "NotConnected",
   no_free_ch |-> "Busy", silent |-> "Busy",
   frame_counter_err_rejoin_needed |-> "NetworkFatalError", busy |-> "Busy",
   mac_paused |-> "InternalError", invalid_data_len |-> "PayloadSizeError",
   mac_err |-> "NoAcknowledgment"]

\* Its answers to a command.  The errors of the table stand for one another,
\* up to their codes.
Refusals == {"invalid_param", "busy"}
Scripts(cmd) ==
  CASE cmd = "reset" -> {<<t>> : t \in DeviceTypes}
    [] cmd = "get" -> {<<"value">>}
    [] cmd = "join" -> {<<"ok", "accepted">>, <<"ok", "denied">>, <<"not_joined">>}
    [] cmd = "tx" -> {<<"ok", r>> : r \in {"mac_tx_ok", "mac_rx", "mac_err"}} \cup
                     {<<r>> : r \in Refusals}
    [] OTHER -> {<<"ok">>, <<"invalid_param">>}
Done(cmd, script) == Last(script) \in DeviceTypes \cup
  {"value", "accepted", "mac_tx_ok", "mac_rx"} \cup (IF cmd = "tx" THEN {} ELSE {"ok"})

Payloads(text) == IF text = "mac_rx" THEN Downlinks ELSE {<<>>}

\* The module hands over the next line of an answer.
ModuleAnswers ==
  /\ pending # <<>>
  /\ \E d \in Payloads(Head(pending).text) :
       line' = Append(line, [Head(pending) EXCEPT !.data = d])
  /\ pending' = Tail(pending)
  /\ UNCHANGED <<active, call, code, inputBuffer, packet, got, did,
                 taken, missed, calls>>

-----------------------------------------------------------------------------
(* The driver                                                              *)

NothingToCome == line' = <<>> /\ pending' = <<>> /\ missed' = 0

\* Variant of WakeUp: the port stays open.
WakeUpKeeping ==
  /\ ~active /\ active' = TRUE
  /\ missed' = 0 /\ calls' = 0
  /\ UNCHANGED <<call, code, inputBuffer, packet, got, did, taken, line, pending>>

\* setLoraActive(true): wakeUp() ends and begins the port twice.
WakeUp ==
  /\ ~active /\ active' = TRUE
  /\ NothingToCome /\ calls' = 0
  /\ UNCHANGED <<call, code, inputBuffer, packet, got, did, taken>>

\* setLoraActive(false); transmit(), and sendReturn with it, is left.
Sleep ==
  /\ active /\ op = "none"
  /\ active' = FALSE
  /\ ret' = NoReturn /\ code' = "NoError"
  /\ UNCHANGED <<op, todo, waiting, inputBuffer, packet, got, pending, line,
                 did, taken, missed, calls>>

\* A call starts.  init() puts the module to sleep and wakes it up first.
Call(o) ==
  /\ op = "none"
  /\ active = (o # "init")
  /\ active' = TRUE
  /\ calls' = (IF active THEN calls ELSE 0) + 1 /\ calls' <= MaxCalls
  /\ op' = o
  /\ todo' = Program[o]
  /\ ret' = NoReturn
  /\ code' = "NoError"
  /\ did' = TRUE
  /\ IF o = "init" THEN NothingToCome ELSE UNCHANGED <<line, pending, missed>>
  /\ UNCHANGED <<waiting, inputBuffer, packet, got, taken>>

\* The next command goes out, and the module carries it out or not.  What init()
\* and sendReqAck() do not insist on they can do without; setUpCntr() and
\* setDownCntr() are for nothing else.
PrintCommand ==
  /\ todo # <<>> /\ ~waiting
  /\ waiting' = TRUE
  /\ LET s == Head(todo)
     IN  \E script \in Scripts(s.cmd) :
           /\ pending' = pending \o
                [i \in DOMAIN script |-> [text |-> script[i], data |-> <<>>]]
           /\ did' = (did /\ (s.must \/ op = "setCntr" => Done(s.cmd, script)))
  /\ UNCHANGED <<active, op, todo, ret, code, inputBuffer, packet, got, line,
                 taken, missed, calls>>

Finish(v) ==
  /\ op' = "none" /\ todo' = <<>> /\ waiting' = FALSE
  /\ ret' = [call |-> op, val |-> v]

GoOnWith(rest) ==
  IF rest = <<>> THEN Finish(TRUE)
  ELSE /\ todo' = rest
       /\ waiting' = (Head(rest).cmd = "await")
       /\ UNCHANGED <<op, ret>>

\* expectString() looks for a substring, and "ok" is one of "mac_tx_ok".
Matches(text, want) ==
  CASE want = "ok" -> text \in {"ok", "mac_tx_ok"}
    [] want = "RN" -> text \in DeviceTypes
    [] want = "any" -> TRUE
    [] OTHER -> text = want

\* lookupMacTransmitError().  The table has no end mark: a text it does not have
\* is looked for in whatever follows it on the stack.
LookupMacTransmitError(text) ==
  IF text = NoLine THEN "NoResponse"
  ELSE IF text \in DOMAIN ErrorTable THEN ErrorTable[text] ELSE "Overrun"

\* Variant of Disappointed: the second answer is waited for all the same.
DisappointedWaiting(s, text) == GoOnWith(Tail(todo)) /\ UNCHANGED code

\* The answer is not the one waited for, or there is none and inputBuffer holds
\* the line before.
Disappointed(s, text) ==
  IF s.must
    THEN Finish(FALSE) /\ code' = IF s.cmd = "tx" THEN LookupMacTransmitError(text) ELSE code
    ELSE GoOnWith(Tail(todo)) /\ UNCHANGED code

\* Variant of Acknowledged: packetReceived is not reset.
AcknowledgedKeeping(s, text) ==
  /\ GoOnWith(IF s.want = "RN" /\ text = "RN2903" THEN SetFsbChannels \o Tail(todo) ELSE Tail(todo))
  /\ UNCHANGED <<packet, code>>

\* It is: the next step.  macTransmit() then prepares for a new packet.
Acknowledged(s, text) ==
  /\ GoOnWith(IF s.want = "RN" /\ text = "RN2903" THEN SetFsbChannels \o Tail(todo) ELSE Tail(todo))
  /\ packetReceived' = (packetReceived /\ s.cmd # "tx")
  /\ UNCHANGED <<receivedPayloadBuffer, heard, code>>

\* onMacRX(): the payload and its termination character are copied, as far as
\* they fit.
OnMacRX(l) ==
  /\ receivedPayloadBuffer' =
       [i \in 1..PayloadCap |->
          IF i <= Len(l.data) THEN l.data[i]
          ELSE IF i = Len(l.data) + 1 THEN 0 ELSE receivedPayloadBuffer[i]]
  /\ packetReceived' = TRUE
  /\ heard' = l.data

\* The second line of a transmission.  One with a space in it is taken apart.
Response(l) ==
  LET ends == [mac_rx |-> "NoError", mac_tx_ok |-> "NoError",
               RN2483 |-> "InternalError", RN2903 |-> "InternalError"]
  IN  /\ code' = IF l.text \in DOMAIN ends THEN ends[l.text]
                 ELSE LookupMacTransmitError(l.text)
      /\ Finish(code' = "NoError")
      /\ IF l.text = "mac_rx" THEN OnMacRX(l) /\ taken' = FALSE
                              ELSE UNCHANGED <<packet, taken>>

ReadLine ==
  /\ waiting /\ line # <<>>
  /\ line' = Tail(line)
  /\ inputBuffer' = Head(line).text
  /\ LET s == Head(todo)
         text == Head(line).text
     IN  \/ s.want = "response" /\ Response(Head(line))
         \/ s.want # "response" /\ Matches(text, s.want)
            /\ Acknowledged(s, text) /\ UNCHANGED taken
         \/ s.want # "response" /\ ~Matches(text, s.want)
            /\ Disappointed(s, text) /\ UNCHANGED <<packet, taken>>
  /\ UNCHANGED <<active, got, pending, did, missed, calls>>

\* Nothing has come in for 120 ms, or 10 or 60 seconds.
TimeOut ==
  /\ waiting /\ line = <<>>
  /\ missed < MaxMissed
  /\ missed' = missed + 1
  /\ IF Head(todo).want = "response" THEN Finish(FALSE) /\ code' = "Timeout"
     ELSE Disappointed(Head(todo), inputBuffer)
  /\ UNCHANGED <<active, inputBuffer, packet, got, pending, line, did, taken,
                 calls>>

\* receive(): up to the first termination character or the end of a buffer.
\* transmit() calls it after a NoError.
Received ==
  LET room == Prefix(receivedPayloadBuffer, RecvSize)
      ends == {i \in DOMAIN room : room[i] = 0}
  IN  Prefix(room, IF ends = {} THEN Len(room) ELSE Min(ends) - 1)

Receive ==
  /\ active /\ ret.call \in Transmits /\ ret.val
  /\ ret' = NoReturn
  /\ got' = IF packetReceived THEN Received ELSE <<>>
  /\ taken' = (taken \/ packetReceived)
  /\ UNCHANGED <<active, op, todo, waiting, code, inputBuffer, packet, pending,
                 line, did, missed, calls>>

-----------------------------------------------------------------------------
Init ==
  /\ active = FALSE
  /\ op = "none" /\ todo = <<>> /\ waiting = FALSE /\ ret = NoReturn
  /\ code = "NoError" /\ inputBuffer = NoLine
  /\ packetReceived = FALSE /\ heard = <<>> /\ taken = TRUE /\ got = <<>>
  /\ receivedPayloadBuffer = [i \in 1..PayloadCap |-> 0]
  /\ pending = <<>> /\ line = <<>>
  /\ did = TRUE /\ missed = 0 /\ calls = 0

Next ==
  \/ \E o \in Calls : Call(o)
  \/ WakeUp \/ Sleep \/ PrintCommand \/ ReadLine \/ TimeOut \/ Receive
  \/ ModuleAnswers

Spec == Init /\ [][Next]_vars

\* The processor executes and the module answers; nothing forces a call.
FairSpec == Spec /\ WF_vars(PrintCommand \/ ReadLine \/ ModuleAnswers)

-----------------------------------------------------------------------------
(* Properties                                                              *)

TypeOK ==
  /\ active \in BOOLEAN /\ waiting \in BOOLEAN /\ packetReceived \in BOOLEAN
  /\ op \in Calls \cup {"none"}
  /\ op = "none" <=> todo = <<>>
  /\ waiting => todo # <<>>
  /\ ret.call \in Calls \cup {"none"} /\ ret.val \in BOOLEAN
  /\ code \in Range(ErrorTable) \cup {"NoError", "NoResponse", "Timeout", "Overrun"}
  /\ receivedPayloadBuffer \in [1..PayloadCap -> {0} \cup UNION {Range(d) : d \in Downlinks}]
  /\ missed \in 0..MaxMissed /\ calls \in 0..MaxCalls

\* The driver keeps DriverPromise: a call returns true exactly if the module has
\* done what it asked for, until a time limit is missed, and again after the
\* next wakeUp().
Promise == INSTANCE DriverPromise WITH
  Careless <- {"setCntr"}, Initial <- {"init"}, late <- missed > 0
PromiseKept == Promise!Spec

\* As long as no limit is missed, the search for an error code ends in the table.
NoTableOverrun == code = "Overrun" => missed > 0

\* Late answers or not, receive() gives each downlink once, and gives the
\* beginning of it as the network sent it, no byte of an earlier one.
DownlinkOnce ==
  [][Receive /\ got' # <<>> =>
       /\ ~taken
       /\ got' = Prefix(heard, IF RecvSize < PayloadCap THEN RecvSize ELSE PayloadCap)]_vars

\* Every call comes to its end if the module answers.
CallReturns == op # "none" ~> op = "none"

=============================================================================
