------------------------------- MODULE WanHal -------------------------------
(***************************************************************************)
(* The SodaqWAN firmware: loop() calls Hal::Update(), which polls the      *)
(* devices, and Hal::CheckAndAct(), which sends a message if the debounced *)
(* switch has changed, if the magnetic field has jumped, and if it is time *)
(* for an alive message.  There are no interrupts: nothing is polled while *)
(* sendMessage() sends, waits and tries again.                             *)
(*                                                                         *)
(* Time is in ticks, and millis() wraps around at Wrap.  The driver of the *)
(* radio module waits twice for each message, for the module to accept the *)
(* command and for the outcome: it reads lines until millis() has reached  *)
(* the end it computed.  That end may be beyond the wrap, and a read may    *)
(* pass over it.  The module answers at any time, or never.  The read of a  *)
(* compass that does not answer has no limit at all.                       *)
(***************************************************************************)
EXTENDS Integers, Sequences

CONSTANTS
  DebounceCount,   \* samples that make a switch's change (3)
  AliveInterval,   \* ticks between two alive messages (60 s)
  NumTxRetries,    \* NUM_TX_RETRIES (5)
  Wrap,            \* ticks until millis() is 0 again
  OkTimeout,       \* DEFAULT_TIMEOUT (0.12 s)
  ReceiveTimeout,  \* RECEIVE_TIMEOUT (60 s)
  ReadTimeout,     \* ticks until a read gives up that gets nothing (1 s)
  TimeoutDelay,    \* ticks the node sleeps after a Timeout (20 s)
  BusyDelay,       \* and after a Busy (2 s)
  Fields, Offset   \* values of a magnetic axis, and how far it may drift between polls (700)

ASSUME BoundsAssumption ==
  /\ DebounceCount \in Nat \ {0} /\ NumTxRetries \in Nat
  /\ OkTimeout \in Nat \ {0} /\ ReceiveTimeout \in Nat \ {0} /\ ReadTimeout \in Nat \ {0}
  /\ TimeoutDelay \in Nat /\ BusyDelay \in Nat /\ Offset \in Nat /\ Fields \subseteq Int
  /\ AliveInterval \in Nat \ {0} /\ Wrap \in Nat /\ Wrap > AliveInterval

VARIABLES
  pin,                  \* the switch
  counter, currentState, switchOldState,   \* microSwitch
  ax, hasMoved,         \* the field at the last poll
  clock, previousMillis, timePassed,       \* millis(), alive
  valid,                \* the gas gauge answered the last poll
  isHalInitialized, numTxRetries,
  pc,                   \* where loop() is
  caller,               \* the part of CheckAndAct() that is sending
  message,              \* the message being sent
  retCount, retVal,     \* of sendMessage()
  end,                  \* when the driver's wait is to end
  waited,               \* history: ticks since it began
  silence               \* history: ticks since the last attempt to send ended, with a radio

switch == <<counter, currentState, switchOldState>>
compass == <<ax, hasMoved>>
alive == <<previousMillis, timePassed>>
time == <<clock, silence, waited>>
sending == <<caller, message, retCount, retVal>>
wanVars ==
  <<pin, switch, compass, alive, time, valid, isHalInitialized, numTxRetries, pc, sending, end>>

Low == 0
High == 1
Abs(v) == IF v < 0 THEN -v ELSE v

\* sendMessage() makes an attempt, and the driver waits in it.
Waits == pc \in {"accept", "answer"}
Attempts == pc = "send" \/ Waits
Timeouts(wait) == IF wait = "accept" THEN OkTimeout ELSE ReceiveTimeout

\* The driver still waits when even a read that began within the limit is over.
Overdue == Waits /\ waited >= Timeouts(pc) + ReadTimeout

\* Time passes.  Silence is not counted further than it matters, and neither is a wait.
Passes(ticks) ==
  /\ clock' = (clock + ticks) % Wrap
  /\ silence' = IF ~isHalInitialized \/ Attempts THEN 0
                ELSE IF silence > AliveInterval + 1 THEN silence ELSE silence + ticks

-----------------------------------------------------------------------------
(* Polling                                                                 *)

\* Switch::Update(): up by a sample that differs, down by one that does not.
SwitchUpdate ==
  LET differs == pin # currentState
      count == IF differs THEN counter + 1 ELSE IF counter > 0 THEN counter - 1 ELSE 0
      stable == count >= DebounceCount
  IN  /\ counter' = IF stable THEN 0 ELSE count
      /\ currentState' = IF stable THEN pin ELSE currentState
      /\ UNCHANGED switchOldState

\* Variant of AliveUpdate: the end of the interval is computed, as the driver does it.
AliveUpdateAbsolute ==
  IF clock >= (previousMillis + AliveInterval) % Wrap
    THEN previousMillis' = clock /\ timePassed' = TRUE
    ELSE UNCHANGED alive

\* Alive::Update(): the difference is unsigned, so that it is right after a wrap.
AliveUpdate ==
  IF (clock - previousMillis) % Wrap >= AliveInterval
    THEN previousMillis' = clock /\ timePassed' = TRUE
    ELSE UNCHANGED alive

\* Hal::LSM303_Update(), on one axis of the three.
Lsm303Update ==
  \E field \in Fields :
    /\ hasMoved' = (hasMoved \/ Abs(field - ax) > Offset)
    /\ ax' = field

\* Hal::Update().  LTC::Update() is valid if every transfer was acknowledged; of
\* the HTU21DF what does not answer leaves -1, a number, so that it is always valid.
\* The compass is asked last but one, and may not answer.
Update ==
  /\ pc = "update"
  /\ SwitchUpdate /\ AliveUpdate
  /\ valid' \in BOOLEAN
  /\ \/ pc' = "switch" /\ Lsm303Update
     \/ pc' = "compass" /\ UNCHANGED compass
  /\ UNCHANGED <<pin, time, isHalInitialized, numTxRetries, sending, end>>

\* LSM303::readAcc() and readMag() wait for six bytes, with an io_timeout of 0 for no
\* limit.  The request for them is over: what it has not brought never comes.
AwaitCompass ==
  /\ pc = "compass"
  /\ Passes(1)
  /\ UNCHANGED <<pin, switch, compass, alive, waited, valid, isHalInitialized, numTxRetries, pc, sending, end>>

-----------------------------------------------------------------------------
(* Hal::CheckAndAct()                                                      *)

\* A reading: [id, value], or [id, error] if the sensor did not answer.
Reading(id, ok, value) == IF ok THEN <<id, "value", value>> ELSE <<id, "error", 1>>
SwitchMessage == <<Reading(1, TRUE, currentState)>>
MoveMessage == <<Reading(7, TRUE, 1)>>

\* The readings of an alive message: temperature and humidity, which never have
\* an error, the three of the gas gauge, and the retries if there were any.
Measured == 0
AliveMessage ==
  <<Reading(2, TRUE, Measured), Reading(3, TRUE, Measured)>>
  \o [i \in 1..3 |-> Reading(3 + i, valid, Measured)]
  \o (IF numTxRetries > 0 THEN <<Reading(8, TRUE, numTxRetries)>> ELSE <<>>)

\* sendMessage() begins.  Without a radio it returns true at once.
Send(m, from) ==
  /\ caller' = from /\ message' = m /\ retCount' = 0 /\ retVal' = TRUE
  /\ pc' = IF isHalInitialized THEN "send" ELSE "sent"
  /\ UNCHANGED <<pin, time, valid, isHalInitialized, numTxRetries, end>>

Pass(next) ==
  /\ pc' = next
  /\ UNCHANGED <<pin, switch, compass, alive, time, valid, isHalInitialized, numTxRetries, sending, end>>

\* microSwitch.isChanged() forgets the change it tells of.
CheckSwitch ==
  /\ pc = "switch"
  /\ \/ /\ currentState # switchOldState
        /\ switchOldState' = currentState
        /\ Send(SwitchMessage, "switch")
        /\ UNCHANGED <<counter, currentState, compass, alive>>
     \/ currentState = switchOldState /\ Pass("move")

CheckMoved ==
  /\ pc = "move"
  /\ \/ hasMoved /\ Send(MoveMessage, "move") /\ UNCHANGED <<switch, compass, alive>>
     \/ ~hasMoved /\ Pass("alive")

CheckAlive ==
  /\ pc = "alive"
  /\ \/ /\ timePassed /\ timePassed' = FALSE
        /\ Send(AliveMessage, "alive")
        /\ UNCHANGED <<switch, compass, previousMillis>>
     \/ ~timePassed /\ Pass("delay")

-----------------------------------------------------------------------------
(* Sodaq_RN2483::macTransmit(), and the loop of Hal::sendMessage() around  *)
(* it                                                                      *)

Codes == {"NoError", "NoResponse", "Timeout", "PayloadSizeError", "InternalError", "Busy",
          "NetworkFatalError", "NotConnected", "NoAcknowledgment"}

\* What lookupMacTransmitError() makes of a text, be it of an earlier answer.
ErrorCodes == Codes \ {"NoError", "Timeout"}

FatalCodes == {"InternalError", "NetworkFatalError", "NotConnected"}

Sleeps(code) ==
  IF code = "Timeout" THEN TimeoutDelay ELSE IF code = "Busy" THEN BusyDelay ELSE 0

\* Variant of Failed: a busy module does not count.
FailedNotBusy(code) == code \notin {"NoError", "Busy"}

Failed(code) == code # "NoError"

\* macTransmit() returns after so many ticks, and sendMessage()'s loop tries again or
\* ends.  An error called fatal does not end it: "The program will now halt" is
\* commented out, and a later success still returns false.
Return(code, ticks) ==
  /\ Passes(ticks + Sleeps(code))
  /\ LET failed == IF Failed(code) THEN retCount + 1 ELSE retCount
     IN  /\ retVal' = (retVal /\ code \notin FatalCodes /\ failed <= NumTxRetries)
         /\ IF code # "NoError" /\ failed <= NumTxRetries
              THEN /\ pc' = "send" /\ retCount' = failed
                   /\ UNCHANGED numTxRetries
              ELSE /\ pc' = "sent" /\ retCount' = 0
                   /\ numTxRetries' = IF failed > 0 THEN failed ELSE numTxRetries
  /\ end' = 0 /\ waited' = 0
  /\ UNCHANGED <<caller, message>>

WaitFor(wait, ticks) ==
  /\ pc' = wait
  /\ clock' = (clock + ticks) % Wrap /\ end' = (clock' + Timeouts(wait)) % Wrap
  /\ waited' = 0 /\ silence' = 0
  /\ UNCHANGED <<numTxRetries, sending>>

\* The command goes out, and the wait for its "ok" begins.
MacTransmit ==
  /\ pc = "send"
  /\ WaitFor("accept", 0)
  /\ UNCHANGED <<pin, switch, compass, alive, valid, isHalInitialized>>

\* readLn() gets nothing before the read gives up.
ReadNothing ==
  /\ Waits /\ clock < end
  /\ Passes(ReadTimeout)
  /\ waited' = IF Overdue THEN waited ELSE waited + ReadTimeout
  /\ UNCHANGED <<pin, switch, compass, alive, valid, isHalInitialized, numTxRetries, pc, sending, end>>

\* A line comes: "ok", and the wait for the outcome begins; or what is an outcome.
ReadAnswer ==
  /\ Waits /\ clock < end
  /\ \E ticks \in 0..ReadTimeout :
       \/ pc = "accept" /\ WaitFor("answer", ticks)
       \/ pc = "accept" /\ \E code \in ErrorCodes : Return(code, ticks)
       \/ pc = "answer" /\ \E code \in Codes \ {"Timeout"} : Return(code, ticks)
  /\ UNCHANGED <<pin, switch, compass, alive, valid, isHalInitialized>>

\* while (millis() < timeout) is over, or is not entered because the sum wrapped.
WaitOver ==
  /\ Waits /\ clock >= end
  /\ \/ pc = "accept" /\ \E code \in ErrorCodes : Return(code, 0)
     \/ pc = "answer" /\ Return("Timeout", 0)
  /\ UNCHANGED <<pin, switch, compass, alive, valid, isHalInitialized>>

-----------------------------------------------------------------------------
\* Back in CheckAndAct(): alive.setCurrentTime() puts off the alive message, but
\* not one whose time has passed already; only an alive message that was sent
\* resets the retries, those that it took itself included.
Sent ==
  /\ pc = "sent"
  /\ \/ /\ caller = "switch" /\ pc' = "move"
        /\ previousMillis' = clock
        /\ UNCHANGED <<hasMoved, numTxRetries>>
     \/ /\ caller = "move" /\ pc' = "alive"
        /\ hasMoved' = FALSE
        /\ previousMillis' = clock
        /\ UNCHANGED numTxRetries
     \/ /\ caller = "alive" /\ pc' = "delay"
        /\ numTxRetries' = IF retVal THEN 0 ELSE numTxRetries
        /\ UNCHANGED <<hasMoved, previousMillis>>
  /\ caller' = "none" /\ message' = <<>> /\ retCount' = 0 /\ retVal' = TRUE
  /\ UNCHANGED <<pin, switch, ax, timePassed, time, valid, isHalInitialized, end>>

-----------------------------------------------------------------------------
\* delay(10): many of them are a tick.
Delay ==
  /\ pc = "delay" /\ pc' = "update"
  /\ \E ticks \in {0, 1} : Passes(ticks)
  /\ UNCHANGED <<pin, switch, compass, alive, waited, valid, isHalInitialized, numTxRetries, sending, end>>

\* The switch moves or bounces at any time.
MoveSwitch ==
  /\ pin' = High - pin
  /\ UNCHANGED <<switch, compass, alive, time, valid, isHalInitialized, numTxRetries, pc, sending, end>>

\* setup(): initABP() succeeds or not, and is not tried again.
WanInit ==
  /\ pin \in {Low, High}
  /\ counter = 0 /\ currentState = Low /\ switchOldState = 0
  /\ ax = 0 /\ hasMoved = FALSE
  /\ clock = 0 /\ previousMillis = 0 /\ timePassed = FALSE /\ silence = 0
  /\ valid = FALSE /\ isHalInitialized \in BOOLEAN /\ numTxRetries = 0
  /\ pc = "update" /\ caller = "none" /\ message = <<>> /\ retCount = 0 /\ retVal = TRUE
  /\ end = 0 /\ waited = 0

Act == CheckSwitch \/ CheckMoved \/ CheckAlive
Attempt == MacTransmit \/ ReadNothing \/ ReadAnswer \/ WaitOver
Loop == Update \/ AwaitCompass \/ Act \/ Attempt \/ Sent \/ Delay
WanNext == Loop \/ MoveSwitch

\* The processor executes and time passes; nothing is asked of the switch, of the
\* module or of the compass.
WanSpec == WanInit /\ [][WanNext]_wanVars /\ WF_wanVars(Loop)

-----------------------------------------------------------------------------
(* From the end of an attempt to send, a node with a radio makes the next  *)
(* one within the interval and a pass of the loop, however long attempts    *)
(* took, also when millis() wrapped around in them, and however many switch *)
(* and move messages put the alive message off: unless the compass has     *)
(* stopped the loop.                                                       *)
NoSilence == isHalInitialized /\ pc # "compass" => silence <= AliveInterval + 1

(* A switch that stays where it is becomes the state a message tells of:   *)
(* polling is resumed whatever the attempts come to, with two exceptions.  *)
(* A compass that does not answer stops it for ever, and a read that       *)
(* passes over the wrap of millis() leaves the driver waiting for as long   *)
(* as the module is silent, until the clock comes round to the end.        *)
SwitchSettles ==
  \A s \in {Low, High} :
    pin = s ~> (switchOldState = s \/ pin # s \/ pc = "compass" \/ Overdue)
=============================================================================
