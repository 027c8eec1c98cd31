---------------------------- MODULE SensorReports ----------------------------
(***************************************************************************)
(* The reports of the sensors: what the gas gauge (GasGauge) and the       *)
(* HTU21DF give, the callbacks that turn it into readings, and when they   *)
(* are sent.  transmit() is here by its outcome; the module Uplink has its *)
(* steps.  What an application makes of the bytes is given by Arrives;     *)
(* SensorNode says what that is with the nodes' encoder and decoder.       *)
(***************************************************************************)
EXTENDS GasGauge, Integers, Sequences

CONSTANTS
  RepeatCount,  \* params.getRepeatCount()
  Climates,     \* temperatures and humidities the HTU21DF may give
  Volts, Amps,  \* what the gas gauge may measure
  Thousand,     \* mAh are reported in thousandths
  Arrives(_)    \* what is decoded [ok, val] of the readings that were encoded

VARIABLES
  powerlossSend,  \* a loss of power has been reported
  numTxRetries,   \* attempts that failed in the latest report
  sent            \* the readings that have just been sent, if any

nodeVars == <<powerlossSend, numTxRetries>>
reportsVars == <<chargeVars, nodeVars, sent>>

-----------------------------------------------------------------------------
(* The readings                                                            *)

\* A SensorReading of sensor.proto: id, error, and its ten values.
Nothing == <<>>
SensorReading(id, error, value1) ==
  [i \in 1..12 |-> CASE i = 1 -> <<id>> [] i = 2 -> error [] i = 3 -> value1 [] OTHER -> <<>>]

Failed == -1

\* HTU21DF::Update(): what does not answer leaves -1, which is a number, so that
\* valid is always set, and -1 is sent as a measurement.  The parentheses of
\* getTemp() * 10 and of the cast are those of the code.
TempReading(temp) == SensorReading(2, Nothing, <<10 * temp>>)
HumReading(hum) == SensorReading(3, Nothing, <<hum>>)

\* Variant of GaugeReading: it does not ask for valid.
GaugeReadingAlways(id, value) == SensorReading(id, Nothing, <<value>>)

\* voltsensor_callback(), currentsensor_callback() and chargesensor_callback(),
\* after the Update() of this step.
GaugeReading(id, value) ==
  IF valid' THEN SensorReading(id, Nothing, <<value>>) ELSE SensorReading(id, <<1>>, Nothing)

RetriesReading == SensorReading(8, Nothing, <<numTxRetries>>)
SwitchReading(no, pin) == SensorReading(IF no = 1 THEN 1 ELSE 9, Nothing, <<pin>>)
MoveReading == SensorReading(7, Nothing, <<1>>)
PowerlossReading == SensorReading(10, Nothing, <<IF valid' THEN 0 ELSE 1>>)

-----------------------------------------------------------------------------
(* The reports                                                             *)

\* transmit(): sent after some retries, given up after the last, or not tried
\* because LoRa is not initialised.  Only what was sent commits the parameters.
Transmit(readings) ==
  \/ \E retries \in 0..RepeatCount :
       /\ numTxRetries' = retries
       /\ sent' = readings
       /\ Commit
  \/ /\ numTxRetries' \in {0, RepeatCount + 1}
     /\ sent' = <<>>
     /\ UNCHANGED flashOffset

\* What updateAliveSendBuffer(), updateSwitchSendBuffer(), updateMoveSendBuffer()
\* and updatePowerlossSendBuffer() put into the send buffer.
AliveMessage(climate, volt, amp) ==
  <<TempReading(climate[1]), HumReading(climate[2]), GaugeReading(4, volt), GaugeReading(5, amp),
    GaugeReading(6, Thousand * charge')>>
  \o (IF numTxRetries > 0 THEN <<RetriesReading>> ELSE <<>>)
SwitchMessage(no, pin) == <<SwitchReading(no, pin)>>
MoveMessage == <<MoveReading>>
PowerlossMessage == <<PowerlossReading>>

\* getAliveDataAndTransmit()
AliveReport ==
  \E failed \in {{}, {"charge"}, {"status"}, Reads} :
  \E climate \in Climates, volt \in Volts, amp \in Amps :
    /\ Update(failed)
    /\ Transmit(AliveMessage(climate, volt, amp))
    /\ UNCHANGED powerlossSend

\* getPowerlossDataAndTransmit(): only a change is reported.
PowerReport ==
  \E failed \in {{}, {"charge"}, {"status"}, Reads} :
    /\ Update(failed)
    /\ IF valid' = powerlossSend
         THEN /\ powerlossSend' = ~powerlossSend
              /\ Transmit(PowerlossMessage)
         ELSE /\ sent' = <<>>
              /\ UNCHANGED <<nodeVars, flashOffset>>

\* getSwitchDataAndTransmit() and getMoveDataAndTransmit(); resetting the timer
\* events is in RtcTimer.
EventReport ==
  /\ UNCHANGED <<chipVars, gaugeVars, historyVars, mishaps, powerlossSend>>
  /\ \/ \E no \in {1, 2}, pin \in {0, 1} : Transmit(SwitchMessage(no, pin))
     \/ Transmit(MoveMessage)

ReportsInit ==
  /\ GaugeInit
  /\ powerlossSend = FALSE /\ numTxRetries = 0 /\ sent = <<>>

ChipOrRestart ==
  /\ \/ Chip /\ UNCHANGED nodeVars
     \/ Restart /\ powerlossSend' = FALSE /\ numTxRetries' = 0
  /\ sent' = <<>>

ReportsNext == AliveReport \/ PowerReport \/ EventReport \/ ChipOrRestart

ReportsSpec == ReportsInit /\ [][ReportsNext]_reportsVars

-----------------------------------------------------------------------------
(* What the application decodes are the readings that were sent, and each  *)
(* sensor once, even if sending was tried again.                           *)
Carried(arrived) == arrived.ok /\ arrived.val = <<sent>>
EachOnce(readings) == \A i, j \in DOMAIN readings : i # j => readings[i][1] # readings[j][1]

(* Of the gas gauge a report tells either a value or an error: an error    *)
(* for all three of its readings if any of the bus transfers failed.       *)
ValueOrError(readings) ==
  \A i \in DOMAIN readings :
    readings[i][1] \in {<<4>>, <<5>>, <<6>>} =>
      IF valid THEN readings[i][2] = Nothing /\ readings[i][3] # Nothing
               ELSE readings[i][2] = <<1>> /\ readings[i][3] = Nothing

FaultsReported ==
  sent # <<>> =>
    \A arrived \in {Arrives(sent)} :
      Carried(arrived) /\ EachOnce(arrived.val[1]) /\ ValueOrError(arrived.val[1])

(* From the chip to the application: while nothing was taken for a loss of *)
(* power that was none, the charge the application decodes is all the      *)
(* charge the chip has counted, over however many batteries.               *)
ArrivedChargeIsTotal ==
  sent # <<>> /\ ~disturbed =>
    \A arrived \in {Arrives(sent)} : \A i \in DOMAIN arrived.val[1] :
      arrived.val[1][i][1] = <<6>> => arrived.val[1][i][3] \in {Nothing, <<Thousand * drawn>>}
=============================================================================
