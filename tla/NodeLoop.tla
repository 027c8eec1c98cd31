------------------------------ MODULE NodeLoop ------------------------------
(***************************************************************************)
(* The main loop of the SodaqOneDevice sensor node and the interrupt       *)
(* handlers that feed it.                                                  *)
(*                                                                         *)
(* Handlers (switch edge, accelerometer, minute alarm, watchdog early      *)
(* warning) only raise a volatile flag.  loop() tests the flags one after  *)
(* the other, transmits a report for each and then clears the flag;        *)
(* systemSleep() closes the pass with interrupts masked, tests the flags   *)
(* again, unmasks and executes WFI.  An interrupt can be taken between any *)
(* two steps of the loop, except while they are masked.                    *)
(*                                                                         *)
(* transmit() is seen from outside here: it takes a while, it may or may   *)
(* not reach the network, it returns a Boolean and it may end in a reset.  *)
(* Module Uplink opens it.                                                 *)
(***************************************************************************)
EXTENDS Naturals

CONSTANTS
  NumSwitches,   \* micro switches wired to interrupt pins (two on the board)
  NumAccels,     \* accelerometer interrupt lines (two on the board)
  GpsEnabled,    \* params.getIsGpsEnabled()
  DbgEnabled,    \* params.getIsDbgEnabled()
  MaxRestarts    \* bound on the resets of the processor

ASSUME SwitchesAssumption == NumSwitches \in Nat \ {0}
ASSUME AccelsAssumption == NumAccels \in Nat
ASSUME ModeAssumption == GpsEnabled \in BOOLEAN /\ DbgEnabled \in BOOLEAN
ASSUME RestartsAssumption == MaxRestarts \in Nat

Switches == 1..NumSwitches

\* The interrupt sources; each has one flag.
Switch(s) == <<"switch", s>>
Accel(a) == <<"accel", a>>
Minute == <<"minute", 0>>
Wdt == <<"wdt", 0>>
SwitchSources == {Switch(s) : s \in Switches}
AccelSources == {Accel(a) : a \in 1..NumAccels}
Sources == SwitchSources \cup AccelSources \cup {Minute, Wdt}

VARIABLES
  pc,             \* where the processor is in setup(), loop() or systemSleep()
  cur,            \* the switch whose flag the pass has come to
  flag,           \* switch1Flag, switch2Flag, accel1Flag, ..., sodaq_wdt_flag
  irq,            \* interrupts pending in the controller
  msg,            \* the kind of report held in sendBuffer
  due,            \* a scheduled event of the RTCTimer has come due
  valid,          \* ltc.isValid(): at the last ltc.Update() the gas gauge answered,
                  \* which it does while the main power is there
  powerlossSend,  \* a power loss has been reported
  restarts,       \* resets so far
  dirty,          \* history: the switch moved since its pin was last sampled
  missed,         \* history: it moved when no later sample is owed for it
  fresh,          \* history: a handler ran since the pass began
  srvAlarm,       \* the last power report that reached the network
  alarmLost       \* history: the latest power report got lost

node == <<pc, cur, flag, irq, msg, due, valid, powerlossSend>>
history == <<dirty, missed, fresh>>
alarm == <<srvAlarm, alarmLost>>
vars == <<node, restarts, history, alarm>>

Labels == {"setup", "top", "switch", "readPin", "transmit", "clearSwitch",
           "accel", "clearAccel", "minute", "power", "timer", "clearMinute",
           "sleep", "masked", "wfi", "asleep"}
Kinds == {"none", "boot", "switch", "move", "power", "alive"}

TypeOK ==
  /\ pc \in Labels
  /\ cur \in 1..(NumSwitches + 1)
  /\ flag \in [Sources -> BOOLEAN]
  /\ irq \in SUBSET Sources
  /\ msg \in Kinds
  /\ due \in BOOLEAN /\ valid \in BOOLEAN /\ powerlossSend \in BOOLEAN
  /\ fresh \in BOOLEAN /\ srvAlarm \in BOOLEAN /\ alarmLost \in BOOLEAN
  /\ restarts \in 0..MaxRestarts
  /\ dirty \in [Switches -> BOOLEAN]
  /\ missed \in [Switches -> BOOLEAN]

\* Power on: the globals are zero.
Init ==
  /\ pc = "setup"
  /\ cur = 1
  /\ flag = [x \in Sources |-> FALSE]
  /\ irq = {}
  /\ msg = "none"
  /\ due = FALSE
  /\ valid = FALSE
  /\ powerlossSend = FALSE
  /\ fresh = FALSE
  /\ restarts = 0
  /\ dirty = [s \in Switches |-> FALSE]
  /\ missed = [s \in Switches |-> FALSE]
  /\ srvAlarm = FALSE
  /\ alarmLost = FALSE

-----------------------------------------------------------------------------
(* Interrupts                                                              *)

\* attachHandlers() and initRtc() run early in setup().
Attached == pc # "setup"
Masked == pc = "masked"

\* systemSleep() switches the watchdog off around the sleep.
WatchdogOn == pc \notin {"setup", "masked", "wfi", "asleep"}

\* Every handler does nothing but raise its flag.  Taken in WFI, it also ends
\* the sleep: systemSleep() re-enables the watchdog and loop() starts over.
Handler(x) ==
  /\ flag' = [flag EXCEPT ![x] = TRUE]
  /\ fresh' = TRUE
  /\ pc' = IF pc = "asleep" THEN "top" ELSE pc

\* A source fires: its handler runs at once, or the request stays pending
\* while interrupts are masked.
Fire(x) ==
  \/ /\ ~Attached
     /\ UNCHANGED <<flag, irq, pc, fresh>>
  \/ /\ Attached /\ ~Masked
     /\ Handler(x)
     /\ UNCHANGED irq
  \/ /\ Masked
     /\ irq' = irq \cup {x}
     /\ UNCHANGED <<flag, pc, fresh>>

\* A pending request is taken once interrupts are unmasked.
TakePending(x) ==
  /\ x \in irq
  /\ ~Masked
  /\ irq' = irq \ {x}
  /\ Handler(x)
  /\ UNCHANGED <<cur, msg, due, valid, powerlossSend, restarts,
                 dirty, missed, alarm>>

\* The switch is being reported: its pin has been sampled and its flag is
\* going to be cleared.
OwnReport(s) ==
  cur = s /\ (pc = "clearSwitch" \/ (pc = "transmit" /\ msg = "switch"))

MoveSwitch(s) ==
  /\ Fire(Switch(s))
  /\ dirty' = [dirty EXCEPT ![s] = TRUE]
  /\ missed' = [missed EXCEPT ![s] = @ \/ OwnReport(s) \/ ~Attached]
  /\ UNCHANGED <<cur, msg, due, valid, powerlossSend, restarts,
                 alarm>>

Quiet == UNCHANGED <<cur, msg, due, valid, powerlossSend,
                     restarts, dirty, missed, alarm>>

Shake == \E x \in AccelSources : Attached /\ Fire(x) /\ Quiet

MinuteAlarm == Attached /\ Fire(Minute) /\ Quiet

EarlyWarning == WatchdogOn /\ Fire(Wdt) /\ Quiet

-----------------------------------------------------------------------------
(* The surroundings                                                        *)

\* Time passes and an event of the RTCTimer comes due.
EventComesDue ==
  /\ Attached
  /\ due' = TRUE
  /\ UNCHANGED <<pc, cur, flag, irq, msg, valid, powerlossSend,
                 restarts, history, alarm>>

\* A watchdog reset, a brown-out or a power cycle, anywhere.  A report in the
\* air may have arrived or not; flags and powerlossSend are gone.
Restart ==
  /\ Attached
  /\ restarts < MaxRestarts
  /\ restarts' = restarts + 1
  /\ pc' = "setup"
  /\ cur' = 1
  /\ flag' = [x \in Sources |-> FALSE]
  /\ irq' = {}
  /\ msg' = "none"
  /\ due' = FALSE
  /\ valid' = FALSE
  /\ powerlossSend' = FALSE
  /\ fresh' = FALSE
  /\ missed' = dirty
  /\ alarmLost' = (alarmLost \/ powerlossSend \/ srvAlarm)
  /\ srvAlarm' \in {srvAlarm, IF pc = "transmit" /\ msg = "power"
                                THEN ~valid ELSE srvAlarm}
  /\ UNCHANGED dirty

-----------------------------------------------------------------------------
(* The processor                                                           *)

\* The processor reaches a label with nothing pending: an unmasked request is
\* taken before the next instruction.
At(label) == pc = label /\ irq = {}

Goto(label) == pc' = label

\* Hand sendBuffer to transmit().
Transmit(kind) == msg' = kind /\ Goto("transmit")

\* getDataAndTransmit(): in alive mode the report reads the gas gauge.
DataAndTransmit(kind) ==
  /\ Transmit(kind)
  /\ valid' \in IF GpsEnabled THEN {valid} ELSE BOOLEAN

\* setup() up to its closing getDataAndTransmit().
Setup ==
  /\ At("setup")
  /\ due' = FALSE
  /\ DataAndTransmit("boot")
  /\ UNCHANGED <<cur, flag, irq, powerlossSend, restarts,
                 history, alarm>>

\* Where loop() goes on when transmit() is back.
AfterTransmit ==
  [kind \in Kinds |->
     CASE kind = "switch" -> "clearSwitch"
       [] kind = "move" -> "clearAccel"
       [] kind = "power" -> "timer"
       [] kind = "alive" -> "clearMinute"
       [] OTHER -> "top"]

\* transmit() returns.  Its result and the arrival of the report are
\* independent: with LoRa down it returns true and sends nothing, an
\* unconfirmed report may be lost, a confirmed one may lose its answer.  An
\* over-the-air configuration rides on a report that arrived and resets the
\* timer events, and so does a switch or move report that returned true.
TransmitReturns ==
  /\ At("transmit")
  /\ \E delivered, ret, ota \in BOOLEAN :
       /\ ota => delivered
       /\ due' = (due /\ ~ota /\ ~(ret /\ msg \in {"switch", "move"}))
       /\ IF msg = "power"
            THEN /\ srvAlarm' = IF delivered THEN ~valid ELSE srvAlarm
                 /\ alarmLost' = ~delivered
            ELSE UNCHANGED alarm
  /\ Goto(AfterTransmit[msg])
  /\ msg' = "none"
  /\ UNCHANGED <<cur, flag, irq, valid, powerlossSend, restarts,
                 history>>

\* The top of loop(): a new pass.
LoopTop ==
  /\ At("top")
  /\ flag' = [flag EXCEPT ![Wdt] = FALSE]
  /\ fresh' = FALSE
  /\ cur' = 1
  /\ Goto(IF GpsEnabled THEN "minute" ELSE "switch")
  /\ UNCHANGED <<irq, msg, due, valid, powerlossSend, restarts,
                 dirty, missed, alarm>>

\* if (switchNFlag)
TestSwitch ==
  /\ At("switch")
  /\ Goto(IF cur > NumSwitches THEN "accel"
          ELSE IF flag[Switch(cur)] THEN "readPin" ELSE "switch")
  /\ cur' = IF cur <= NumSwitches /\ ~flag[Switch(cur)] THEN cur + 1 ELSE cur
  /\ UNCHANGED <<flag, irq, msg, due, valid, powerlossSend,
                 restarts, history, alarm>>

\* updateSwitchSendBuffer(): the encoding callback samples the pin.
ReadPin ==
  /\ At("readPin")
  /\ dirty' = [dirty EXCEPT ![cur] = FALSE]
  /\ missed' = [missed EXCEPT ![cur] = FALSE]
  /\ Transmit("switch")
  /\ UNCHANGED <<cur, flag, irq, due, valid, powerlossSend,
                 restarts, fresh, alarm>>

\* Variants of ClearSwitch: all switch flags are cleared; the tests are chained with
\* else, so that one report ends the switches' turn.
ClearSwitchAll ==
  /\ At("clearSwitch")
  /\ flag' = [x \in Sources |-> flag[x] /\ x \notin SwitchSources]
  /\ cur' = cur + 1
  /\ Goto("switch")
  /\ UNCHANGED <<irq, msg, due, valid, powerlossSend, restarts, history, alarm>>

ClearSwitchElse ==
  /\ At("clearSwitch")
  /\ flag' = [flag EXCEPT ![Switch(cur)] = FALSE]
  /\ Goto("accel")
  /\ UNCHANGED <<cur, irq, msg, due, valid, powerlossSend, restarts, history, alarm>>

\* switchNFlag = false, after the report.
ClearSwitch ==
  /\ At("clearSwitch")
  /\ flag' = [flag EXCEPT ![Switch(cur)] = FALSE]
  /\ cur' = cur + 1
  /\ Goto("switch")
  /\ UNCHANGED <<irq, msg, due, valid, powerlossSend, restarts,
                 history, alarm>>

\* if (accel1Flag || accel2Flag)
TestAccel ==
  /\ At("accel")
  /\ IF \E x \in AccelSources : flag[x]
       THEN Transmit("move")
       ELSE Goto("minute") /\ UNCHANGED msg
  /\ UNCHANGED <<cur, flag, irq, due, valid, powerlossSend,
                 restarts, history, alarm>>

ClearAccel ==
  /\ At("clearAccel")
  /\ flag' = [x \in Sources |-> flag[x] /\ x \notin AccelSources]
  /\ Goto("minute")
  /\ UNCHANGED <<cur, irq, msg, due, valid, powerlossSend,
                 restarts, history, alarm>>

\* if (minuteFlag)
TestMinute ==
  /\ At("minute")
  /\ Goto(IF ~flag[Minute] THEN "sleep" ELSE IF GpsEnabled THEN "timer" ELSE "power")
  /\ UNCHANGED <<cur, flag, irq, msg, due, valid, powerlossSend,
                 restarts, history, alarm>>

\* Variant of CheckPower: the return of the power is not reported.
CheckPowerLossOnly ==
  /\ At("power")
  /\ valid' \in BOOLEAN
  /\ powerlossSend' = ~valid'
  /\ IF ~valid' /\ ~powerlossSend
       THEN Transmit("power")
       ELSE Goto("timer") /\ UNCHANGED msg
  /\ UNCHANGED <<cur, flag, irq, due, restarts, history, alarm>>

\* getPowerlossDataAndTransmit(): report a change of the main power, once.
\* powerlossSend is set before the report is sent, whatever comes of it.
CheckPower ==
  /\ At("power")
  /\ valid' \in BOOLEAN
  /\ powerlossSend' = ~valid'
  /\ IF powerlossSend' # powerlossSend
       THEN Transmit("power")
       ELSE Goto("timer") /\ UNCHANGED msg
  /\ UNCHANGED <<cur, flag, irq, due, restarts, history, alarm>>

\* timer.update(): a due event is accounted for first and then run, which
\* sends a report unless its time span rules the event out.  The spans of the
\* two fix events exclude each other: one update sends one report.
UpdateTimer ==
  /\ At("timer")
  /\ due' = FALSE
  /\ \/ /\ due
        /\ DataAndTransmit("alive")
     \/ /\ Goto("clearMinute")
        /\ UNCHANGED <<msg, valid>>
  /\ UNCHANGED <<cur, flag, irq, powerlossSend, restarts,
                 history, alarm>>

\* Variant of ClearMinute: the flag stays up.
ClearMinuteNot ==
  /\ At("clearMinute")
  /\ Goto("sleep")
  /\ UNCHANGED <<cur, flag, irq, msg, due, valid, powerlossSend, restarts,
                 history, alarm>>

\* minuteFlag = false, after timer.update().
ClearMinute ==
  /\ At("clearMinute")
  /\ flag' = [flag EXCEPT ![Minute] = FALSE]
  /\ Goto("sleep")
  /\ UNCHANGED <<cur, irq, msg, due, valid, powerlossSend,
                 restarts, history, alarm>>

\* systemSleep() up to noInterrupts(); in debug mode it does not sleep.
EnterSleep ==
  /\ At("sleep")
  /\ Goto(IF DbgEnabled THEN "top" ELSE "masked")
  /\ UNCHANGED <<cur, flag, irq, msg, due, valid, powerlossSend,
                 restarts, history, alarm>>

\* The flags systemSleep() looks at: the accelerometer's are not among them.
SleepFlags == SwitchSources \cup {Minute, Wdt}

\* The test made with interrupts masked, and interrupts().
TestSleep ==
  /\ pc = "masked"
  /\ Goto(IF \E x \in SleepFlags : flag[x] THEN "top" ELSE "wfi")
  /\ UNCHANGED <<cur, flag, irq, msg, due, valid, powerlossSend,
                 restarts, history, alarm>>

\* __WFI(): a request still pending makes it fall through; one that was taken
\* between interrupts() and here does not.
WaitForInterrupt ==
  /\ pc = "wfi"
  /\ Goto(IF irq = {} THEN "asleep" ELSE "top")
  /\ UNCHANGED <<cur, flag, irq, msg, due, valid, powerlossSend,
                 restarts, history, alarm>>

-----------------------------------------------------------------------------
Processor ==
  \/ Setup \/ TransmitReturns \/ LoopTop
  \/ TestSwitch \/ ReadPin \/ ClearSwitch
  \/ TestAccel \/ ClearAccel
  \/ TestMinute \/ CheckPower \/ UpdateTimer \/ ClearMinute
  \/ EnterSleep \/ TestSleep \/ WaitForInterrupt

Take == \E x \in Sources : TakePending(x)

Environment ==
  \/ \E s \in Switches : MoveSwitch(s)
  \/ Shake \/ MinuteAlarm \/ EarlyWarning
  \/ EventComesDue \/ Restart

Next == Processor \/ Take \/ Environment

Spec == Init /\ [][Next]_vars

\* The processor executes and takes the interrupts pending, and the RTC alarm
\* fires every minute; nothing else has to happen.
Fairness ==
  /\ WF_vars(Processor \/ Take)
  /\ WF_vars(MinuteAlarm)

FairSpec == Spec /\ Fairness

-----------------------------------------------------------------------------
(* Properties                                                              *)

\* A movement of a switch that nobody has sampled yet is still owed a report
\* (its flag is up, or its interrupt is pending), except when it happened
\* while the same switch was being reported, or was cut off by a reset: the
\* flag is cleared after the transmission, not before it.
NoChangeForgotten ==
  \A s \in Switches :
    dirty[s] => flag[Switch(s)] \/ Switch(s) \in irq \/ missed[s]

\* The flag powerlossSend agrees with the last power report the network got,
\* unless the latest one was lost (transmit()'s result is ignored) or a reset
\* wiped the flag, or while the report is on its way.
AlarmMirrored ==
  \/ powerlossSend = srvAlarm
  \/ alarmLost
  \/ pc = "transmit" /\ msg = "power"

\* "puts the system to deep sleep": a pass during which no handler ran ends in
\* WFI, because it has cleared every flag systemSleep() looks at.
SleepsWhenIdle ==
  [][pc = "masked" /\ pc' # "masked" /\ ~fresh => pc' \in {"wfi", "setup"}]_vars

\* The loop is serving the source at this point ...
Serves(x) ==
  \/ x = Minute /\ pc = "timer"
  \/ x \in AccelSources /\ pc = "transmit" /\ msg = "move"
  \/ \E s \in Switches : x = Switch(s) /\ pc = "readPin" /\ cur = s

\* ... and here it has served it and is about to clear its flag.
Served(x) ==
  \/ x = Minute /\ (pc = "clearMinute" \/ (pc = "transmit" /\ msg = "alive"))
  \/ x \in AccelSources /\ (pc = "clearAccel" \/ (pc = "transmit" /\ msg = "move"))
  \/ \E s \in Switches : x = Switch(s) /\ OwnReport(s)

\* What loop() serves at all: with GPS on it never looks at the switches.
LoopSources == IF GpsEnabled THEN {Minute} ELSE Sources \ {Wdt}

\* A raised flag is served, unless a reset comes first, even if its interrupt
\* slipped in between the test of systemSleep() and WFI (the minute alarm
\* ends that sleep) and even if it is the accelerometer's, which the test
\* leaves out.
FlagServed ==
  \A x \in LoopSources :
    (flag[x] /\ ~Served(x)) ~> (Serves(x) \/ pc = "setup")
=============================================================================
