---------------------------- MODULE Device_proof ----------------------------
(***************************************************************************)
(* Proofs about the processor's loop and the receiver on its serial line.  *)
(*                                                                         *)
(* NodeLoop, for any number of switches, accelerometer lines and resets.   *)
(*                                                                         *)
(* Ublox: that the delegate of the driver is given the NAV-PVT messages as *)
(* they were sent, and which of them it is not given.  The bytes on the    *)
(* line are the rest of the frames, without a gap.  The parser has been    *)
(* given exactly what is before the first of them in its frame; or, after  *)
(* bytes were thrown away, it looks for the beginning of a frame, and then *)
(* bytes of this very frame are missing, or of one from which on each      *)
(* frame ended in a byte that looks like a beginning.  That the checksum   *)
(* of the parser is the one in the frame is shown by the sums over the     *)
(* bytes so far.                                                           *)
(***************************************************************************)
EXTENDS NodeLoop, Ublox, SequenceTheorems, WellFoundedInduction, TLAPS

-----------------------------------------------------------------------------
(* The main loop: its sources                                              *)

\* The sources have different flags.
LEMMA SourcesDiffer ==
  /\ \A s, t \in Switches : Switch(s) = Switch(t) => s = t
  /\ \A s \in Switches : Switch(s) \in Sources
  /\ \A s \in Switches : Switch(s) # Minute /\ Switch(s) # Wdt
  /\ \A s \in Switches : Switch(s) \notin AccelSources
  /\ Minute \in Sources /\ Wdt \in Sources /\ Minute # Wdt
  /\ AccelSources \subseteq Sources
BY DEF Switch, Accel, Minute, Wdt, SwitchSources, AccelSources, Sources

-----------------------------------------------------------------------------
(* The main loop: type correctness                                         *)

\* The switch at hand exists while it is being served.
CurServed ==
  pc \in {"readPin", "clearSwitch"} \/ (pc = "transmit" /\ msg = "switch")
    => cur <= NumSwitches

TypeInv == TypeOK /\ CurServed

LEMMA InitType == Init => TypeInv
<1> SUFFICES ASSUME Init PROVE TypeInv
  OBVIOUS
<1>1. cur \in 1..(NumSwitches + 1) /\ restarts \in 0..MaxRestarts
  BY SwitchesAssumption, RestartsAssumption DEF Init
<1>2. pc \in Labels /\ msg \in Kinds /\ CurServed
  BY DEF Init, CurServed, Labels, Kinds
<1>3. /\ due \in BOOLEAN /\ valid \in BOOLEAN /\ powerlossSend \in BOOLEAN
      /\ fresh \in BOOLEAN /\ srvAlarm \in BOOLEAN /\ alarmLost \in BOOLEAN
  BY DEF Init
<1>4. /\ flag \in [Sources -> BOOLEAN] /\ irq \in SUBSET Sources
      /\ dirty \in [Switches -> BOOLEAN] /\ missed \in [Switches -> BOOLEAN]
  BY DEF Init
<1>5. QED BY <1>1, <1>2, <1>3, <1>4 DEF TypeInv, TypeOK

LEMMA HandlerType ==
  ASSUME TypeInv, NEW x \in Sources, Handler(x), UNCHANGED <<cur, msg>>
  PROVE  /\ pc' \in Labels /\ flag' \in [Sources -> BOOLEAN] /\ fresh' \in BOOLEAN
         /\ CurServed'
BY DEF TypeInv, TypeOK, CurServed, Handler, Labels

LEMMA FireType ==
  ASSUME TypeInv, NEW x \in Sources, Fire(x), UNCHANGED <<cur, msg>>
  PROVE  /\ pc' \in Labels /\ flag' \in [Sources -> BOOLEAN] /\ fresh' \in BOOLEAN
         /\ irq' \in SUBSET Sources
         /\ CurServed'
<1>1. CASE Attached /\ ~Masked /\ Handler(x) /\ UNCHANGED irq
  BY <1>1, HandlerType DEF TypeInv, TypeOK
<1>2. CASE UNCHANGED <<flag, pc, fresh>> /\ irq' \in {irq, irq \cup {x}}
  BY <1>2 DEF TypeInv, TypeOK, CurServed
<1>3. QED BY <1>1, <1>2 DEF Fire

LEMMA NextType == TypeInv /\ [Next]_vars => TypeInv'
<1> SUFFICES ASSUME TypeInv, [Next]_vars PROVE TypeInv'
  OBVIOUS
<1> USE DEF TypeInv, TypeOK, CurServed, history, alarm, At, Goto
<1>1. CASE Setup
  BY <1>1 DEF Setup, DataAndTransmit, Transmit, Labels, Kinds
<1>2. CASE TransmitReturns
  <2>1. AfterTransmit[msg] \in {"clearSwitch", "clearAccel", "timer", "clearMinute", "top"}
    BY DEF AfterTransmit, Kinds
  <2>2. AfterTransmit[msg] = "clearSwitch" => msg = "switch"
    BY DEF AfterTransmit, Kinds
  <2>3. /\ due' \in BOOLEAN /\ valid' \in BOOLEAN /\ powerlossSend' \in BOOLEAN
        /\ fresh' \in BOOLEAN /\ srvAlarm' \in BOOLEAN /\ alarmLost' \in BOOLEAN
    BY <1>2 DEF TransmitReturns
  <2>4. QED BY <1>2, <2>1, <2>2, <2>3 DEF TransmitReturns, Labels, Kinds
<1>3. CASE LoopTop
  <2>1. flag' \in [Sources -> BOOLEAN] /\ fresh' \in BOOLEAN
    BY <1>3 DEF LoopTop
  <2>2. cur' \in 1..(NumSwitches + 1)
    BY <1>3, SwitchesAssumption DEF LoopTop
  <2>3. pc' \in Labels /\ pc' \in {"minute", "switch"}
    BY <1>3 DEF LoopTop, Labels
  <2>4. QED BY <1>3, <2>1, <2>2, <2>3 DEF LoopTop
<1>4. CASE TestSwitch
  BY <1>4, SwitchesAssumption DEF TestSwitch, Labels
<1>5. CASE ReadPin
  BY <1>5 DEF ReadPin, Transmit, Labels, Kinds
<1>6. CASE ClearSwitch
  <2>1. flag' \in [Sources -> BOOLEAN]
    BY <1>6 DEF ClearSwitch
  <2>2. cur' \in 1..(NumSwitches + 1)
    BY <1>6, SwitchesAssumption DEF ClearSwitch
  <2>3. pc' \in Labels /\ pc' = "switch"
    BY <1>6 DEF ClearSwitch, Labels
  <2>4. QED BY <1>6, <2>1, <2>2, <2>3 DEF ClearSwitch
<1>7. CASE TestAccel
  BY <1>7 DEF TestAccel, Transmit, Labels, Kinds
<1>8. CASE ClearAccel
  BY <1>8 DEF ClearAccel, Labels
<1>9. CASE TestMinute
  BY <1>9 DEF TestMinute, Labels
<1>10. CASE CheckPower
  BY <1>10 DEF CheckPower, Transmit, Labels, Kinds
<1>11. CASE UpdateTimer
  BY <1>11 DEF UpdateTimer, DataAndTransmit, Transmit, Labels, Kinds
<1>12. CASE ClearMinute
  BY <1>12, SourcesDiffer DEF ClearMinute, Labels
<1>13. CASE EnterSleep
  BY <1>13 DEF EnterSleep, Labels
<1>14. CASE TestSleep
  BY <1>14 DEF TestSleep, Labels
<1>15. CASE WaitForInterrupt
  BY <1>15 DEF WaitForInterrupt, Labels
<1>16. CASE Take
  <2> PICK x \in Sources : TakePending(x)
    BY <1>16 DEF Take
  <2>1. irq' \in SUBSET Sources
    BY DEF TakePending
  <2>2. QED BY <2>1, HandlerType DEF TakePending
<1>17. ASSUME NEW s \in Switches, MoveSwitch(s)
       PROVE  TypeInv'
  <2>1. (missed[s] \/ OwnReport(s) \/ ~Attached) \in BOOLEAN
    BY DEF OwnReport, Attached
  <2>2. dirty' \in [Switches -> BOOLEAN] /\ missed' \in [Switches -> BOOLEAN]
    BY <1>17, <2>1 DEF MoveSwitch
  <2>3. Switch(s) \in Sources
    BY SourcesDiffer
  <2>4. Fire(Switch(s)) /\ UNCHANGED <<cur, msg, due, valid, powerlossSend, restarts, alarm>>
    BY <1>17 DEF MoveSwitch
  <2>5. /\ pc' \in Labels /\ flag' \in [Sources -> BOOLEAN] /\ fresh' \in BOOLEAN
        /\ irq' \in SUBSET Sources /\ CurServed'
    BY <2>3, <2>4, FireType
  <2>6. QED BY <2>2, <2>4, <2>5
<1>18. CASE Shake \/ MinuteAlarm \/ EarlyWarning
  <2> PICK x \in Sources : Fire(x) /\ Quiet
    BY <1>18, SourcesDiffer DEF Shake, MinuteAlarm, EarlyWarning
  <2>1. QED BY FireType DEF Quiet
<1>19. CASE EventComesDue
  BY <1>19 DEF EventComesDue
<1>20. CASE Restart
  <2>1. srvAlarm' \in BOOLEAN /\ alarmLost' \in BOOLEAN
    BY <1>20 DEF Restart
  <2>2. cur' \in 1..(NumSwitches + 1) /\ restarts' \in 0..MaxRestarts
    BY <1>20, SwitchesAssumption, RestartsAssumption DEF Restart
  <2>3. flag' \in [Sources -> BOOLEAN] /\ irq' \in SUBSET Sources
    BY <1>20 DEF Restart
  <2>4. pc' \in Labels /\ pc' = "setup" /\ msg' \in Kinds
    BY <1>20 DEF Restart, Labels, Kinds
  <2>5. /\ due' \in BOOLEAN /\ valid' \in BOOLEAN /\ powerlossSend' \in BOOLEAN
        /\ fresh' \in BOOLEAN
    BY <1>20 DEF Restart
  <2>6. dirty' \in [Switches -> BOOLEAN] /\ missed' \in [Switches -> BOOLEAN]
    BY <1>20 DEF Restart
  <2>7. QED BY <2>1, <2>2, <2>3, <2>4, <2>5, <2>6
<1>21. CASE UNCHANGED vars
  BY <1>21 DEF vars, node
<1>22. QED
  BY <1>1, <1>2, <1>3, <1>4, <1>5, <1>6, <1>7, <1>8, <1>9, <1>10, <1>11, <1>12,
     <1>13, <1>14, <1>15, <1>16, <1>17, <1>18, <1>19, <1>20, <1>21
     DEF Next, Processor, Environment

\* Every variable of the node keeps its type, whatever interrupts and resets
\* do: the index of the switch at hand never runs past the switches.
THEOREM TypeCorrect == Spec => []TypeOK
<1>1. Spec => []TypeInv
  BY InitType, NextType, PTL DEF Spec
<1>2. TypeInv => TypeOK
  BY DEF TypeInv
<1>3. QED BY <1>1, <1>2, PTL

-----------------------------------------------------------------------------
(* The main loop: no change is forgotten                                   *)

\* While a switch is being reported, what moves it is not owed a report:
\* this is what is left to know when its flag is cleared.
ReportedInv == \A s \in Switches : OwnReport(s) /\ dirty[s] => missed[s]

ChangeInv == NoChangeForgotten /\ ReportedInv

LEMMA InitChange == Init => ChangeInv
BY DEF Init, ChangeInv, NoChangeForgotten, ReportedInv

\* What happens to a flag and to the request behind it when a source fires or
\* a request is taken: an owed report stays owed.
LEMMA HandlerKeeps ==
  ASSUME TypeInv, NEW x \in Sources, Handler(x)
  PROVE  /\ \A y \in Sources : flag[y] => flag'[y]
         /\ flag'[x]
BY DEF TypeInv, TypeOK, Handler

LEMMA FireKeeps ==
  ASSUME TypeInv, NEW x \in Sources, Fire(x)
  PROVE  /\ \A y \in Sources : flag[y] \/ y \in irq => flag'[y] \/ y \in irq'
         /\ Attached => flag'[x] \/ x \in irq'
BY HandlerKeeps DEF Fire

\* Interrupts leave the place where a switch is being reported alone.
LEMMA HandlerPlace ==
  ASSUME NEW x, Handler(x) \/ Fire(x), UNCHANGED <<cur, msg>>
  PROVE  \A s \in Switches : OwnReport(s)' <=> OwnReport(s)
BY DEF Handler, Fire, OwnReport

LEMMA NextChange == TypeInv /\ ChangeInv /\ [Next]_vars => ChangeInv'
<1> SUFFICES ASSUME TypeInv, ChangeInv, [Next]_vars, NEW s \in Switches
             PROVE  /\ (dirty[s] => flag[Switch(s)] \/ Switch(s) \in irq \/ missed[s])'
                    /\ (OwnReport(s) /\ dirty[s] => missed[s])'
  BY DEF ChangeInv, NoChangeForgotten, ReportedInv
<1>a. /\ dirty[s] => flag[Switch(s)] \/ Switch(s) \in irq \/ missed[s]
      /\ OwnReport(s) /\ dirty[s] => missed[s]
      /\ Switch(s) \in Sources
  BY SourcesDiffer DEF ChangeInv, NoChangeForgotten, ReportedInv
<1>1. ASSUME UNCHANGED <<flag, irq, dirty, missed>>, OwnReport(s)' => OwnReport(s)
      PROVE  /\ (dirty[s] => flag[Switch(s)] \/ Switch(s) \in irq \/ missed[s])'
             /\ (OwnReport(s) /\ dirty[s] => missed[s])'
  BY <1>a, <1>1
<1> USE DEF history, alarm, At, Goto
<1>2. CASE \/ Setup \/ TestSwitch \/ TestAccel \/ TestMinute \/ CheckPower
           \/ UpdateTimer \/ EnterSleep \/ TestSleep \/ WaitForInterrupt
           \/ EventComesDue
  <2>1. UNCHANGED <<flag, irq, dirty, missed>>
    BY <1>2 DEF Setup, TestSwitch, TestAccel, TestMinute, CheckPower, UpdateTimer,
                EnterSleep, TestSleep, WaitForInterrupt, EventComesDue
  <2>2. OwnReport(s)' => OwnReport(s)
    BY <1>2 DEF Setup, TestSwitch, TestAccel, TestMinute, CheckPower, UpdateTimer,
                EnterSleep, TestSleep, WaitForInterrupt, EventComesDue, OwnReport,
                DataAndTransmit, Transmit
  <2>3. QED BY <1>1, <2>1, <2>2
<1>3. CASE TransmitReturns
  <2>1. AfterTransmit[msg] = "clearSwitch" => msg = "switch"
    BY DEF AfterTransmit, Kinds, TypeInv, TypeOK
  <2>2. AfterTransmit[msg] # "transmit"
    BY DEF AfterTransmit, Kinds, TypeInv, TypeOK
  <2>3. QED BY <1>1, <1>3, <2>1, <2>2 DEF TransmitReturns, OwnReport
<1>4. CASE LoopTop
  <2>1. flag'[Switch(s)] = flag[Switch(s)]
    BY <1>4, SourcesDiffer DEF LoopTop, TypeInv, TypeOK
  <2>2. ~OwnReport(s)'
    BY <1>4 DEF LoopTop, OwnReport
  <2>3. QED BY <1>4, <1>a, <2>1, <2>2 DEF LoopTop
<1>5. CASE ReadPin
  <2>1. s = cur => ~dirty'[s]
    BY <1>5 DEF ReadPin, TypeInv, TypeOK
  <2>2. s # cur => ~OwnReport(s)' /\ dirty'[s] = dirty[s] /\ missed'[s] = missed[s]
    BY <1>5 DEF ReadPin, TypeInv, TypeOK, OwnReport
  <2>3. QED BY <1>5, <1>a, <2>1, <2>2 DEF ReadPin
<1>6. CASE ClearSwitch
  <2>1. cur \in Switches
    BY <1>6 DEF ClearSwitch, TypeInv, TypeOK, CurServed, Switches
  <2>2. s # cur => flag'[Switch(s)] = flag[Switch(s)]
    BY <1>6, <2>1, SourcesDiffer DEF ClearSwitch, TypeInv, TypeOK
  <2>3. s = cur => OwnReport(s)
    BY <1>6 DEF ClearSwitch, OwnReport
  <2>4. ~OwnReport(s)'
    BY <1>6 DEF ClearSwitch, OwnReport
  <2>5. QED BY <1>6, <1>a, <2>2, <2>3, <2>4 DEF ClearSwitch
<1>7. CASE ClearAccel
  <2>1. flag'[Switch(s)] = flag[Switch(s)]
    BY <1>7, SourcesDiffer DEF ClearAccel, TypeInv, TypeOK
  <2>2. ~OwnReport(s)'
    BY <1>7 DEF ClearAccel, OwnReport
  <2>3. QED BY <1>7, <1>a, <2>1, <2>2 DEF ClearAccel
<1>8. CASE ClearMinute
  <2>1. flag'[Switch(s)] = flag[Switch(s)]
    BY <1>8, SourcesDiffer DEF ClearMinute, TypeInv, TypeOK
  <2>2. ~OwnReport(s)'
    BY <1>8 DEF ClearMinute, OwnReport
  <2>3. QED BY <1>8, <1>a, <2>1, <2>2 DEF ClearMinute
<1>9. CASE Take
  <2> PICK x \in Sources : TakePending(x)
    BY <1>9 DEF Take
  <2>1. flag[Switch(s)] \/ Switch(s) \in irq => flag'[Switch(s)] \/ Switch(s) \in irq'
    BY <1>a, HandlerKeeps DEF TakePending
  <2>2. OwnReport(s)' <=> OwnReport(s)
    BY HandlerPlace DEF TakePending
  <2>3. QED BY <1>a, <2>1, <2>2 DEF TakePending
<1>10. ASSUME NEW t \in Switches, MoveSwitch(t)
       PROVE  /\ (dirty[s] => flag[Switch(s)] \/ Switch(s) \in irq \/ missed[s])'
              /\ (OwnReport(s) /\ dirty[s] => missed[s])'
  <2>1. OwnReport(s)' <=> OwnReport(s)
    BY <1>10, HandlerPlace DEF MoveSwitch
  <2>2. Switch(t) \in Sources
    BY SourcesDiffer
  <2>3. CASE s = t
    <3>1. missed'[s] = (missed[s] \/ OwnReport(s) \/ ~Attached)
      BY <1>10, <2>3 DEF MoveSwitch, TypeInv, TypeOK
    <3>2. Attached => flag'[Switch(s)] \/ Switch(s) \in irq'
      BY <1>10, <2>2, <2>3, FireKeeps DEF MoveSwitch
    <3>3. QED BY <2>1, <3>1, <3>2
  <2>4. CASE s # t
    <3>1. dirty'[s] = dirty[s] /\ missed'[s] = missed[s]
      BY <1>10, <2>4 DEF MoveSwitch, TypeInv, TypeOK
    <3>2. flag[Switch(s)] \/ Switch(s) \in irq => flag'[Switch(s)] \/ Switch(s) \in irq'
      BY <1>10, <1>a, <2>2, FireKeeps DEF MoveSwitch
    <3>3. QED BY <1>a, <2>1, <3>1, <3>2
  <2>5. QED BY <2>3, <2>4
<1>11. CASE Shake \/ MinuteAlarm \/ EarlyWarning
  <2> PICK x \in Sources : Fire(x) /\ Quiet
    BY <1>11, SourcesDiffer DEF Shake, MinuteAlarm, EarlyWarning
  <2>1. flag[Switch(s)] \/ Switch(s) \in irq => flag'[Switch(s)] \/ Switch(s) \in irq'
    BY <1>a, FireKeeps
  <2>2. OwnReport(s)' <=> OwnReport(s)
    BY HandlerPlace DEF Quiet
  <2>3. QED BY <1>a, <2>1, <2>2 DEF Quiet
<1>12. CASE Restart
  BY <1>12 DEF Restart, OwnReport
<1>13. CASE UNCHANGED vars
  BY <1>1, <1>13 DEF vars, node, OwnReport
<1>14. QED
  BY <1>2, <1>3, <1>4, <1>5, <1>6, <1>7, <1>8, <1>9, <1>10, <1>11, <1>12, <1>13
     DEF Next, Processor, Environment

\* The only way for a movement of a switch to go unreported is to happen
\* during the report of that switch, or to be cut off by a reset.
THEOREM ChangesKept == Spec => []NoChangeForgotten
<1>1. Spec => [](TypeInv /\ ChangeInv)
  BY InitType, NextType, InitChange, NextChange, PTL DEF Spec
<1>2. TypeInv /\ ChangeInv => NoChangeForgotten
  BY DEF ChangeInv
<1>3. QED BY <1>1, <1>2, PTL
-----------------------------------------------------------------------------
(* The main loop: the power report                                         *)

\* What a power report on its way says is what powerlossSend has been set to.
AlarmInv ==
  /\ AlarmMirrored
  /\ pc = "transmit" /\ msg = "power" => powerlossSend = ~valid

LEMMA InitAlarm == Init => AlarmInv
BY DEF Init, AlarmInv, AlarmMirrored

\* Interrupts leave a transmission alone.
LEMMA HandlerTransmits ==
  ASSUME NEW x, Handler(x) \/ Fire(x)
  PROVE  pc' = "transmit" <=> pc = "transmit"
BY DEF Handler, Fire

LEMMA NextAlarm == TypeInv /\ AlarmInv /\ [Next]_vars => AlarmInv'
<1> SUFFICES ASSUME TypeInv, AlarmInv, [Next]_vars PROVE AlarmInv'
  OBVIOUS
<1> USE DEF AlarmInv, AlarmMirrored, history, alarm, At, Goto
<1>1. ASSUME UNCHANGED <<msg, valid, powerlossSend, srvAlarm, alarmLost>>,
             pc' = "transmit" <=> pc = "transmit"
      PROVE  AlarmInv'
  BY <1>1
<1>2. CASE \/ LoopTop \/ TestSwitch \/ ClearSwitch \/ ClearAccel \/ TestMinute
           \/ ClearMinute \/ EnterSleep \/ TestSleep \/ WaitForInterrupt
           \/ EventComesDue
  BY <1>1, <1>2 DEF LoopTop, TestSwitch, ClearSwitch, ClearAccel, TestMinute,
                    ClearMinute, EnterSleep, TestSleep, WaitForInterrupt, EventComesDue
<1>3. CASE Setup \/ ReadPin \/ TestAccel
  BY <1>3 DEF Setup, ReadPin, TestAccel, DataAndTransmit, Transmit
<1>4. CASE TransmitReturns
  <2>1. AfterTransmit[msg] # "transmit"
    BY DEF AfterTransmit, Kinds, TypeInv, TypeOK
  <2>2. CASE msg = "power"
    <3>1. UNCHANGED <<valid, powerlossSend>> /\ pc' # "transmit"
      BY <1>4, <2>1 DEF TransmitReturns
    <3>2. (srvAlarm' = ~valid) \/ alarmLost'
      BY <1>4, <2>2 DEF TransmitReturns
    <3>3. powerlossSend = ~valid
      BY <1>4, <2>2 DEF TransmitReturns
    <3>4. QED BY <3>1, <3>2, <3>3
  <2>3. CASE msg # "power"
    BY <1>4, <2>1, <2>3 DEF TransmitReturns
  <2>4. QED BY <2>2, <2>3
<1>5. CASE CheckPower
  <2>1. powerlossSend' = ~valid'
    BY <1>5 DEF CheckPower
  <2>2. CASE powerlossSend' # powerlossSend
    BY <1>5, <2>1, <2>2 DEF CheckPower, Transmit
  <2>3. CASE powerlossSend' = powerlossSend
    BY <1>5, <2>1, <2>3 DEF CheckPower
  <2>4. QED BY <2>2, <2>3
<1>6. CASE UpdateTimer
  BY <1>6 DEF UpdateTimer, DataAndTransmit, Transmit
<1>7. CASE Take
  <2> PICK x \in Sources : TakePending(x)
    BY <1>7 DEF Take
  <2>1. QED BY <1>1, HandlerTransmits DEF TakePending
<1>8. CASE \E s \in Switches : MoveSwitch(s)
  <2> PICK s \in Switches : MoveSwitch(s)
    BY <1>8
  <2>1. QED BY <1>1, HandlerTransmits DEF MoveSwitch
<1>9. CASE Shake \/ MinuteAlarm \/ EarlyWarning
  <2> PICK x \in Sources : Fire(x) /\ Quiet
    BY <1>9, SourcesDiffer DEF Shake, MinuteAlarm, EarlyWarning
  <2>1. QED BY <1>1, HandlerTransmits DEF Quiet
<1>10. CASE Restart
  <2>1. /\ ~powerlossSend' /\ pc' = "setup"
        /\ alarmLost' = (alarmLost \/ powerlossSend \/ srvAlarm)
    BY <1>10 DEF Restart
  <2>2. srvAlarm' = srvAlarm
        \/ (pc = "transmit" /\ msg = "power" /\ srvAlarm' = ~valid)
    BY <1>10 DEF Restart
  <2>3. ~powerlossSend /\ ~srvAlarm => ~srvAlarm'
    BY <2>2
  <2>4. srvAlarm' \in BOOLEAN /\ powerlossSend' \in BOOLEAN
    BY <1>10 DEF Restart, TypeInv, TypeOK
  <2>5. QED BY <2>1, <2>3, <2>4
<1>11. CASE UNCHANGED vars
  BY <1>1, <1>11 DEF vars, node
<1>12. QED
  BY <1>2, <1>3, <1>4, <1>5, <1>6, <1>7, <1>8, <1>9, <1>10, <1>11
     DEF Next, Processor, Environment

\* The node's idea of whether it has reported a power loss is the network's,
\* unless the latest report was lost, or a reset wiped the idea.
THEOREM AlarmKept == Spec => []AlarmMirrored
<1>1. Spec => [](TypeInv /\ AlarmInv)
  BY InitType, NextType, InitAlarm, NextAlarm, PTL DEF Spec
<1>2. TypeInv /\ AlarmInv => AlarmMirrored
  BY DEF AlarmInv
<1>3. QED BY <1>1, <1>2, PTL
-----------------------------------------------------------------------------
(* The main loop: an idle pass sleeps                                      *)

\* The pass is at the switches, or past them.
AtSwitches ==
  pc \in {"switch", "readPin", "clearSwitch"} \/ (pc = "transmit" /\ msg = "switch")
PastSwitches ==
  \/ pc \in {"accel", "clearAccel", "minute", "power", "timer", "clearMinute",
            "sleep", "masked"}
  \/ pc = "transmit" /\ msg \in {"move", "power", "alive"}

\* What the pass has cleared so far; a handler would have made it fresh.
WdtCleared == AtSwitches \/ PastSwitches => ~flag[Wdt]
SwitchesCleared ==
  \A s \in Switches : PastSwitches \/ (AtSwitches /\ s < cur) => ~flag[Switch(s)]
MinuteCleared == pc \in {"sleep", "masked"} => ~flag[Minute]

IdleInv == ~fresh => WdtCleared /\ SwitchesCleared /\ MinuteCleared

LEMMA InitIdle == Init => IdleInv
BY DEF Init, IdleInv, WdtCleared, SwitchesCleared, MinuteCleared, AtSwitches,
       PastSwitches

\* Interrupts either make the pass fresh or leave it where it is.
LEMMA FireIdle ==
  ASSUME IdleInv, NEW x, Handler(x) \/ Fire(x), UNCHANGED <<cur, msg>>
  PROVE  IdleInv'
<1>1. CASE Handler(x)
  BY <1>1 DEF Handler, IdleInv
<1>2. CASE Fire(x) /\ ~Handler(x)
  BY <1>2 DEF Fire, IdleInv, WdtCleared, SwitchesCleared, MinuteCleared, AtSwitches,
              PastSwitches
<1>3. QED BY <1>1, <1>2

LEMMA NextIdle ==
  ASSUME ~GpsEnabled, TypeInv, IdleInv, [Next]_vars
  PROVE  IdleInv'
<1> USE DEF history, alarm, At, Goto
<1>1. ASSUME flag' = flag, fresh' = fresh, PastSwitches' => PastSwitches,
             AtSwitches' => AtSwitches, cur' = cur,
             pc' \in {"sleep", "masked"} => pc \in {"sleep", "masked"}
      PROVE  IdleInv'
  BY <1>1 DEF IdleInv, WdtCleared, SwitchesCleared, MinuteCleared
<1>2. CASE Setup \/ TestSleep \/ WaitForInterrupt
  BY <1>2 DEF Setup, DataAndTransmit, Transmit, TestSleep, WaitForInterrupt,
              IdleInv, WdtCleared, SwitchesCleared, MinuteCleared, AtSwitches, PastSwitches
<1>3. CASE TransmitReturns
  <2>1. AfterTransmit[msg] \in {"clearSwitch", "clearAccel", "timer", "clearMinute", "top"}
    BY DEF AfterTransmit, Kinds, TypeInv, TypeOK
  <2>2. AfterTransmit[msg] = "clearSwitch" => msg = "switch"
    BY DEF AfterTransmit, Kinds, TypeInv, TypeOK
  <2>3. AfterTransmit[msg] \in {"clearAccel", "timer", "clearMinute"}
          => msg \in {"move", "power", "alive"}
    BY DEF AfterTransmit, Kinds, TypeInv, TypeOK
  <2>4. pc = "transmit" /\ pc' = AfterTransmit[msg] /\ UNCHANGED <<flag, fresh, cur>>
    BY <1>3 DEF TransmitReturns
  <2>5. QED BY <1>1, <2>1, <2>2, <2>3, <2>4 DEF AtSwitches, PastSwitches
<1>4. CASE LoopTop
  <2>1. pc' = "switch" /\ cur' = 1 /\ ~flag'[Wdt]
    BY <1>4, SourcesDiffer DEF LoopTop, TypeInv, TypeOK
  <2>2. \A s \in Switches : ~(s < 1)
    BY SwitchesAssumption DEF Switches
  <2>3. QED BY <2>1, <2>2 DEF IdleInv, WdtCleared, SwitchesCleared, MinuteCleared,
                              PastSwitches
<1>5. CASE TestSwitch
  <2>1. pc = "switch" /\ pc' \in {"switch", "readPin", "accel"} /\ UNCHANGED <<flag, fresh>>
    BY <1>5 DEF TestSwitch
  <2>2. ~fresh' => WdtCleared'
    BY <2>1 DEF IdleInv, WdtCleared, AtSwitches
  <2>3. ASSUME ~fresh', NEW s \in Switches, PastSwitches' \/ (AtSwitches' /\ s < cur')
        PROVE  ~flag'[Switch(s)]
    <3>1. s < cur => ~flag[Switch(s)]
      BY <2>1, <2>3 DEF IdleInv, SwitchesCleared, AtSwitches
    <3>2. s \in Nat /\ cur \in Nat /\ s <= NumSwitches
      BY SwitchesAssumption DEF Switches, TypeInv, TypeOK
    <3>3. CASE cur > NumSwitches
      BY <2>1, <3>1, <3>2, <3>3, SwitchesAssumption
    <3>4. CASE cur <= NumSwitches /\ ~flag[Switch(cur)]
      <4>1. pc' = "switch" /\ cur' = cur + 1
        BY <1>5, <3>4, SwitchesAssumption DEF TestSwitch, TypeInv, TypeOK
      <4>2. s < cur \/ s = cur
        BY <2>3, <3>2, <4>1 DEF PastSwitches
      <4>3. QED BY <2>1, <3>1, <3>4, <4>2
    <3>5. CASE cur <= NumSwitches /\ flag[Switch(cur)]
      <4>1. pc' = "readPin" /\ cur' = cur
        BY <1>5, <3>5, SwitchesAssumption DEF TestSwitch, TypeInv, TypeOK
      <4>2. QED BY <2>1, <2>3, <3>1, <4>1 DEF PastSwitches
    <3>6. QED BY <3>2, <3>3, <3>4, <3>5, SwitchesAssumption
  <2>4. MinuteCleared'
    BY <2>1 DEF MinuteCleared
  <2>5. QED BY <2>2, <2>3, <2>4 DEF IdleInv, SwitchesCleared
<1>6. CASE ReadPin
  BY <1>1, <1>6 DEF ReadPin, Transmit, AtSwitches, PastSwitches
<1>7. CASE ClearSwitch
  <2>1. pc = "clearSwitch" /\ pc' = "switch" /\ cur' = cur + 1 /\ fresh' = fresh
    BY <1>7 DEF ClearSwitch
  <2>2. cur \in Switches
    BY <2>1 DEF TypeInv, TypeOK, CurServed, Switches
  <2>3. /\ \A s \in Switches : ~flag[Switch(s)] \/ s = cur => ~flag'[Switch(s)]
        /\ flag'[Wdt] = flag[Wdt]
    BY <1>7, <2>2, SourcesDiffer DEF ClearSwitch, TypeInv, TypeOK
  <2>4. \A s \in Switches : s < cur' => s < cur \/ s = cur
    BY <2>1, <2>2, SwitchesAssumption DEF Switches
  <2>5. QED BY <2>1, <2>3, <2>4 DEF IdleInv, WdtCleared, SwitchesCleared,
                                    MinuteCleared, AtSwitches, PastSwitches
<1>8. CASE TestAccel \/ CheckPower \/ UpdateTimer \/ EnterSleep
  BY <1>1, <1>8 DEF TestAccel, CheckPower, UpdateTimer, EnterSleep, Transmit,
                    DataAndTransmit, AtSwitches, PastSwitches
<1>9. CASE TestMinute
  <2>1. pc = "minute" /\ pc' \in {"sleep", "power"} /\ UNCHANGED <<flag, fresh>>
    BY <1>9 DEF TestMinute
  <2>2. pc' = "sleep" => ~flag[Minute]
    BY <1>9 DEF TestMinute
  <2>3. QED BY <2>1, <2>2 DEF IdleInv, WdtCleared, SwitchesCleared, MinuteCleared,
                              AtSwitches, PastSwitches
<1>10. CASE ClearAccel
  <2>1. pc = "clearAccel" /\ pc' = "minute" /\ fresh' = fresh
    BY <1>10 DEF ClearAccel
  <2>2. \A x \in Sources : flag'[x] => flag[x]
    BY <1>10 DEF ClearAccel, TypeInv, TypeOK
  <2>3. QED BY <2>1, <2>2, SourcesDiffer DEF IdleInv, WdtCleared, SwitchesCleared,
                                    MinuteCleared, AtSwitches, PastSwitches
<1>11. CASE ClearMinute
  <2>1. pc = "clearMinute" /\ pc' = "sleep" /\ fresh' = fresh
    BY <1>11 DEF ClearMinute
  <2>2. /\ \A x \in Sources : flag'[x] => flag[x]
        /\ ~flag'[Minute]
    BY <1>11, SourcesDiffer DEF ClearMinute, TypeInv, TypeOK
  <2>3. QED BY <2>1, <2>2, SourcesDiffer DEF IdleInv, WdtCleared, SwitchesCleared,
                                    MinuteCleared, AtSwitches, PastSwitches
<1>12. CASE Take
  <2> PICK x \in Sources : TakePending(x)
    BY <1>12 DEF Take
  <2>1. QED BY FireIdle DEF TakePending
<1>13. CASE \E s \in Switches : MoveSwitch(s)
  <2> PICK s \in Switches : MoveSwitch(s)
    BY <1>13
  <2>1. QED BY FireIdle DEF MoveSwitch
<1>14. CASE Shake \/ MinuteAlarm \/ EarlyWarning
  <2> PICK x \in Sources : Fire(x) /\ Quiet
    BY <1>14, SourcesDiffer DEF Shake, MinuteAlarm, EarlyWarning
  <2>1. QED BY FireIdle DEF Quiet
<1>15. CASE EventComesDue
  BY <1>1, <1>15 DEF EventComesDue, AtSwitches, PastSwitches
<1>16. CASE Restart
  BY <1>16 DEF Restart, IdleInv, WdtCleared, SwitchesCleared, MinuteCleared,
               AtSwitches, PastSwitches
<1>17. CASE UNCHANGED vars
  BY <1>1, <1>17 DEF vars, node, AtSwitches, PastSwitches
<1>18. QED
  BY <1>2, <1>3, <1>4, <1>5, <1>6, <1>7, <1>8, <1>9, <1>10, <1>11, <1>12,
     <1>13, <1>14, <1>15, <1>16, <1>17
     DEF Next, Processor, Environment

\* Only the test of the flags, or a reset, leads out of the masked section.
LEMMA MaskedStep ==
  ASSUME [Next]_vars, pc = "masked", pc' # "masked"
  PROVE  TestSleep \/ Restart
<1> USE DEF history, alarm, At, Goto
<1>1. ASSUME NEW x, Fire(x) PROVE FALSE
  BY <1>1 DEF Fire, Attached, Masked
<1>2. ~Setup /\ ~TransmitReturns /\ ~LoopTop /\ ~TestSwitch /\ ~ReadPin
      /\ ~ClearSwitch /\ ~TestAccel /\ ~ClearAccel /\ ~TestMinute /\ ~CheckPower
      /\ ~UpdateTimer /\ ~ClearMinute /\ ~EnterSleep /\ ~WaitForInterrupt
  BY DEF Setup, TransmitReturns, LoopTop, TestSwitch, ReadPin, ClearSwitch, TestAccel,
         ClearAccel, TestMinute, CheckPower, UpdateTimer, ClearMinute, EnterSleep,
         WaitForInterrupt
<1>3. ~Take
  BY DEF Take, TakePending, Masked
<1>4. ~(\E s \in Switches : MoveSwitch(s)) /\ ~Shake /\ ~MinuteAlarm /\ ~EarlyWarning
  BY <1>1 DEF MoveSwitch, Shake, MinuteAlarm, EarlyWarning
<1>5. ~EventComesDue /\ ~UNCHANGED vars
  BY DEF EventComesDue, vars, node
<1>6. QED BY <1>2, <1>3, <1>4, <1>5 DEF Next, Processor, Environment

\* Without GPS, a pass no handler has disturbed finds the flags it tests
\* before the sleep cleared, and sleeps.  (With GPS it may not: loop() leaves
\* the flags of the switches up.)
THEOREM IdleSleeps ==
  ASSUME ~GpsEnabled
  PROVE  Spec => SleepsWhenIdle
<1>1. TypeInv /\ IdleInv /\ [Next]_vars => IdleInv'
  BY NextIdle
<1>2. TypeInv /\ IdleInv /\ [Next]_vars
        => [pc = "masked" /\ pc' # "masked" /\ ~fresh => pc' \in {"wfi", "setup"}]_vars
  <2> SUFFICES ASSUME TypeInv, IdleInv, [Next]_vars, pc = "masked", pc' # "masked", ~fresh
               PROVE  pc' \in {"wfi", "setup"}
    OBVIOUS
  <2>1. CASE TestSleep
    <3>1. ~flag[Wdt] /\ ~flag[Minute] /\ \A s \in Switches : ~flag[Switch(s)]
      BY DEF IdleInv, WdtCleared, SwitchesCleared, MinuteCleared, PastSwitches
    <3>2. \A x \in SleepFlags : ~flag[x]
      BY <3>1 DEF SleepFlags, SwitchSources
    <3>3. QED BY <2>1, <3>2 DEF TestSleep, Goto
  <2>2. CASE Restart
    BY <2>2 DEF Restart
  <2>3. QED BY <2>1, <2>2, MaskedStep
<1>3. QED
  BY InitType, NextType, InitIdle, <1>1, <1>2, PTL DEF Spec, SleepsWhenIdle

-----------------------------------------------------------------------------
(* The u-blox driver: what holds of it                                     *)

Byte == 0..255

Parsers ==
  [state : 0..8, id : Nat \X Nat, left : Nat, length : Nat, buf : Seq(0..256), ckA : Nat, ckB : Nat]

\* The messages, the counts of bytes, and what is of them at each stage.
AllMessages == UNION {Messages(n) : n \in 1..MaxFrames}
Commands == {"get", "set", "msg"}
Takings == [frame : Nat, buf : Seq(0..256)]
UbloxTypeInv ==
  /\ parser \in Parsers
  /\ stage \in {"off", "enabled", "get", "set", "msg", "running"}
  /\ bytes \in Nat /\ wire \in Nat /\ beyond \in Nat /\ avail \in Nat /\ faults \in Nat
  /\ {delegate, found, answers, pvtOn, padded} \subseteq BOOLEAN
  /\ line \in Seq(Nat \X Nat) /\ wire + avail <= Len(line)
  /\ frames \in Seq(AllMessages) /\ Len(frames) <= MaxFrames
  /\ \A n \in DOMAIN frames : frames[n] \in Messages(n)
  /\ commands \in Seq(Commands)
  /\ taken \in Seq(Takings)
  /\ cut \subseteq DOMAIN frames /\ swallowed \subseteq Nat

\* The line holds the bytes of the last frames without a gap: t is such a line of h
\* bytes, if there are k frames of the sizes z.
After(b, z) == IF b[2] < z[b[1]] THEN <<b[1], b[2] + 1>> ELSE <<b[1] + 1, 1>>
Gapless(t, h, k, z) ==
  /\ \A j \in 1..h : t[j][1] \in 1..k /\ t[j][2] \in 1..z[t[j][1]]
  /\ \A j \in 1..(h - 1) : t[j + 1] = After(t[j], z)
  /\ h > 0 => t[h] = <<k, z[k]>>
  /\ \A i, j \in 1..h : i < j => t[i][1] <= t[j][1]
FrameSizes == [n \in 1..Len(frames) |-> Len(frames[n].bytes)]
LineInv == Gapless(line, Len(line), Len(frames), FrameSizes)

\* The receiver is quiet without power, and nothing is read before the first flush().
StageInv ==
  /\ stage = "off" => line = <<>>
  /\ stage \in {"off", "enabled"} =>
       /\ parser.state = 0 /\ ~Reading
       /\ line # <<>> => line[1][2] = 1

\* Parser p has been given the first i - 1 bytes of m.
Running(m) == Sums(SubSeq(m.bytes, 3, Len(m.bytes) - 2))
PayloadLength(m) == Len(m.bytes) - 8
StateAt(l, i) == IF i <= 7 THEN i - 1 ELSE IF i <= 6 + l THEN 6 ELSE i - l
GivenTo(p, m, l, i) ==
  /\ p.state = StateAt(l, i)
  /\ i > 3 => <<p.ckA, p.ckB>> = Running(m)[IF i = l + 8 THEN i - 4 ELSE i - 3]
  /\ i = 4 => p.id[1] = m.id[1]
  /\ i > 4 => p.id = m.id
  /\ i \in 6..(6 + l) => p.left = IF i = 6 THEN l ELSE l + 7 - i
  /\ i > 6 /\ m.id \notin Acks =>
       /\ p.length = l
       /\ Len(p.buf) = IF i > 6 + l THEN l ELSE i - 7
       /\ \A j \in 1..Len(p.buf) : p.buf[j] \in {m.bytes[6 + j], Overwritten}
InStep(p, m, i) == GivenTo(p, m, PayloadLength(m), i)

\* Frame n of f may be missed, because bytes of the frames c were thrown away.
EndsIn(f, n) == f[n].bytes[Len(f[n].bytes)] = Sync1
Missed(n, c, f) == \E m \in c : m < n /\ \A k \in m..(n - 1) : EndsIn(f, k)
Lost(n, c, f) == n \in c \/ Missed(n, c, f)

\* Parser p is in step, or looks for a beginning, if byte i of frame n is next.
ParserAt(p, n, i, c, f) ==
  \/ InStep(p, f[n], i)
  \/ i > 1 /\ p.state = 0 /\ Lost(n, c, f)
  \/ /\ p.state = 1 /\ f[n].bytes[i] # Sync2
     /\ IF i = 1 THEN Missed(n, c, f) ELSE Lost(n, c, f)

ParserInv ==
  IF line = <<>> THEN parser.state = 0 \/ (parser.state = 1 /\ Missed(Len(frames) + 1, cut, frames))
  ELSE ParserAt(parser, line[1][1], line[1][2], cut, frames)

TakenBehind == \A i \in DOMAIN taken : \A j \in DOMAIN line : taken[i].frame < line[j][1]

Unspoilt == ~padded /\ (cut = {} \/ NoInnerSync)

Sound == ParserInv /\ TakenAsSent /\ TakenBehind /\ NoneSkipped
UbloxInv == UbloxTypeInv /\ LineInv /\ StageInv /\ (Unspoilt => Sound)

-----------------------------------------------------------------------------
(* The u-blox messages: their sizes, identities and checksums              *)

\* A set of numbers has a smallest: induction by a smallest counterexample.
LEMMA Smallest == ASSUME NEW S \in SUBSET Nat, NEW n \in S PROVE \E m \in S : \A k \in S : m <= k
<1>1. \E m \in S : \A k \in S : ~ (<<k, m>> \in OpToRel(<, Nat))
  <2> DEFINE R == OpToRel(<, Nat)
  <2>1. IsWellFoundedOn(R, Nat)
    BY NatLessThanWellFounded, Zenon
  <2>2. S \subseteq Nat /\ S # {}
    OBVIOUS
  <2> HIDE DEF R
  <2>3. \E m \in S : \A k \in S : ~ (<<k, m>> \in R)
    BY <2>1, <2>2, WFMin, Zenon
  <2>4. QED BY <2>3 DEF R
<1>2. PICK m \in S : \A k \in S : ~ (<<k, m>> \in OpToRel(<, Nat))
  BY <1>1
<1>3. ASSUME NEW k \in S PROVE m <= k
  <2>1. k \in Nat /\ m \in Nat
    OBVIOUS
  <2>2. <<k, m>> \in Nat \X Nat
    BY <2>1
  <2>3. ~ (k < m)
    BY <1>2, <2>2 DEF OpToRel
  <2>4. QED BY <2>1, <2>3
<1>4. QED BY <1>3

Added(sum, c) == <<(sum[1] + c) % 256, (sum[2] + sum[1] + c) % 256>>
SumsUpTo(s, f, n) == f = [i \in 0..n |-> IF i = 0 THEN <<0, 0>> ELSE Added(f[i - 1], s[i])]

\* The recursive function of the checksum has a value for every length.
LEMMA SumsExist ==
  ASSUME NEW s, NEW n \in Nat PROVE \E f : SumsUpTo(s, f, n)
<1> DEFINE Bad == {k \in Nat : ~ \E f : SumsUpTo(s, f, k)}
<1> SUFFICES ASSUME n \in Bad PROVE FALSE
  OBVIOUS
<1>1. PICK m \in Bad : \A k \in Bad : m <= k
  <2>1. Bad \in SUBSET Nat
    OBVIOUS
  <2>2. QED BY <2>1, Smallest
<1>2. m # 0
  <2>1. SumsUpTo(s, [i \in 0..0 |-> <<0, 0>>], 0)
    BY DEF SumsUpTo
  <2>2. QED BY <2>1
<1>3. m - 1 \in Nat /\ m - 1 \notin Bad
  BY <1>1, <1>2
<1>4. PICK f : SumsUpTo(s, f, m - 1)
  BY <1>3
<1> DEFINE g == [i \in 0..m |-> IF i = m THEN Added(f[m - 1], s[m]) ELSE f[i]]
<1>5. SumsUpTo(s, g, m)
  <2>1. ASSUME NEW i \in 0..m
        PROVE  g[i] = IF i = 0 THEN <<0, 0>> ELSE Added(g[i - 1], s[i])
    <3>1. CASE i = 0
      <4>1. g[0] = f[0]
        BY <1>2, <1>1
      <4>2. f[0] = <<0, 0>>
        BY <1>4, <1>3 DEF SumsUpTo
      <4>3. QED BY <4>1, <4>2, <3>1
    <3>2. CASE i = m
      <4>1. g[m] = Added(f[m - 1], s[m]) /\ g[m - 1] = f[m - 1]
        BY <1>2, <1>1
      <4>2. QED BY <4>1, <3>2, <1>2
    <3>3. CASE i # 0 /\ i # m
      <4>1. g[i] = f[i] /\ g[i - 1] = f[i - 1] /\ i \in 0..(m - 1)
        BY <3>3, <1>1
      <4>2. f[i] = Added(f[i - 1], s[i])
        BY <4>1, <3>3, <1>4 DEF SumsUpTo
      <4>3. QED BY <4>1, <4>2, <3>3
    <3>4. QED BY <3>1, <3>2, <3>3
  <2> DEFINE h == [i \in 0..m |-> IF i = 0 THEN <<0, 0>> ELSE Added(g[i - 1], s[i])]
  <2>2. \A i \in 0..m : g[i] = h[i]
    BY <2>1
  <2>3. g = h
    <3> HIDE DEF Added
    <3>1. g = [i \in 0..m |-> g[i]] /\ h = [i \in 0..m |-> h[i]]
      OBVIOUS
    <3> HIDE DEF g, h
    <3>2. QED BY <2>2, <3>1
  <2>4. QED BY <2>3 DEF SumsUpTo
<1>6. QED BY <1>5

\* Each sum of the checksum follows from the one before.
LEMMA SumsAre ==
  ASSUME NEW s \in Seq(Byte)
  PROVE  /\ Sums(s)[0] = <<0, 0>>
         /\ \A i \in 1..Len(s) : Sums(s)[i] = Added(Sums(s)[i - 1], s[i])
<1>0. Len(s) \in Nat
  BY LenProperties
<1>1. PICK f : SumsUpTo(s, f, Len(s))
  BY SumsExist, <1>0
<1>2. SumsUpTo(s, Sums(s), Len(s))
  BY <1>1, ZenonT(60) DEF Sums, SumsUpTo, Added
<1> DEFINE g == Sums(s)
<1>3. g = [i \in 0..Len(s) |-> IF i = 0 THEN <<0, 0>> ELSE Added(g[i - 1], s[i])]
  BY <1>2 DEF SumsUpTo
<1> HIDE DEF g
<1>4. \A i \in 0..Len(s) : g[i] = IF i = 0 THEN <<0, 0>> ELSE Added(g[i - 1], s[i])
  BY <1>3
<1>5. g[0] = <<0, 0>>
  BY <1>4, <1>0
<1>6. \A i \in 1..Len(s) : g[i] = Added(g[i - 1], s[i])
  BY <1>4, <1>0
<1>7. QED BY <1>5, <1>6 DEF g

LEMMA SmallByte == \A x \in Byte : (0 + x) % 256 = x /\ (0 + 0 + x) % 256 = x
BY DEF Byte

LEMMA ModByte == \A x \in Int : x % 256 \in Byte
BY DEF Byte

LEMMA AddedType ==
  ASSUME NEW sum \in Byte \X Byte, NEW c \in Byte
  PROVE  Added(sum, c) \in Byte \X Byte
<1>1. sum[1] \in Int /\ sum[2] \in Int /\ c \in Int
  BY DEF Byte
<1>2. sum[1] + c \in Int /\ sum[2] + sum[1] + c \in Int
  BY <1>1
<1>3. QED BY <1>2, ModByte DEF Added

\* Sums are pairs of bytes.
LEMMA SumsType ==
  ASSUME NEW s \in Seq(Byte), NEW i \in 0..Len(s)
  PROVE  Sums(s)[i] \in Byte \X Byte
<1>0. Len(s) \in Nat
  BY LenProperties
<1> DEFINE Bad == {k \in 0..Len(s) : Sums(s)[k] \notin Byte \X Byte}
<1> SUFFICES ASSUME i \in Bad PROVE FALSE
  OBVIOUS
<1>1. PICK m \in Bad : \A k \in Bad : m <= k
  <2>1. Bad \in SUBSET Nat
    BY <1>0
  <2>2. QED BY <2>1, Smallest
<1>2. m # 0
  <2>1. Sums(s)[0] = <<0, 0>>
    BY SumsAre
  <2>2. <<0, 0>> \in Byte \X Byte
    BY DEF Byte
  <2>3. QED BY <2>1, <2>2, <1>1
<1>3. m \in 1..Len(s) /\ m - 1 \in 0..Len(s) /\ m - 1 \notin Bad
  BY <1>0, <1>1, <1>2
<1>4. Sums(s)[m - 1] \in Byte \X Byte
  BY <1>3
<1>5. Sums(s)[m] = Added(Sums(s)[m - 1], s[m])
  BY SumsAre, <1>3
<1>6. s[m] \in Byte
  BY <1>3, ElementOfSeq
<1>7. Added(Sums(s)[m - 1], s[m]) \in Byte \X Byte
  BY <1>4, <1>6, AddedType, Zenon
<1>8. QED BY <1>5, <1>7, <1>1

MessageOK(m, l) ==
  /\ m.bytes \in Seq(Byte) /\ Len(m.bytes) = l + 8
  /\ m.bytes[1] = Sync1 /\ m.bytes[2] = Sync2
  /\ m.id = <<m.bytes[3], m.bytes[4]>>
  /\ m.bytes[5] = l /\ m.bytes[6] = 0
  /\ Running(m)[0] = <<0, 0>>
  /\ \A i \in 1..(l + 4) : Running(m)[i] = Added(Running(m)[i - 1], m.bytes[i + 2])
  /\ Running(m)[l + 4] = <<m.bytes[l + 7], m.bytes[l + 8]>>

\* Two sequences of bytes, one behind the other.
LEMMA Joined ==
  ASSUME NEW s \in Seq(Byte), NEW t \in Seq(Byte)
  PROVE  /\ s \o t \in Seq(Byte) /\ Len(s \o t) = Len(s) + Len(t)
         /\ \A i \in 1..Len(s) : (s \o t)[i] = s[i]
         /\ \A i \in 1..Len(t) : (s \o t)[Len(s) + i] = t[i]
<1>1. /\ s \o t \in Seq(Byte) /\ Len(s \o t) = Len(s) + Len(t)
      /\ \A i \in 1..(Len(s) + Len(t)) : (s \o t)[i] = IF i <= Len(s) THEN s[i] ELSE t[i - Len(s)]
  BY ConcatProperties, Zenon
<1> DEFINE r == s \o t
           k == Len(s)
           l == Len(t)
<1>2. k \in Nat /\ l \in Nat
  BY LenProperties
<1>3. \A i \in 1..(k + l) : r[i] = IF i <= k THEN s[i] ELSE t[i - k]
  BY <1>1
<1> HIDE DEF r, k, l
<1>4. \A i \in 1..k : r[i] = s[i]
  BY <1>2, <1>3
<1>5. \A i \in 1..l : r[k + i] = t[i]
  BY <1>2, <1>3
<1>6. QED BY <1>1, <1>4, <1>5 DEF r, k, l

LEMMA Pair ==
  ASSUME NEW a \in Byte, NEW b \in Byte
  PROVE  <<a, b>> \in Seq(Byte) /\ Len(<<a, b>>) = 2 /\ <<a, b>>[1] = a /\ <<a, b>>[2] = b
OBVIOUS

FrameOf(m, id, p, l) ==
  /\ MessageOK(m, l) /\ m.id = id /\ PayloadLength(m) = l
  /\ \A j \in 1..l : m.bytes[6 + j] = p[j]

\* A message in its frame, with its length and its checksum.
LEMMA Framed ==
  ASSUME NEW a \in Byte, NEW b \in Byte, NEW p \in Seq(Byte), NEW l \in 1..255, Len(p) = l
  PROVE  FrameOf(Message(<<a, b>>, p), <<a, b>>, p, l)
<1> DEFINE h == <<Sync1, Sync2>>
           i == <<a, b>>
           n == <<l, 0>>
           s == i \o n \o p
           c == Sums(s)[Len(s)]
           f == h \o s \o c
           m == Message(i, p)
<1>1. m = [id |-> i, bytes |-> f]
  BY DEF Message
<1> SUFFICES FrameOf(m, i, p, l)
  OBVIOUS
<1> HIDE DEF m
<1>2. m.id = i /\ m.bytes = f
  <2> HIDE DEF f, i
  <2>1. QED BY <1>1
<1>3. /\ i \in Seq(Byte) /\ Len(i) = 2 /\ i[1] = a /\ i[2] = b
      /\ n \in Seq(Byte) /\ Len(n) = 2 /\ n[1] = l /\ n[2] = 0
      /\ h \in Seq(Byte) /\ Len(h) = 2 /\ h[1] = Sync1 /\ h[2] = Sync2
  <2>1. l \in Byte /\ 0 \in Byte /\ Sync1 \in Byte /\ Sync2 \in Byte
    BY DEF Byte, Sync1, Sync2
  <2>2. QED BY <2>1, Pair
<1> HIDE DEF h, i, n
<1>4. /\ s \in Seq(Byte) /\ Len(s) = 4 + l
      /\ s[1] = a /\ s[2] = b /\ s[3] = l /\ s[4] = 0
      /\ \A j \in 1..l : s[4 + j] = p[j]
  <2> DEFINE q == i \o n
  <2>1. /\ q \in Seq(Byte) /\ Len(q) = 2 + 2
        /\ \A j \in 1..2 : q[j] = i[j]
        /\ \A j \in 1..2 : q[2 + j] = n[j]
    <3>1. i \in Seq(Byte) /\ n \in Seq(Byte) /\ 2 \in Nat /\ Len(i) = 2 /\ Len(n) = 2
      BY <1>3
    <3>2. /\ i \o n \in Seq(Byte) /\ Len(i \o n) = Len(i) + Len(n)
          /\ \A j \in 1..Len(i) : (i \o n)[j] = i[j]
          /\ \A j \in 1..Len(n) : (i \o n)[Len(i) + j] = n[j]
      BY <3>1, Joined, Zenon
    <3>3. QED BY <3>1, <3>2, Zenon
  <2> HIDE DEF q
  <2>2. q \in Seq(Byte) /\ Len(q) = 4 /\ q[1] = a /\ q[2] = b /\ q[3] = l /\ q[4] = 0
    <3>1. q[1] = i[1] /\ q[2] = i[2] /\ q[2 + 1] = n[1] /\ q[2 + 2] = n[2]
      BY <2>1
    <3>2. QED BY <3>1, <2>1, <1>3
  <2>3. /\ q \o p \in Seq(Byte) /\ Len(q \o p) = 4 + l
        /\ \A j \in 1..4 : (q \o p)[j] = q[j]
        /\ \A j \in 1..l : (q \o p)[4 + j] = p[j]
    <3>1. q \in Seq(Byte) /\ p \in Seq(Byte) /\ Len(q) = 4 /\ Len(p) = l
      BY <2>2
    <3>2. /\ q \o p \in Seq(Byte) /\ Len(q \o p) = Len(q) + Len(p)
          /\ \A j \in 1..Len(q) : (q \o p)[j] = q[j]
          /\ \A j \in 1..Len(p) : (q \o p)[Len(q) + j] = p[j]
      BY <3>1, Joined, Zenon
    <3>3. QED BY <3>1, <3>2, Zenon
  <2>4. s = q \o p
    BY DEF q
  <2> HIDE DEF s
  <2>5. s[1] = q[1] /\ s[2] = q[2] /\ s[3] = q[3] /\ s[4] = q[4]
    <3>1. \A j \in 1..4 : s[j] = q[j]
      BY <2>3, <2>4, Zenon
    <3>2. QED BY <3>1
  <2>6. QED BY <2>2, <2>3, <2>4, <2>5
<1> HIDE DEF s
<1>5. c \in Seq(Byte) /\ Len(c) = 2 /\ c = <<c[1], c[2]>>
  <2>1. Len(s) \in 0..Len(s)
    BY <1>4
  <2>2. c \in Byte \X Byte
    BY <1>4, <2>1, SumsType
  <2> HIDE DEF c
  <2>3. c = <<c[1], c[2]>> /\ c[1] \in Byte /\ c[2] \in Byte
    BY <2>2
  <2>4. QED BY <2>3, Pair
<1> HIDE DEF c
<1>6. /\ f \in Seq(Byte) /\ Len(f) = 8 + l
      /\ f[1] = Sync1 /\ f[2] = Sync2
      /\ \A j \in 1..(4 + l) : f[2 + j] = s[j]
      /\ f[7 + l] = c[1] /\ f[8 + l] = c[2]
  <2> DEFINE q == h \o s
  <2>1. /\ q \in Seq(Byte) /\ Len(q) = 2 + (4 + l)
        /\ \A j \in 1..2 : q[j] = h[j]
        /\ \A j \in 1..(4 + l) : q[2 + j] = s[j]
    <3>1. /\ h \in Seq(Byte) /\ s \in Seq(Byte) /\ 2 \in Nat /\ 4 + l \in Nat
          /\ Len(h) = 2 /\ Len(s) = 4 + l
      BY <1>3, <1>4
    <3>2. /\ h \o s \in Seq(Byte) /\ Len(h \o s) = Len(h) + Len(s)
          /\ \A j \in 1..Len(h) : (h \o s)[j] = h[j]
          /\ \A j \in 1..Len(s) : (h \o s)[Len(h) + j] = s[j]
      BY <3>1, Joined, Zenon
    <3>3. QED BY <3>1, <3>2, Zenon
  <2>2. f = q \o c
    OBVIOUS
  <2> HIDE DEF q, f
  <2>3. /\ q \o c \in Seq(Byte) /\ Len(q \o c) = (6 + l) + 2
        /\ \A j \in 1..(6 + l) : (q \o c)[j] = q[j]
        /\ \A j \in 1..2 : (q \o c)[(6 + l) + j] = c[j]
    <3>1. /\ q \in Seq(Byte) /\ c \in Seq(Byte) /\ 6 + l \in Nat /\ 2 \in Nat
          /\ Len(q) = 6 + l /\ Len(c) = 2
      BY <2>1, <1>5
    <3>2. /\ q \o c \in Seq(Byte) /\ Len(q \o c) = Len(q) + Len(c)
          /\ \A j \in 1..Len(q) : (q \o c)[j] = q[j]
          /\ \A j \in 1..Len(c) : (q \o c)[Len(q) + j] = c[j]
      BY <3>1, Joined, Zenon
    <3>3. QED BY <3>1, <3>2, Zenon
  <2>4. /\ f \in Seq(Byte) /\ Len(f) = 8 + l
        /\ \A j \in 1..(6 + l) : f[j] = q[j]
        /\ \A j \in 1..2 : f[(6 + l) + j] = c[j]
    BY <2>2, <2>3
  <2>5. f[7 + l] = c[1] /\ f[8 + l] = c[2]
    <3>1. f[(6 + l) + 1] = c[1] /\ f[(6 + l) + 2] = c[2]
      BY <2>4
    <3>2. QED BY <3>1
  <2>6. f[1] = Sync1 /\ f[2] = Sync2
    BY <2>4, <2>1, <1>3
  <2>7. \A j \in 1..(4 + l) : f[2 + j] = s[j]
    <3>1. \A j \in 1..(4 + l) : 2 + j \in 1..(6 + l)
      BY <1>3
    <3>2. QED BY <3>1, <2>4, <2>1, Zenon
  <2>8. QED BY <2>4, <2>5, <2>6, <2>7
<1> HIDE DEF f
<1>7. f[3] = a /\ f[4] = b /\ f[5] = l /\ f[6] = 0
  <2>1. f[2 + 1] = s[1] /\ f[2 + 2] = s[2] /\ f[2 + 3] = s[3] /\ f[2 + 4] = s[4]
    BY <1>6
  <2>2. QED BY <2>1, <1>4
<1>8. \A j \in 1..l : f[6 + j] = p[j]
  <2>1. ASSUME NEW j \in 1..l PROVE f[6 + j] = p[j]
    <3>1. f[2 + (4 + j)] = s[4 + j]
      BY <1>6
    <3>2. s[4 + j] = p[j]
      BY <1>4
    <3>3. QED BY <3>1, <3>2
  <2>2. QED BY <2>1
<1>9. SubSeq(f, 3, Len(f) - 2) = s
  <2> DEFINE u == SubSeq(f, 3, Len(f) - 2)
  <2>1. \A j \in 3..(6 + l) : f[j] \in Byte
    BY <1>6, ElementOfSeq
  <2>2. u = SubSeq(f, 3, 6 + l)
    BY <1>6
  <2>3. /\ u \in Seq(Byte) /\ Len(u) = 4 + l
        /\ \A j \in 1..(4 + l) : u[j] = f[3 + j - 1]
    <3>1. 3 \in Int /\ 6 + l \in Int /\ 3 <= 6 + l /\ (6 + l) - 3 + 1 = 4 + l
      OBVIOUS
    <3> HIDE DEF u
    <3>2. QED BY <2>1, <2>2, <3>1, SubSeqProperties
  <2> HIDE DEF u
  <2>4. \A j \in 1..(4 + l) : u[j] = s[j]
    <3>1. \A j \in 1..(4 + l) : 3 + j - 1 = 2 + j
      OBVIOUS
    <3>2. \A j \in 1..(4 + l) : f[2 + j] = s[j]
      BY <1>6
    <3>3. QED BY <2>3, <3>1, <3>2, Zenon
  <2>5. u = s
    BY <2>3, <2>4, <1>4, SeqEqual
  <2>6. QED BY <2>5 DEF u
<1>10. PayloadLength(m) = l /\ Running(m) = Sums(s)
  <2>1. Len(m.bytes) - 8 = l
    BY <1>2, <1>6
  <2>2. SubSeq(m.bytes, 3, Len(m.bytes) - 2) = s
    BY <1>2, <1>9, Zenon
  <2>3. QED BY <2>1, <2>2, Zenon DEF PayloadLength, Running
<1>11. /\ Sums(s)[0] = <<0, 0>>
       /\ \A j \in 1..(4 + l) : Sums(s)[j] = Added(Sums(s)[j - 1], f[j + 2])
       /\ Sums(s)[4 + l] = <<f[7 + l], f[8 + l]>>
  <2>1. \A j \in 1..(4 + l) : Sums(s)[j] = Added(Sums(s)[j - 1], s[j])
    BY <1>4, SumsAre
  <2>2. \A j \in 1..(4 + l) : s[j] = f[j + 2]
    BY <1>6
  <2>3. Sums(s)[4 + l] = c
    BY <1>4 DEF c
  <2>4. QED BY <2>1, <2>2, <2>3, <1>4, <1>5, <1>6, SumsAre
<1>12. MessageOK(m, l)
  <2>1. m.id = <<m.bytes[3], m.bytes[4]>>
    BY <1>2, <1>7 DEF i
  <2>2. /\ m.bytes \in Seq(Byte) /\ Len(m.bytes) = l + 8
        /\ m.bytes[1] = Sync1 /\ m.bytes[2] = Sync2 /\ m.bytes[5] = l /\ m.bytes[6] = 0
    BY <1>2, <1>6, <1>7
  <2>3. /\ Running(m)[0] = <<0, 0>>
        /\ \A j \in 1..(l + 4) : Running(m)[j] = Added(Running(m)[j - 1], m.bytes[j + 2])
        /\ Running(m)[l + 4] = <<m.bytes[l + 7], m.bytes[l + 8]>>
    <3>1. 4 + l = l + 4 /\ 7 + l = l + 7 /\ 8 + l = l + 8
      OBVIOUS
    <3>2. QED BY <1>2, <1>10, <1>11, <3>1
  <2>4. QED BY <2>1, <2>2, <2>3 DEF MessageOK
<1>13. MessageOK(m, l) /\ m.id = i /\ PayloadLength(m) = l /\ \A j \in 1..l : m.bytes[6 + j] = p[j]
  BY <1>2, <1>8, <1>10, <1>12
<1>14. QED BY <1>13 DEF FrameOf

\* Every message the receiver may send is such a frame.
LEMMA MessageFacts ==
  ASSUME NEW n \in 1..MaxFrames, NEW m \in Messages(n)
  PROVE  /\ MessageOK(m, PayloadLength(m)) /\ PayloadLength(m) \in 1..255
         /\ m.id \in {NavPvt, CfgPrt, Ack}
         /\ m.id \notin Acks => PayloadLength(m) <= BufferSize
         /\ m.id = NavPvt => /\ PayloadLength(m) = PvtLength
                             /\ \A j \in 1..PvtLength : m.bytes[6 + j] = PvtPayload(n)[j]
<1>0. BufferSize \in Nat /\ MaxFrames \in Nat
  BY SizesAssumption
<1>1. CASE m = Message(NavPvt, PvtPayload(n))
  <2>1. /\ PvtPayload(n) \in [1..PvtLength -> Byte]
        /\ PvtLength \in 1..255 /\ PvtLength <= BufferSize
    <3>1. PvtLength \in 1..BufferSize \cap 1..255 /\ PvtPayload(n) \in [1..PvtLength -> 0..255]
      BY PayloadsAssumption, Zenon
    <3>2. QED BY <3>1, <1>0 DEF Byte
  <2>2. PvtPayload(n) \in Seq(Byte) /\ Len(PvtPayload(n)) = PvtLength
    BY <2>1
  <2>3. 1 \in Byte /\ 7 \in Byte
    BY DEF Byte
  <2>4. /\ MessageOK(m, PvtLength) /\ m.id = <<1, 7>> /\ PayloadLength(m) = PvtLength
        /\ \A j \in 1..PvtLength : m.bytes[6 + j] = PvtPayload(n)[j]
    <3>1. FrameOf(Message(<<1, 7>>, PvtPayload(n)), <<1, 7>>, PvtPayload(n), PvtLength)
      BY <2>1, <2>2, <2>3, Framed, Zenon
    <3>2. FrameOf(m, <<1, 7>>, PvtPayload(n), PvtLength)
      BY <3>1, <1>1, Zenon DEF NavPvt
    <3>3. QED BY <3>2 DEF FrameOf
  <2>5. QED BY <2>1, <2>4 DEF NavPvt
<1>2. CASE m = Message(CfgPrt, PrtPayload)
  <2>1. Len(PrtPayload) \in 1..255 /\ Len(PrtPayload) <= BufferSize /\ PrtPayload \in Seq(Byte)
    <3>1. Len(PrtPayload) \in 1..BufferSize \cap 1..255 /\ PrtPayload \in Seq(0..255)
      BY PayloadsAssumption, Zenon
    <3>2. QED BY <3>1, <1>0 DEF Byte
  <2>2. 6 \in Byte /\ 0 \in Byte
    BY DEF Byte
  <2>3. MessageOK(m, Len(PrtPayload)) /\ m.id = <<6, 0>> /\ PayloadLength(m) = Len(PrtPayload)
    <3>1. \A l \in 1..255 : Len(PrtPayload) = l => FrameOf(Message(<<6, 0>>, PrtPayload), <<6, 0>>, PrtPayload, l)
      BY <2>1, <2>2, Framed, Zenon
    <3>2. FrameOf(m, <<6, 0>>, PrtPayload, Len(PrtPayload))
      BY <3>1, <2>1, <1>2, Zenon DEF CfgPrt
    <3>3. QED BY <3>2 DEF FrameOf
  <2>4. <<6, 0>> # <<1, 7>>
    OBVIOUS
  <2>5. QED BY <2>1, <2>3, <2>4 DEF NavPvt, CfgPrt
<1>3. CASE m = Message(Ack, <<6, 0>>) \/ m = Message(Ack, <<6, 1>>)
  <2>1. PICK x \in {0, 1} : m = Message(Ack, <<6, x>>)
    BY <1>3
  <2>2. 5 \in Byte /\ 1 \in Byte /\ 6 \in Byte /\ x \in Byte /\ 2 \in 1..255
    BY DEF Byte
  <2>3. <<6, x>> \in Seq(Byte) /\ Len(<<6, x>>) = 2
    BY <2>2, Pair
  <2>4. MessageOK(m, 2) /\ m.id = <<5, 1>> /\ PayloadLength(m) = 2
    <3>1. FrameOf(Message(<<5, 1>>, <<6, x>>), <<5, 1>>, <<6, x>>, 2)
      BY <2>2, <2>3, Framed, Zenon
    <3>2. FrameOf(m, <<5, 1>>, <<6, x>>, 2)
      BY <3>1, <2>1, Zenon DEF Ack
    <3>3. QED BY <3>2 DEF FrameOf
  <2>5. <<5, 1>> # <<1, 7>>
    OBVIOUS
  <2>6. QED BY <2>4, <2>5 DEF NavPvt, Ack, Acks
<1>4. QED BY <1>1, <1>2, <1>3 DEF Messages

\* The sums of a parser, replaced; and its buffer.
LEMMA Replaced ==
  ASSUME NEW p \in Parsers, NEW a \in Nat, NEW b \in Nat, NEW d \in Seq(0..256)
  PROVE  [p EXCEPT !.ckA = a, !.ckB = b] \in Parsers /\ [p EXCEPT !.buf = d] \in Parsers
<1> DEFINE A == 0..8
           B == Nat \X Nat
           C == Nat
           D == Seq(0..256)
           R == [state : A, id : B, left : C, length : C, buf : D, ckA : C, ckB : C]
<1>1. Parsers = R
  BY DEF Parsers
<1>2. p \in R /\ a \in C /\ b \in C /\ d \in D
  BY <1>1
<1> HIDE DEF A, B, C, D
<1>3. [p EXCEPT !.ckA = a, !.ckB = b] \in R
  BY <1>2
<1>4. [p EXCEPT !.buf = d] \in R
  BY <1>2
<1>5. QED BY <1>1, <1>3, <1>4

LEMMA SummedType ==
  ASSUME NEW p \in Parsers, NEW c \in Byte
  PROVE  Summed(p, c) \in Parsers
<1> DEFINE a == (p.ckA + c) % 256
           b == (p.ckB + p.ckA + c) % 256
<1>1. Summed(p, c) = [p EXCEPT !.ckA = a, !.ckB = b]
  BY DEF Summed
<1>2. a \in Nat /\ b \in Nat
  <2>1. p.ckA + c \in Int /\ p.ckB + p.ckA + c \in Int
    BY DEF Parsers, Byte
  <2>2. a \in Byte /\ b \in Byte
    BY <2>1, ModByte
  <2> HIDE DEF a, b
  <2>3. QED BY <2>2 DEF Byte
<1> HIDE DEF a, b
<1>4. [p EXCEPT !.ckA = a, !.ckB = b] \in Parsers
  <2>1. p.buf \in Seq(0..256)
    BY DEF Parsers
  <2>2. QED BY <1>2, <2>1, Replaced, Zenon
<1>5. QED BY <1>1, <1>4

LEMMA StoredType ==
  ASSUME NEW p \in Parsers, NEW c \in Byte
  PROVE  Stored(p, c) \in Parsers
<1> DEFINE b == Append(p.buf, c)
<1>1. Stored(p, c) = p \/ Stored(p, c) = [p EXCEPT !.buf = b]
  BY DEF Stored
<1>2. b \in Seq(0..256)
  <2>1. p.buf \in Seq(0..256) /\ c \in 0..256
    BY DEF Parsers, Byte
  <2>2. QED BY <2>1
<1> HIDE DEF b
<1>3. [p EXCEPT !.buf = b] \in Parsers
  BY <1>2, Replaced, Zenon
<1>4. QED BY <1>1, <1>3

\* The parser, given the next byte of a message.
LEMMA StepKept ==
  ASSUME NEW p \in Parsers, NEW m, NEW l \in 1..255, MessageOK(m, l), m.id \notin Acks => l <= BufferSize,
         NEW i \in 1..(l + 7), GivenTo(p, m, l, i), NEW c, c = m.bytes[i]
  PROVE  GivenTo(Process(p, c), m, l, i + 1)
<1> DEFINE q == Process(p, c)
           s == Summed(p, c)
<1>1. Len(m.bytes) = l + 8 /\ m.bytes \in Seq(Byte)
  BY DEF MessageOK
<1>1a. c \in Byte
  <2>1. i \in 1..Len(m.bytes)
    BY <1>1
  <2>2. QED BY <1>1, <2>1, ElementOfSeq, Zenon
<1>2. s = [p EXCEPT !.ckA = (p.ckA + c) % 256, !.ckB = (p.ckB + p.ckA + c) % 256]
  BY DEF Summed
<1>1b. s \in Parsers
  BY <1>1a, SummedType
<1> SUFFICES GivenTo(q, m, l, i + 1)
  OBVIOUS
<1> HIDE DEF q, s
<1>3. i \in 4..(l + 6) => <<s.ckA, s.ckB>> = Running(m)[i - 2]
  <2> SUFFICES ASSUME i \in 4..(l + 6) PROVE <<s.ckA, s.ckB>> = Running(m)[i - 2]
    OBVIOUS
  <2>1. <<p.ckA, p.ckB>> = Running(m)[i - 3]
    <3>1. i > 3 /\ i # l + 8
      OBVIOUS
    <3>2. QED BY <3>1 DEF GivenTo
  <2>2. i - 2 \in 1..(l + 4) /\ (i - 2) + 2 = i /\ (i - 2) - 1 = i - 3 /\ i # l + 8
    OBVIOUS
  <2>3. Running(m)[i - 2] = Added(Running(m)[i - 3], c)
    BY <2>2 DEF MessageOK
  <2>4. Added(<<p.ckA, p.ckB>>, c) = <<(p.ckA + c) % 256, (p.ckB + p.ckA + c) % 256>>
    BY DEF Added
  <2>5. s.ckA = (p.ckA + c) % 256 /\ s.ckB = (p.ckB + p.ckA + c) % 256
    BY <1>2 DEF Parsers
  <2>6. QED BY <2>1, <2>3, <2>4, <2>5
<1>4. CASE i = 1
  <2>1. p.state = 0 /\ c = Sync1
    BY <1>4, <1>1 DEF GivenTo, StateAt, MessageOK
  <2>2. q = [p EXCEPT !.state = 1]
    BY <2>1 DEF q, Process
  <2>3. q.state = 1
    BY <2>2 DEF Parsers
  <2>4. QED BY <2>3, <1>4, <1>1 DEF GivenTo, StateAt
<1>5. CASE i = 2
  <2>1. p.state = 1 /\ c = Sync2
    BY <1>5, <1>1 DEF GivenTo, StateAt, MessageOK
  <2>2. q = [p EXCEPT !.state = 2]
    BY <2>1 DEF q, Process
  <2>3. q.state = 2
    BY <2>2 DEF Parsers
  <2>4. QED BY <2>3, <1>5, <1>1 DEF GivenTo, StateAt
<1>6. CASE i = 3
  <2>1. p.state = 2
    BY <1>6, <1>1 DEF GivenTo, StateAt
  <2>2. q = [p EXCEPT !.state = 3, !.id = <<c, 0>>, !.ckA = c, !.ckB = c]
    BY <2>1 DEF q, Process
  <2>3. q.state = 3 /\ q.id = <<c, 0>> /\ q.ckA = c /\ q.ckB = c
    BY <2>2 DEF Parsers
  <2>4. m.id[1] = c
    BY <1>6 DEF MessageOK
  <2>5. Running(m)[1] = <<c, c>>
    <3>1. 1 \in 1..(l + 4) /\ 1 - 1 = 0 /\ 1 + 2 = i
      BY <1>1, <1>6
    <3>2. Running(m)[1] = Added(<<0, 0>>, c)
      BY <3>1 DEF MessageOK
    <3>3. (0 + c) % 256 = c /\ (0 + 0 + c) % 256 = c
      BY <1>1a, SmallByte
    <3>4. QED BY <3>2, <3>3 DEF Added
  <2>6. StateAt(l, 4) = 3 /\ i + 1 = 4
    BY <1>1, <1>6 DEF StateAt
  <2>7. q.id[1] = m.id[1]
    BY <2>3, <2>4
  <2>8. QED BY <2>3, <2>5, <2>6, <2>7, <1>1 DEF GivenTo
<1>7. CASE i = 4
  <2>1. p.state = 3 /\ p.id[1] = m.id[1]
    BY <1>7, <1>1 DEF GivenTo, StateAt
  <2>2. q = [s EXCEPT !.state = 4, !.id[2] = c]
    BY <2>1 DEF q, s, Process
  <2>3. q.state = 4 /\ q.id = [p.id EXCEPT ![2] = c] /\ q.ckA = s.ckA /\ q.ckB = s.ckB
    BY <2>2, <1>2 DEF Parsers
  <2>4. q.id = m.id
    <3>1. p.id \in Nat \X Nat
      BY DEF Parsers
    <3>2. [p.id EXCEPT ![2] = c] = <<p.id[1], c>>
      BY <3>1
    <3>3. m.id = <<m.id[1], c>>
      BY <1>7 DEF MessageOK
    <3>4. QED BY <3>2, <3>3, <2>1, <2>3
  <2>5. StateAt(l, 5) = 4 /\ i + 1 = 5 /\ i - 2 = 2 /\ i \in 4..(l + 6)
    BY <1>1, <1>7 DEF StateAt
  <2>6. QED BY <2>3, <2>4, <2>5, <1>3, <1>1 DEF GivenTo
<1>8. CASE i = 5
  <2>1. p.state = 4 /\ p.id = m.id
    BY <1>8, <1>1 DEF GivenTo, StateAt
  <2>2. q = [s EXCEPT !.state = 5, !.left = c]
    BY <2>1 DEF q, s, Process
  <2>3. q.state = 5 /\ q.id = p.id /\ q.left = c /\ q.ckA = s.ckA /\ q.ckB = s.ckB
    BY <2>2, <1>2 DEF Parsers
  <2>4. c = l
    BY <1>8 DEF MessageOK
  <2>5. StateAt(l, 6) = 5 /\ i + 1 = 6 /\ i - 2 = 3 /\ i \in 4..(l + 6)
    BY <1>1, <1>8 DEF StateAt
  <2>6. QED BY <2>1, <2>3, <2>4, <2>5, <1>3, <1>1 DEF GivenTo
<1>9. CASE i = 6
  <2>1. p.state = 5 /\ p.id = m.id /\ p.left = l
    <3>1. StateAt(l, i) = 5 /\ i > 4 /\ i \in 6..(6 + l)
      BY <1>9 DEF StateAt
    <3>2. QED BY <3>1, <1>9 DEF GivenTo
  <2>2. c = 0 /\ p.left + 256 * c = l
    <3>1. c = 0
      BY <1>9, <1>1 DEF MessageOK
    <3>2. QED BY <3>1, <2>1
  <2>3. q = IF p.id \in Acks THEN [s EXCEPT !.state = 6, !.left = l]
            ELSE [s EXCEPT !.state = 6, !.left = l, !.length = l, !.buf = <<>>]
    <3>1. q = LET n == p.left + 256 * c
              IN  IF p.id \in Acks
                   THEN [s EXCEPT !.state = 6, !.left = n]
                   ELSE [s EXCEPT !.state = 6, !.left = n, !.length = n, !.buf = <<>>]
      BY <2>1 DEF q, s, Process
    <3>2. QED BY <3>1, <2>2, Zenon
  <2>4. /\ q.state = 6 /\ q.id = p.id /\ q.left = l /\ q.ckA = s.ckA /\ q.ckB = s.ckB
        /\ p.id \notin Acks => q.length = l /\ q.buf = <<>>
    BY <2>3, <1>2 DEF Parsers
  <2>5. StateAt(l, 7) = 6 /\ i + 1 = 7 /\ i - 2 = 4 /\ i \in 4..(l + 6)
    BY <1>1, <1>9 DEF StateAt
  <2>6. Len(<<>>) = 0
    OBVIOUS
  <2>7. m.id \notin Acks => q.length = l /\ Len(q.buf) = 7 - 7
    BY <2>4, <2>1, <2>6
  <2>8. QED BY <2>1, <2>4, <2>5, <2>7, <1>3, <1>1 DEF GivenTo
<1>10. CASE i \in 7..(l + 6)
  <2>1. p.state = 6 /\ p.id = m.id /\ p.left = l + 7 - i
    <3>1. StateAt(l, i) = 6 /\ i > 4 /\ i \in 6..(6 + l) /\ i # 6
      BY <1>10 DEF StateAt
    <3>2. QED BY <3>1 DEF GivenTo
  <2>2. q = [Stored(s, c) EXCEPT !.left = (Stored(s, c).left - 1) % 65536, !.state = IF p.left = 1 THEN 7 ELSE 6]
    BY <2>1 DEF q, s, Process
  <2>3. /\ Stored(s, c).id = p.id /\ Stored(s, c).left = p.left /\ Stored(s, c).length = p.length
        /\ Stored(s, c).ckA = s.ckA /\ Stored(s, c).ckB = s.ckB
    BY <1>2 DEF Stored, Parsers
  <2>4. p.id \notin Acks => Len(p.buf) = i - 7 /\ Stored(s, c).buf = Append(p.buf, c)
    <3>1. ASSUME p.id \notin Acks PROVE Len(p.buf) = i - 7
      BY <3>1, <2>1, <1>10, <1>1 DEF GivenTo
    <3>2. ASSUME p.id \notin Acks PROVE Len(p.buf) # BufferSize
      <4>1. l <= BufferSize /\ Len(p.buf) = i - 7
        BY <3>1, <3>2, <2>1
      <4>2. BufferSize \in Nat
        BY SizesAssumption
      <4>3. \A x \in 1..255 : \A y \in 7..(x + 6), z \in Nat : x <= z => y - 7 # z
        OBVIOUS
      <4>4. QED BY <4>1, <4>2, <4>3, <1>10
    <3>3. s.buf = p.buf /\ s.id = p.id
      BY <1>2 DEF Parsers
    <3>4. QED BY <3>1, <3>2, <3>3, <1>2 DEF Stored, Parsers
  <2>5. (p.left - 1) % 65536 = l + 6 - i
    BY <2>1, <1>10, <1>1
  <2>6. /\ q.state = (IF i = l + 6 THEN 7 ELSE 6) /\ q.id = p.id /\ q.left = l + 6 - i
        /\ q.ckA = s.ckA /\ q.ckB = s.ckB /\ q.length = p.length
        /\ p.id \notin Acks => q.buf = Append(p.buf, c)
    <3> DEFINE r == Stored(s, c)
    <3>1. r \in [state : 0..8, id : Nat \X Nat, left : Nat, length : Nat, buf : Seq(0..256), ckA : Nat, ckB : Nat]
      BY <1>1a, <1>1b, StoredType DEF Parsers
    <3>2. q = [r EXCEPT !.left = (r.left - 1) % 65536, !.state = IF p.left = 1 THEN 7 ELSE 6]
      BY <2>2
    <3>3. (p.left = 1) = (i = l + 6)
      BY <2>1
    <3>4. p.id \notin Acks => r.buf = Append(p.buf, c)
      BY <2>4
    <3> HIDE DEF r, q
    <3>5. /\ q.state = (IF p.left = 1 THEN 7 ELSE 6) /\ q.id = r.id /\ q.left = (r.left - 1) % 65536
          /\ q.ckA = r.ckA /\ q.ckB = r.ckB /\ q.length = r.length /\ q.buf = r.buf
      BY <3>1, <3>2
    <3>6. QED BY <3>3, <3>4, <3>5, <2>3, <2>5 DEF r
  <2>7. /\ (i + 1) - 3 = i - 2 /\ i + 1 # l + 8 /\ StateAt(l, i + 1) = (IF i = l + 6 THEN 7 ELSE 6)
        /\ i \in 4..(l + 6)
    BY <1>1, <1>10 DEF StateAt
  <2>8. ASSUME m.id \notin Acks
        PROVE  /\ q.length = l
               /\ Len(q.buf) = i - 6
               /\ \A j \in 1..(i - 6) : q.buf[j] \in {m.bytes[6 + j], Overwritten}
    <3>1. /\ p.length = l /\ Len(p.buf) = i - 7 /\ p.buf \in Seq(0..256)
          /\ \A j \in 1..(i - 7) : p.buf[j] \in {m.bytes[6 + j], Overwritten}
      <4>1. i > 6 /\ ~ (i > 6 + l)
        BY <1>10
      <4>2. QED BY <4>1, <2>8 DEF GivenTo, Parsers
    <3>2. q.buf = Append(p.buf, c)
      BY <2>8, <2>1, <2>6
    <3>3. Len(q.buf) = i - 6 /\ (\A j \in 1..(i - 7) : q.buf[j] = p.buf[j]) /\ q.buf[i - 6] = c
      BY <3>1, <3>2, <1>10, <1>1
    <3>4. c = m.bytes[6 + (i - 6)]
      BY <1>10, <1>1
    <3>5. ASSUME NEW j \in 1..(i - 6) PROVE q.buf[j] \in {m.bytes[6 + j], Overwritten}
      <4>1. CASE j = i - 6
        BY <4>1, <3>3, <3>4
      <4>2. CASE j # i - 6
        <5>1. j \in 1..(i - 7)
          BY <4>2, <1>1, <1>10
        <5>2. QED BY <5>1, <3>1, <3>3
      <4>3. QED BY <4>1, <4>2
    <3>6. QED BY <3>1, <3>3, <3>5, <2>6
  <2>9. /\ i + 1 # 4 /\ i + 1 > 6 /\ i + 1 # 6 /\ l + 7 - (i + 1) = l + 6 - i
        /\ (IF i + 1 > 6 + l THEN l ELSE (i + 1) - 7) = i - 6
    BY <1>10
  <2>10. <<q.ckA, q.ckB>> = Running(m)[(i + 1) - 3]
    BY <2>6, <2>7, <1>3
  <2>11. QED BY <2>1, <2>6, <2>7, <2>8, <2>9, <2>10 DEF GivenTo
<1>11. CASE i = l + 7
  <2>1. p.state = 7 /\ p.id = m.id /\ <<p.ckA, p.ckB>> = Running(m)[l + 4]
    <3>1. StateAt(l, i) = 7 /\ i - 3 = l + 4 /\ i # l + 8
      BY <1>11, <1>1 DEF StateAt
    <3>2. i > 3 /\ i > 4
      BY <1>11
    <3>3. QED BY <3>1, <3>2 DEF GivenTo
  <2>2. Running(m)[l + 4] = <<m.bytes[l + 7], m.bytes[l + 8]>>
    BY DEF MessageOK
  <2>3. p.ckA = c
    BY <2>1, <2>2, <1>11
  <2>4. q = [p EXCEPT !.state = 8]
    BY <2>1, <2>3 DEF q, Process
  <2>5. q.state = 8 /\ q.id = p.id /\ q.ckA = p.ckA /\ q.ckB = p.ckB /\ q.length = p.length /\ q.buf = p.buf
    BY <2>4 DEF Parsers
  <2>6. StateAt(l, i + 1) = 8 /\ (i + 1) - 4 = l + 4 /\ i + 1 = l + 8
    BY <1>11, <1>1 DEF StateAt
  <2>7. m.id \notin Acks => p.length = l /\ Len(p.buf) = l /\ \A j \in 1..Len(p.buf) : p.buf[j] \in {m.bytes[6 + j], Overwritten}
    BY <1>11, <1>1 DEF GivenTo
  <2>8. QED BY <2>1, <2>5, <2>6, <2>7, <1>1 DEF GivenTo
<1>12. i = 1 \/ i = 2 \/ i = 3 \/ i = 4 \/ i = 5 \/ i = 6 \/ i \in 7..(l + 6) \/ i = l + 7
  OBVIOUS
<1>13. QED BY <1>4, <1>5, <1>6, <1>7, <1>8, <1>9, <1>10, <1>11, <1>12, Zenon

-----------------------------------------------------------------------------
(* The u-blox parser, in step and looking for a beginning                  *)

LEMMA ParserFields ==
  ASSUME NEW p \in Parsers
  PROVE  /\ p.state \in 0..8 /\ p.id \in Nat \X Nat /\ p.left \in Nat /\ p.length \in Nat
         /\ p.buf \in Seq(0..256) /\ p.ckA \in Nat /\ p.ckB \in Nat
BY DEF Parsers

LEMMA NextState ==
  ASSUME NEW p \in Parsers, NEW a \in 0..8
  PROVE  [p EXCEPT !.state = a] \in Parsers
BY DEF Parsers

LEMMA NextId ==
  ASSUME NEW p \in Parsers, NEW a \in 0..8, NEW i \in Nat \X Nat
  PROVE  [p EXCEPT !.state = a, !.id = i] \in Parsers
BY DEF Parsers

LEMMA NextClass ==
  ASSUME NEW p \in Parsers, NEW a \in 0..8, NEW i \in Nat \X Nat, NEW x \in Nat
  PROVE  [p EXCEPT !.state = a, !.id = i, !.ckA = x, !.ckB = x] \in Parsers
BY DEF Parsers

LEMMA NextLeft ==
  ASSUME NEW p \in Parsers, NEW a \in 0..8, NEW x \in Nat
  PROVE  [p EXCEPT !.state = a, !.left = x] \in Parsers
BY DEF Parsers

LEMMA NextCounted ==
  ASSUME NEW p \in Parsers, NEW a \in 0..8, NEW x \in Nat
  PROVE  [p EXCEPT !.left = x, !.state = a] \in Parsers
BY DEF Parsers

LEMMA NextLength ==
  ASSUME NEW p \in Parsers, NEW a \in 0..8, NEW x \in Nat, NEW b \in Seq(0..256)
  PROVE  [p EXCEPT !.state = a, !.left = x, !.length = x, !.buf = b] \in Parsers
BY DEF Parsers

\* A byte leaves a parser a parser.
LEMMA ProcessType ==
  ASSUME NEW p \in Parsers, NEW c \in Byte
  PROVE  Process(p, c) \in Parsers
<1> DEFINE q == Process(p, c)
           s == Summed(p, c)
           r == Stored(s, c)
           n == p.left + 256 * c
<1>1. s \in Parsers /\ r \in Parsers
  BY SummedType, StoredType
<1>2. c \in Nat /\ n \in Nat
  BY DEF Parsers, Byte
<1>3. (r.left - 1) % 65536 \in Nat
  <2> HIDE DEF s, r, n
  <2>0. r.left \in Nat
    BY <1>1, ParserFields
  <2>1. r.left - 1 \in Int
    BY <2>0
  <2>2. \A x \in Int : x % 65536 \in Nat
    OBVIOUS
  <2>3. QED BY <2>1, <2>2
<1>4. \/ p.state = 0 /\ q = (IF c = Sync1 THEN [p EXCEPT !.state = 1] ELSE p)
      \/ p.state = 1 /\ q = [p EXCEPT !.state = IF c = Sync2 THEN 2 ELSE 0]
      \/ p.state = 2 /\ q = [p EXCEPT !.state = 3, !.id = <<c, 0>>, !.ckA = c, !.ckB = c]
      \/ p.state = 3 /\ q = [s EXCEPT !.state = 4, !.id[2] = c]
      \/ p.state = 4 /\ q = [s EXCEPT !.state = 5, !.left = c]
      \/ p.state = 5 /\ q = (IF p.id \in Acks
                               THEN [s EXCEPT !.state = 6, !.left = n]
                               ELSE [s EXCEPT !.state = 6, !.left = n, !.length = n, !.buf = <<>>])
      \/ p.state = 6 /\ q = [r EXCEPT !.left = (r.left - 1) % 65536, !.state = IF p.left = 1 THEN 7 ELSE 6]
      \/ p.state = 7 /\ q = [p EXCEPT !.state = IF c = p.ckA THEN 8 ELSE 0]
      \/ p.state = 8 /\ q = [p EXCEPT !.state = 0]
  <2>1. p.state \in 0..8
    BY DEF Parsers
  <2> HIDE DEF s, r, n
  <2>2. q = CASE p.state = 0 -> IF c = Sync1 THEN [p EXCEPT !.state = 1] ELSE p
        [] p.state = 1 -> [p EXCEPT !.state = IF c = Sync2 THEN 2 ELSE 0]
        [] p.state = 2 -> [p EXCEPT !.state = 3, !.id = <<c, 0>>, !.ckA = c, !.ckB = c]
        [] p.state = 3 -> [s EXCEPT !.state = 4, !.id[2] = c]
        [] p.state = 4 -> [s EXCEPT !.state = 5, !.left = c]
        [] p.state = 5 -> IF p.id \in Acks
                            THEN [s EXCEPT !.state = 6, !.left = n]
                            ELSE [s EXCEPT !.state = 6, !.left = n, !.length = n, !.buf = <<>>]
        [] p.state = 6 -> [r EXCEPT !.left = (r.left - 1) % 65536, !.state = IF p.left = 1 THEN 7 ELSE 6]
        [] p.state = 7 -> [p EXCEPT !.state = IF c = p.ckA THEN 8 ELSE 0]
        [] p.state = 8 -> [p EXCEPT !.state = 0]
    BY DEF Process, s, r, n
  <2> HIDE DEF q
  <2>3. QED BY <2>1, <2>2
<1> SUFFICES q \in Parsers
  OBVIOUS
<1>5. <<>> \in Seq(0..256)
  BY EmptySeq
<1> HIDE DEF q, s, r, n
<1>6. 0 \in 0..8 /\ 1 \in 0..8 /\ 2 \in 0..8 /\ 3 \in 0..8 /\ 4 \in 0..8 /\ 5 \in 0..8 /\ 6 \in 0..8 /\ 7 \in 0..8 /\ 8 \in 0..8
  OBVIOUS
<1>7. CASE p.state = 0
  <2>1. q = p \/ q = [p EXCEPT !.state = 1]
    BY <1>4, <1>7
  <2>2. QED BY <2>1, <1>6, NextState
<1>8. CASE p.state = 1
  <2>1. q = [p EXCEPT !.state = 0] \/ q = [p EXCEPT !.state = 2]
    BY <1>4, <1>8
  <2>2. QED BY <2>1, <1>6, NextState
<1>9. CASE p.state = 2
  <2>1. q = [p EXCEPT !.state = 3, !.id = <<c, 0>>, !.ckA = c, !.ckB = c]
    BY <1>4, <1>9
  <2>2. <<c, 0>> \in Nat \X Nat
    BY <1>2
  <2>3. QED BY <2>1, <2>2, <1>2, <1>6, NextClass
<1>10. CASE p.state = 3
  <2> DEFINE v == [s.id EXCEPT ![2] = c]
  <2>1. q = [s EXCEPT !.state = 4, !.id = v]
    <3>1. q = [s EXCEPT !.state = 4, !.id[2] = c]
      BY <1>4, <1>10
    <3>2. QED BY <3>1
  <2>2. v \in Nat \X Nat
    <3>1. s.id \in Nat \X Nat
      BY <1>1, ParserFields
    <3>2. ASSUME NEW d \in Nat \X Nat PROVE [d EXCEPT ![2] = c] \in Nat \X Nat
      BY <1>2
    <3>3. QED BY <3>1, <3>2
  <2> HIDE DEF v
  <2>3. QED BY <2>1, <2>2, <1>1, <1>6, NextId
<1>11. CASE p.state = 4
  <2>1. q = [s EXCEPT !.state = 5, !.left = c]
    BY <1>4, <1>11
  <2>2. QED BY <2>1, <1>1, <1>2, <1>6, NextLeft
<1>12. CASE p.state = 5
  <2> DEFINE e == <<>>
  <2>1. \/ q = [s EXCEPT !.state = 6, !.left = n]
        \/ q = [s EXCEPT !.state = 6, !.left = n, !.length = n, !.buf = e]
    BY <1>4, <1>12
  <2>2. e \in Seq(0..256)
    BY <1>5
  <2> HIDE DEF e
  <2>3. [s EXCEPT !.state = 6, !.left = n] \in Parsers
    BY <1>1, <1>2, <1>6, NextLeft
  <2>4. [s EXCEPT !.state = 6, !.left = n, !.length = n, !.buf = e] \in Parsers
    BY <2>2, <1>1, <1>2, <1>6, NextLength
  <2>5. QED BY <2>1, <2>3, <2>4, Zenon
<1>13. CASE p.state = 6
  <2> DEFINE x == (r.left - 1) % 65536
  <2>1. q = [r EXCEPT !.left = x, !.state = IF p.left = 1 THEN 7 ELSE 6]
    BY <1>4, <1>13
  <2>2. x \in Nat
    BY <1>3
  <2> HIDE DEF x
  <2> DEFINE a == IF p.left = 1 THEN 7 ELSE 6
  <2>3. a \in 0..8
    OBVIOUS
  <2> HIDE DEF a
  <2>4. [r EXCEPT !.left = x, !.state = a] \in Parsers
    BY <2>2, <2>3, <1>1, NextCounted
  <2>5. QED BY <2>1, <2>4 DEF a
<1>14. CASE p.state = 7
  <2>1. q = [p EXCEPT !.state = 0] \/ q = [p EXCEPT !.state = 8]
    BY <1>4, <1>14
  <2>2. QED BY <2>1, <1>6, NextState
<1>15. CASE p.state = 8
  <2>1. q = [p EXCEPT !.state = 0]
    BY <1>4, <1>15
  <2>2. QED BY <2>1, <1>6, NextState
<1>16. QED
  <2>1. p.state \in 0..8
    BY ParserFields
  <2>2. QED BY <2>1, <1>7, <1>8, <1>9, <1>10, <1>11, <1>12, <1>13, <1>14, <1>15

\* With its last byte a message is whole.
LEMMA LastByte ==
  ASSUME NEW p \in Parsers, NEW m, NEW l \in 1..255, MessageOK(m, l), GivenTo(p, m, l, l + 8)
  PROVE  LET c == m.bytes[l + 8]
         IN  /\ p.state = 8 /\ Whole(p, c) /\ p.id = m.id
             /\ Process(p, c).state = 0
             /\ m.id \notin Acks => /\ p.length = l /\ Len(p.buf) = l
                                    /\ \A j \in 1..l : p.buf[j] \in {m.bytes[6 + j], Overwritten}
<1> DEFINE c == m.bytes[l + 8]
<1>1. StateAt(l, l + 8) = 8 /\ l + 8 > 3 /\ l + 8 > 4 /\ l + 8 > 6 /\ (l + 8) - 4 = l + 4 /\ l + 8 > 6 + l
  BY DEF StateAt
<1>2. p.state = 8 /\ p.id = m.id /\ <<p.ckA, p.ckB>> = Running(m)[l + 4]
  BY <1>1 DEF GivenTo
<1>3. Running(m)[l + 4] = <<m.bytes[l + 7], c>>
  BY DEF MessageOK
<1>4. Whole(p, c)
  BY <1>2, <1>3 DEF Whole
<1>5. Process(p, c).state = 0
  <2>1. Process(p, c) = [p EXCEPT !.state = 0]
    BY <1>2 DEF Process
  <2>2. QED BY <2>1 DEF Parsers
<1>6. m.id \notin Acks => /\ p.length = l /\ Len(p.buf) = l
                          /\ \A j \in 1..l : p.buf[j] \in {m.bytes[6 + j], Overwritten}
  BY <1>1 DEF GivenTo
<1>7. QED BY <1>2, <1>4, <1>5, <1>6

\* In step the parser is in state 8 at the last byte only.
LEMMA NotBefore ==
  ASSUME NEW p, NEW m, NEW l \in 1..255, NEW i \in 1..(l + 8), GivenTo(p, m, l, i), p.state = 8
  PROVE  i = l + 8
<1>1. StateAt(l, i) = 8
  BY DEF GivenTo
<1>2. QED BY <1>1 DEF StateAt

LEMMA AtFirst ==
  ASSUME NEW p, NEW m, NEW l \in 1..255
  PROVE  GivenTo(p, m, l, 1) <=> p.state = 0
<1>1. StateAt(l, 1) = 0 /\ ~ (1 \in 6..(6 + l))
  BY DEF StateAt
<1>2. QED BY <1>1 DEF GivenTo

Overwrite(p) == [p EXCEPT !.buf = [i \in DOMAIN @ |-> Overwritten]]

LEMMA OverwriteKeeps ==
  ASSUME NEW p \in Parsers
  PROVE  /\ Overwrite(p) \in Parsers /\ Overwrite(p).state = p.state
         /\ \A m, l, i : GivenTo(p, m, l, i) => GivenTo(Overwrite(p), m, l, i)
<1> DEFINE b == [i \in DOMAIN p.buf |-> Overwritten]
           q == Overwrite(p)
<1>1. q = [p EXCEPT !.buf = b]
  BY DEF Overwrite
<1>2. p.buf \in Seq(0..256)
  BY DEF Parsers
<1>3. b \in Seq(0..256) /\ Len(b) = Len(p.buf) /\ \A j \in 1..Len(b) : b[j] = Overwritten
  <2>1. DOMAIN p.buf = 1..Len(p.buf) /\ Len(p.buf) \in Nat
    BY <1>2, LenProperties
  <2>2. Overwritten \in 0..256
    BY DEF Overwritten
  <2>3. b \in [1..Len(p.buf) -> 0..256]
    BY <2>1, <2>2
  <2>4. \A j \in 1..Len(p.buf) : b[j] = Overwritten
    BY <2>1
  <2> DEFINE k == Len(p.buf)
  <2>5. k \in Nat /\ b \in [1..k -> 0..256]
    BY <2>1, <2>3
  <2> HIDE DEF b, k
  <2>6. b \in Seq(0..256) /\ Len(b) = k
    BY <2>5
  <2>7. QED BY <2>4, <2>6 DEF k
<1> HIDE DEF b, q
<1>4. /\ q.state = p.state /\ q.id = p.id /\ q.left = p.left /\ q.length = p.length
      /\ q.buf = b /\ q.ckA = p.ckA /\ q.ckB = p.ckB /\ q \in Parsers
  <2>1. p.ckA \in Nat
    BY DEF Parsers
  <2>2. q \in Parsers
    BY <1>1, <1>3, <2>1, Replaced, Zenon
  <2>3. QED BY <1>1, <2>2 DEF Parsers
<1>5. ASSUME NEW m, NEW l, NEW i, GivenTo(p, m, l, i) PROVE GivenTo(q, m, l, i)
  BY <1>3, <1>4, <1>5 DEF GivenTo
<1>6. QED BY <1>4, <1>5 DEF q

\* In the states 0 and 1 the parser looks for a beginning.
LEMMA Looking ==
  ASSUME NEW p \in Parsers, NEW c
  PROVE  /\ p.state = 0 => Process(p, c).state = (IF c = Sync1 THEN 1 ELSE 0)
         /\ p.state = 0 /\ c # Sync1 => Process(p, c) = p
         /\ p.state = 1 => Process(p, c).state = (IF c = Sync2 THEN 2 ELSE 0)
<1>1. p.state = 0 => Process(p, c) = IF c = Sync1 THEN [p EXCEPT !.state = 1] ELSE p
  BY DEF Process
<1>2. p.state = 1 => Process(p, c) = [p EXCEPT !.state = IF c = Sync2 THEN 2 ELSE 0]
  BY DEF Process
<1>3. QED BY <1>1, <1>2 DEF Parsers

-----------------------------------------------------------------------------
(* The line between receiver and driver                                    *)

\* The same of the messages that were sent.
LEMMA FrameFacts ==
  ASSUME UbloxTypeInv, NEW n \in DOMAIN frames
  PROVE  /\ n \in 1..MaxFrames /\ frames[n] \in Messages(n)
         /\ FrameSizes[n] = PayloadLength(frames[n]) + 8
         /\ PayloadLength(frames[n]) \in 1..255
         /\ MessageOK(frames[n], PayloadLength(frames[n]))
         /\ \A i \in 1..FrameSizes[n] : frames[n].bytes[i] \in Byte
<1>1. DOMAIN frames = 1..Len(frames) /\ Len(frames) \in Nat /\ Len(frames) <= MaxFrames /\ MaxFrames \in Nat
  BY LenProperties, SizesAssumption DEF UbloxTypeInv
<1>2. n \in 1..MaxFrames
  BY <1>1
<1>3. frames[n] \in Messages(n)
  BY DEF UbloxTypeInv
<1> DEFINE m == frames[n]
           l == PayloadLength(m)
<1>4. MessageOK(m, l) /\ l \in 1..255
  BY <1>2, <1>3, MessageFacts
<1>5. m.bytes \in Seq(Byte) /\ Len(m.bytes) = l + 8
  BY <1>4 DEF MessageOK
<1>6. \A i \in 1..Len(m.bytes) : m.bytes[i] \in Byte
  BY <1>5, ElementOfSeq, Zenon
<1>7. FrameSizes[n] = Len(m.bytes)
  BY <1>1 DEF FrameSizes
<1>8. QED BY <1>2, <1>3, <1>4, <1>5, <1>6, <1>7

\* The line without its first n bytes.
LEMMA Dropped ==
  ASSUME UbloxTypeInv, NEW n \in 0..Len(line), NEW t, t = SubSeq(line, n + 1, Len(line))
  PROVE  /\ t \in Seq(Nat \X Nat) /\ Len(t) = Len(line) - n /\ Len(line) \in Nat
         /\ \A j \in 1..Len(t) : t[j] = line[n + j]
<1> DEFINE k == Len(line)
<1>1. line \in Seq(Nat \X Nat) /\ k \in Nat
  BY LenProperties DEF UbloxTypeInv
<1>2. \A i \in 1..k : line[i] \in Nat \X Nat
  BY <1>1, ElementOfSeq, Zenon
<1>3. n \in 0..k /\ t = SubSeq(line, n + 1, k)
  OBVIOUS
<1> HIDE DEF k
<1>4. n + 1 \in Int /\ k \in Int /\ \A i \in (n + 1)..k : line[i] \in Nat \X Nat
  BY <1>1, <1>2, <1>3
<1>5. /\ t \in Seq(Nat \X Nat)
      /\ Len(t) = IF n + 1 <= k THEN k - (n + 1) + 1 ELSE 0
      /\ \A i \in 1..(k - (n + 1) + 1) : t[i] = line[(n + 1) + i - 1]
  BY <1>3, <1>4, SubSeqProperties
<1>6. Len(t) = k - n
  BY <1>1, <1>3, <1>5
<1>7. \A j \in 1..(k - n) : t[j] = line[n + j]
  <2>1. ASSUME NEW j \in 1..(k - n) PROVE t[j] = line[n + j]
    <3>1. k - (n + 1) + 1 = k - n /\ (n + 1) + j - 1 = n + j
      BY <1>1, <1>3
    <3>2. QED BY <1>5, <3>1
  <2>2. QED BY <2>1
<1>8. QED BY <1>1, <1>5, <1>6, <1>7 DEF k

\* It still has no gap,
LEMMA GaplessDropped ==
  ASSUME NEW t, NEW h \in Nat, NEW k \in Nat, NEW z, Gapless(t, h, k, z),
         NEW n \in 0..h, NEW u, NEW g, g = h - n, \A j \in 1..g : u[j] = t[n + j]
  PROVE  Gapless(u, g, k, z)
<1>1. \A j \in 1..g : n + j \in 1..h
  OBVIOUS
<1>2. \A j \in 1..g : u[j][1] \in 1..k /\ u[j][2] \in 1..z[u[j][1]]
  BY <1>1 DEF Gapless
<1>3. \A j \in 1..(g - 1) : u[j + 1] = After(u[j], z)
  <2>1. ASSUME NEW j \in 1..(g - 1) PROVE u[j + 1] = After(u[j], z)
    <3>1. j + 1 \in 1..g /\ j \in 1..g /\ n + (j + 1) = (n + j) + 1 /\ n + j \in 1..(h - 1)
      OBVIOUS
    <3>2. u[j + 1] = t[(n + j) + 1] /\ u[j] = t[n + j]
      BY <3>1
    <3>3. QED BY <3>1, <3>2 DEF Gapless
  <2>2. QED BY <2>1
<1>4. g > 0 => u[g] = <<k, z[k]>>
  <2>1. n + g = h /\ (g > 0 => g \in 1..g /\ h > 0)
    OBVIOUS
  <2>2. QED BY <2>1 DEF Gapless
<1>5. \A i, j \in 1..g : i < j => u[i][1] <= u[j][1]
  <2>1. ASSUME NEW i \in 1..g, NEW j \in 1..g, i < j PROVE u[i][1] <= u[j][1]
    <3>1. n + i \in 1..h /\ n + j \in 1..h /\ n + i < n + j
      BY <1>1, <2>1
    <3>2. u[i] = t[n + i] /\ u[j] = t[n + j]
      OBVIOUS
    <3>3. QED BY <3>1, <3>2 DEF Gapless
  <2>2. QED BY <2>1
<1>6. QED BY <1>2, <1>3, <1>4, <1>5 DEF Gapless

Grows(t, h, k, z, l, u, y) ==
  /\ z \in [1..k -> Nat] /\ (\A n \in 1..k : y[n] = z[n]) /\ y[k + 1] = l
  /\ \A j \in 1..h : u[j] = t[j]
  /\ \A j \in 1..l : u[h + j] = <<k + 1, j>>

\* nor has a line to which a frame was added.
LEMMA GaplessJoined ==
  ASSUME NEW t, NEW h \in Nat, NEW k \in Nat, NEW z, Gapless(t, h, k, z),
         NEW l \in Nat \ {0}, NEW u, NEW y, Grows(t, h, k, z, l, u, y)
  PROVE  Gapless(u, h + l, k + 1, y)
<1> SUFFICES ASSUME NEW g \in Nat, g = h + l,
                    z \in [1..k -> Nat], \A n \in 1..k : y[n] = z[n], y[k + 1] = l,
                    \A j \in 1..h : u[j] = t[j], \A j \in 1..l : u[h + j] = <<k + 1, j>>
             PROVE  Gapless(u, g, k + 1, y)
  <2>1. h + l \in Nat
    OBVIOUS
  <2>2. QED BY <2>1 DEF Grows
<1>1. \A j \in 1..h : u[j] = t[j] /\ t[j][1] \in 1..k /\ t[j][2] \in 1..z[t[j][1]]
  BY DEF Gapless
<1>2. \A j \in (h + 1)..g : u[j] = <<k + 1, j - h>> /\ j - h \in 1..l
  <2>1. ASSUME NEW j \in (h + 1)..g PROVE u[j] = <<k + 1, j - h>> /\ j - h \in 1..l
    <3>1. j - h \in 1..l /\ h + (j - h) = j
      OBVIOUS
    <3>2. u[h + (j - h)] = <<k + 1, j - h>>
      BY <3>1
    <3>3. QED BY <3>1, <3>2
  <2>2. QED BY <2>1
<1>3. ASSUME NEW j \in 1..g PROVE u[j][1] \in 1..(k + 1) /\ u[j][2] \in 1..y[u[j][1]]
  <2>1. CASE j \in 1..h
    <3>1. y[t[j][1]] = z[t[j][1]]
      BY <1>1, <2>1
    <3>2. \A x \in 1..k : x \in 1..(k + 1)
      OBVIOUS
    <3>3. t[j][1] \in 1..(k + 1) /\ t[j][2] \in 1..y[t[j][1]]
      BY <1>1, <2>1, <3>1, <3>2
    <3>4. QED BY <1>1, <2>1, <3>3
  <2>2. CASE j \in (h + 1)..g
    BY <1>2, <2>2
  <2>3. QED BY <2>1, <2>2
<1>4. ASSUME NEW j \in 1..(g - 1) PROVE u[j + 1] = After(u[j], y)
  <2>1. CASE j \in 1..(h - 1)
    <3>1. u[j] = t[j] /\ u[j + 1] = t[j + 1] /\ t[j + 1] = After(t[j], z) /\ t[j][1] \in 1..k
      BY <1>1, <2>1 DEF Gapless
    <3>2. y[t[j][1]] = z[t[j][1]]
      BY <3>1
    <3>3. QED BY <3>1, <3>2 DEF After
  <2>2. CASE j = h
    <3>1. u[h] = t[h] /\ t[h] = <<k, z[k]>> /\ k \in 1..k
      BY <1>1, <2>2 DEF Gapless
    <3>2. u[h + 1] = <<k + 1, 1>>
      <4>1. 1 \in 1..l
        OBVIOUS
      <4>2. QED BY <4>1, Zenon
    <3>3. y[k] = z[k] /\ z[k] \in Nat
      BY <3>1
    <3>4. ~ (z[k] < z[k])
      BY <3>3
    <3>5. QED BY <2>2, <3>1, <3>2, <3>3, <3>4 DEF After
  <2>3. CASE j \in (h + 1)..(g - 1)
    <3>1. j + 1 \in (h + 1)..g /\ j \in (h + 1)..g /\ (j + 1) - h = (j - h) + 1 /\ j - h < l
      BY <2>3
    <3>2. u[j] = <<k + 1, j - h>> /\ u[j + 1] = <<k + 1, (j - h) + 1>>
      BY <1>2, <3>1
    <3>3. QED BY <3>1, <3>2 DEF After
  <2>4. QED BY <2>1, <2>2, <2>3
<1>5. u[g] = <<k + 1, y[k + 1]>>
  BY <1>2
<1>6. ASSUME NEW i \in 1..g, NEW j \in 1..g, i < j PROVE u[i][1] <= u[j][1]
  <2>1. CASE j \in 1..h
    <3>1. i \in 1..h
      BY <2>1, <1>6
    <3>2. QED BY <1>1, <1>6, <2>1, <3>1 DEF Gapless
  <2>2. CASE j \in (h + 1)..g
    <3>1. u[j][1] = k + 1
      BY <1>2, <2>2
    <3>2. u[i][1] \in 1..(k + 1)
      BY <1>3
    <3>3. QED BY <3>1, <3>2
  <2>3. QED BY <2>1, <2>2
<1>7. QED BY <1>3, <1>4, <1>5, <1>6 DEF Gapless

LEMMA DroppedLine ==
  ASSUME UbloxTypeInv, LineInv, UNCHANGED frames,
         NEW n \in 0..Len(line), line' = SubSeq(line, n + 1, Len(line))
  PROVE  LineInv'
<1>1. Len(line) \in Nat /\ Len(frames) \in Nat /\ Len(line') = Len(line) - n
      /\ \A j \in 1..Len(line') : line'[j] = line[n + j]
  BY Dropped, LenProperties DEF UbloxTypeInv
<1>2. Gapless(line', Len(line'), Len(frames), FrameSizes)
  BY <1>1, GaplessDropped, ZenonT(60) DEF LineInv
<1>3. FrameSizes' = FrameSizes /\ Len(frames') = Len(frames)
  BY DEF FrameSizes
<1>4. QED BY <1>2, <1>3 DEF LineInv

LEMMA Places ==
  ASSUME NEW k \in Nat, NEW g \in Nat
  PROVE  /\ [i \in 1..g |-> <<k + 1, i>>] \in Seq(Nat \X Nat)
         /\ Len([i \in 1..g |-> <<k + 1, i>>]) = g
<1> DEFINE s == [i \in 1..g |-> <<k + 1, i>>]
<1>1. s \in [1..g -> Nat \X Nat]
  OBVIOUS
<1> HIDE DEF s
<1>2. s \in Seq(Nat \X Nat) /\ Len(s) = g
  BY <1>1
<1>3. QED BY <1>2 DEF s

LEMMA Indices ==
  ASSUME NEW h \in Nat, NEW g \in Nat
  PROVE  /\ \A j \in 1..h : j \in 1..(h + g) /\ j <= h
         /\ \A j \in 1..g : h + j \in 1..(h + g) /\ ~ (h + j <= h) /\ (h + j) - h = j
OBVIOUS

\* A message that is sent.
LEMMA PutsEffect ==
  ASSUME UbloxTypeInv, NEW m \in Messages(Len(frames) + 1), Puts(m)
  PROVE  /\ Len(frames) \in Nat /\ Len(frames) + 1 \in 1..MaxFrames /\ Len(line) \in Nat
         /\ m.bytes \in Seq(Byte) /\ Len(m.bytes) \in Nat \ {0}
         /\ frames' \in Seq(AllMessages) /\ Len(frames') = Len(frames) + 1
         /\ frames'[Len(frames) + 1] = m
         /\ \A n \in 1..Len(frames) : frames'[n] = frames[n]
         /\ line' \in Seq(Nat \X Nat) /\ Len(line') = Len(line) + Len(m.bytes)
         /\ \A j \in 1..Len(line) : line'[j] = line[j]
         /\ \A j \in 1..Len(m.bytes) : line'[Len(line) + j] = <<Len(frames) + 1, j>>
<1>1. /\ Len(frames) \in Nat /\ Len(frames) + 1 \in 1..MaxFrames /\ Len(line) \in Nat
  BY LenProperties, SizesAssumption DEF UbloxTypeInv, Puts
<1>2. m \in AllMessages
  BY <1>1, Zenon DEF AllMessages
<1>3. m.bytes \in Seq(Byte) /\ Len(m.bytes) \in Nat \ {0}
  <2>1. PayloadLength(m) \in 1..255 /\ m.bytes \in Seq(Byte) /\ Len(m.bytes) = PayloadLength(m) + 8
    BY <1>1, MessageFacts DEF MessageOK
  <2>2. \A l \in 1..255 : l + 8 \in Nat \ {0}
    OBVIOUS
  <2>3. QED BY <2>1, <2>2
<1>4. frames \in Seq(AllMessages) /\ frames' = Append(frames, m)
  BY DEF UbloxTypeInv, AllMessages, Puts
<1>5. /\ frames' \in Seq(AllMessages) /\ Len(frames') = Len(frames) + 1
      /\ frames'[Len(frames) + 1] = m /\ \A n \in 1..Len(frames) : frames'[n] = frames[n]
  BY <1>2, <1>4, AppendProperties
<1> DEFINE s == [i \in 1..Len(m.bytes) |-> <<Len(frames) + 1, i>>]
<1>6. line' = line \o s
  <2>1. DOMAIN m.bytes = 1..Len(m.bytes)
    BY <1>3, LenProperties
  <2>2. QED BY <2>1 DEF Puts
<1>7. s \in Seq(Nat \X Nat) /\ Len(s) = Len(m.bytes)
  BY <1>1, <1>3, Places
<1>8. \A j \in 1..Len(m.bytes) : s[j] = <<Len(frames) + 1, j>>
  OBVIOUS
<1> HIDE DEF s
<1>9. line \in Seq(Nat \X Nat)
  BY DEF UbloxTypeInv
<1>10. /\ line' \in Seq(Nat \X Nat) /\ Len(line') = Len(line) + Len(s)
       /\ \A j \in 1..Len(line) + Len(s) : line'[j] = IF j <= Len(line) THEN line[j] ELSE s[j - Len(line)]
  <2>1. /\ line \o s \in Seq(Nat \X Nat) /\ Len(line \o s) = Len(line) + Len(s)
        /\ \A j \in 1..Len(line) + Len(s) :
             (line \o s)[j] = IF j <= Len(line) THEN line[j] ELSE s[j - Len(line)]
    BY <1>7, <1>9, ConcatProperties, Zenon
  <2>2. QED BY <2>1, <1>6, Zenon
<1>11. /\ \A j \in 1..Len(line) : line'[j] = line[j]
       /\ \A j \in 1..Len(s) : line'[Len(line) + j] = s[j]
  <2>1. Len(line) \in Nat /\ Len(s) \in Nat
    BY <1>1, <1>3, <1>7
  <2>2. \A j \in 1..(Len(line) + Len(s)) : line'[j] = IF j <= Len(line) THEN line[j] ELSE s[j - Len(line)]
    BY <1>10
  <2>3. /\ \A j \in 1..Len(line) : j \in 1..(Len(line) + Len(s)) /\ j <= Len(line)
        /\ \A j \in 1..Len(s) : /\ Len(line) + j \in 1..(Len(line) + Len(s)) /\ ~ (Len(line) + j <= Len(line))
                               /\ (Len(line) + j) - Len(line) = j
    BY <2>1, Indices
  <2>4. QED BY <2>2, <2>3
<1>12. QED BY <1>1, <1>3, <1>5, <1>7, <1>8, <1>10, <1>11

LEMMA PutsLine ==
  ASSUME UbloxTypeInv, LineInv, NEW m \in Messages(Len(frames) + 1), Puts(m)
  PROVE  LineInv'
<1>1. /\ Len(frames) \in Nat /\ Len(line) \in Nat /\ Len(m.bytes) \in Nat \ {0}
      /\ Len(frames') = Len(frames) + 1
      /\ frames'[Len(frames) + 1] = m
      /\ \A n \in 1..Len(frames) : frames'[n] = frames[n]
      /\ Len(line') = Len(line) + Len(m.bytes)
      /\ \A j \in 1..Len(line) : line'[j] = line[j]
      /\ \A j \in 1..Len(m.bytes) : line'[Len(line) + j] = <<Len(frames) + 1, j>>
  BY PutsEffect
<1>2. FrameSizes' = [n \in 1..(Len(frames) + 1) |-> Len(frames'[n].bytes)]
  BY <1>1 DEF FrameSizes
<1>3. \A n \in 1..Len(frames) : FrameSizes'[n] = FrameSizes[n]
  <2>1. ASSUME NEW n \in 1..Len(frames) PROVE FrameSizes'[n] = FrameSizes[n]
    <3>1. n \in 1..(Len(frames) + 1) /\ frames'[n] = frames[n]
      BY <1>1
    <3>2. FrameSizes'[n] = Len(frames'[n].bytes)
      BY <1>2, <3>1
    <3>3. FrameSizes[n] = Len(frames[n].bytes)
      BY DEF FrameSizes
    <3>4. QED BY <3>1, <3>2, <3>3
  <2>2. QED BY <2>1
<1>4. FrameSizes'[Len(frames) + 1] = Len(m.bytes)
  <2>1. Len(frames) + 1 \in 1..(Len(frames) + 1)
    BY <1>1
  <2>2. FrameSizes'[Len(frames) + 1] = Len(frames'[Len(frames) + 1].bytes)
    BY <1>2, <2>1
  <2>3. QED BY <2>2, <1>1
<1>5. FrameSizes \in [1..Len(frames) -> Nat]
  <2>1. ASSUME NEW n \in 1..Len(frames) PROVE Len(frames[n].bytes) \in Nat
    <3>1. n \in DOMAIN frames
      BY LenProperties DEF UbloxTypeInv
    <3>2. frames[n].bytes \in Seq(Byte)
      BY <3>1, FrameFacts DEF MessageOK
    <3>3. QED BY <3>2, LenProperties
  <2>2. QED BY <2>1 DEF FrameSizes
<1>6. Gapless(line, Len(line), Len(frames), FrameSizes)
  BY DEF LineInv
<1>7. Gapless(line', Len(line) + Len(m.bytes), Len(frames) + 1, FrameSizes')
  <2>1. /\ Len(frames) \in Nat /\ Len(line) \in Nat /\ Len(m.bytes) \in Nat \ {0}
    BY <1>1
  <2>2. \A j \in 1..Len(line) : line'[j] = line[j]
    BY <1>1
  <2>3. \A j \in 1..Len(m.bytes) : line'[Len(line) + j] = <<Len(frames) + 1, j>>
    BY <1>1
  <2>4. Grows(line, Len(line), Len(frames), FrameSizes, Len(m.bytes), line', FrameSizes')
    BY <2>2, <2>3, <1>3, <1>4, <1>5, Zenon DEF Grows
  <2>5. QED BY <2>1, <2>4, <1>6, GaplessJoined, Zenon
<1>8. QED BY <1>1, <1>7 DEF LineInv

LEMMA Sending ==
  ASSUME UbloxTypeInv, NEW c \in Commands, Send(c)
  PROVE  commands' \in Seq(Commands)
<1>1. commands \in Seq(Commands)
  BY DEF UbloxTypeInv
<1>2. Append(commands, c) \in Seq(Commands)
  BY <1>1, AppendProperties
<1>3. QED BY <1>1, <1>2 DEF Send

LEMMA Returns ==
  ASSUME UbloxTypeInv, NEW f, NEW p \in Parsers, Return(f, p), stage \notin {"off", "enabled"}
  PROVE  /\ parser' \in {p, Overwrite(p)} /\ (f = FALSE => parser' = p)
         /\ stage' \in {"set", "msg", "running"}
         /\ commands' \in Seq(Commands) /\ delegate' \in BOOLEAN
<1>1. \/ stage' = "set" /\ Send("set") /\ delegate' = delegate /\ parser' = Overwrite(p) /\ f
      \/ stage' = "msg" /\ Send("msg") /\ delegate' = delegate /\ parser' = p
      \/ stage' = "running" /\ delegate' \in {TRUE, delegate} /\ commands' = commands /\ parser' = p
  <2>1. CASE stage = "get" /\ f
    BY <2>1 DEF Return, Overwrite
  <2>2. CASE stage = "set"
    BY <2>2 DEF Return
  <2>3. CASE stage = "msg"
    BY <2>3 DEF Return
  <2>4. CASE ~ (stage = "get" /\ f) /\ stage # "set" /\ stage # "msg"
    BY <2>4 DEF Return
  <2>5. QED BY <2>1, <2>2, <2>3, <2>4
<1>2. "set" \in Commands /\ "msg" \in Commands
  BY DEF Commands
<1>3. commands \in Seq(Commands) /\ delegate \in BOOLEAN
  BY DEF UbloxTypeInv
<1>4. commands' \in Seq(Commands)
  BY <1>1, <1>2, <1>3, Sending
<1>5. delegate' \in BOOLEAN
  BY <1>1, <1>3
<1>6. QED BY <1>1, <1>4, <1>5

\* What a byte that is given to the parser changes.
LEMMA Gives ==
  ASSUME UbloxTypeInv, NEW c \in Byte, NEW n \in Nat, Give(c, n), stage \notin {"off", "enabled"}
  PROVE  /\ parser' \in {Process(parser, c), Overwrite(Process(parser, c))}
         /\ parser' \in Parsers
         /\ stage' \notin {"off", "enabled"}
         /\ stage' \in {"off", "enabled", "get", "set", "msg", "running"}
         /\ commands' \in Seq(Commands) /\ {delegate', found'} \subseteq BOOLEAN
         /\ LET pvt == Received(NavPvt, c) /\ parser.length = PvtLength
            IN  \/ pvt /\ taken' = Append(taken, [frame |-> n, buf |-> parser.buf]) /\ swallowed' = swallowed
                \/ pvt /\ taken' = taken /\ swallowed' = swallowed \cup {n}
                \/ ~pvt /\ taken' = taken /\ swallowed' = swallowed
         /\ taken' \in Seq(Takings) /\ swallowed' \subseteq Nat
<1> DEFINE pvt == Received(NavPvt, c) /\ parser.length = PvtLength
           q == Process(parser, c)
<1>1. q \in Parsers /\ Overwrite(q) \in Parsers
  BY ProcessType, OverwriteKeeps DEF UbloxTypeInv
<1>2. \/ Return(found', q)
      \/ parser' = q /\ stage' = stage /\ delegate' = delegate /\ commands' = commands
  BY Zenon DEF Give, Parsed
<1>3. found' \in BOOLEAN
  BY DEF Give
<1>4. /\ parser' \in {q, Overwrite(q)} /\ stage' \notin {"off", "enabled"}
      /\ stage' \in {"off", "enabled", "get", "set", "msg", "running"}
      /\ commands' \in Seq(Commands) /\ delegate' \in BOOLEAN
  <2> HIDE DEF q
  <2>1. CASE Return(found', q)
    BY <2>1, <1>1, Returns
  <2>2. CASE parser' = q /\ stage' = stage /\ delegate' = delegate /\ commands' = commands
    BY <2>2 DEF UbloxTypeInv
  <2>3. QED BY <2>1, <2>2, <1>2
<1>5. \/ pvt /\ taken' = Append(taken, [frame |-> n, buf |-> parser.buf]) /\ swallowed' = swallowed
      \/ pvt /\ taken' = taken /\ swallowed' = swallowed \cup {n}
      \/ ~pvt /\ taken' = taken /\ swallowed' = swallowed
  BY Zenon DEF Give
<1>6. taken' \in Seq(Takings) /\ swallowed' \subseteq Nat
  <2>1. [frame |-> n, buf |-> parser.buf] \in Takings
    <3>1. parser \in Parsers
      BY DEF UbloxTypeInv
    <3>2. parser.buf \in Seq(0..256)
      BY <3>1, ParserFields
    <3>3. QED BY <3>2 DEF Takings
  <2>2. taken \in Seq(Takings) /\ swallowed \subseteq Nat
    BY DEF UbloxTypeInv
  <2>3. Append(taken, [frame |-> n, buf |-> parser.buf]) \in Seq(Takings)
    BY <2>1, <2>2, AppendProperties
  <2>4. QED BY <2>2, <2>3, <1>5
<1>7. QED BY <1>1, <1>3, <1>4, <1>5, <1>6, Zenon

\* The byte that is read, and its place.
LEMMA HeadOfLine ==
  ASSUME UbloxTypeInv, LineInv, line # <<>>
  PROVE  /\ Head(line) = line[1] /\ Tail(line) = SubSeq(line, 1 + 1, Len(line))
         /\ Len(line) \in Nat \ {0} /\ 1 \in 0..Len(line)
         /\ line[1] = <<line[1][1], line[1][2]>> /\ line[1][1] \in DOMAIN frames
         /\ line[1][1] \in 1..Len(frames) /\ Len(frames) \in Nat
         /\ line[1][2] \in 1..FrameSizes[line[1][1]]
         /\ Value(line[1]) = frames[line[1][1]].bytes[line[1][2]] /\ Value(line[1]) \in Byte
<1>1. line \in Seq(Nat \X Nat) /\ Len(line) \in Nat \ {0} /\ frames \in Seq(AllMessages)
  BY EmptySeq DEF UbloxTypeInv
<1>2. Head(line) = line[1] /\ Tail(line) = SubSeq(line, 1 + 1, Len(line))
  BY <1>1, TailIsSubSeq
<1>3. 1 \in 1..Len(line) /\ 1 \in 0..Len(line)
  BY <1>1
<1>4. line[1] \in Nat \X Nat
  BY <1>1, <1>3, ElementOfSeq
<1>5. line[1][1] \in 1..Len(frames) /\ line[1][2] \in 1..FrameSizes[line[1][1]]
  BY <1>3 DEF LineInv, Gapless
<1>6. line[1][1] \in DOMAIN frames /\ Len(frames) \in Nat
  BY <1>1, <1>5, LenProperties
<1>7. Value(line[1]) = frames[line[1][1]].bytes[line[1][2]]
  BY DEF Value
<1>8. Value(line[1]) \in Byte
  BY <1>5, <1>6, <1>7, FrameFacts
<1>9. QED BY <1>1, <1>2, <1>3, <1>4, <1>5, <1>6, <1>7, <1>8

-----------------------------------------------------------------------------
(* Steps of receiver and driver that give the parser nothing               *)

\* A message that is sent changes the line, the messages and what is to be answered.
LEMMA Sends ==
  ASSUME UbloxTypeInv, SendPvt \/ Answer
  PROVE  /\ \E m \in Messages(Len(frames) + 1) : Puts(m)
         /\ stage # "off" /\ ~Reading
         /\ commands' \in Seq(Commands) /\ pvtOn' \in BOOLEAN
         /\ UNCHANGED <<driver, avail, answers, seen, faults>>
<1>1. commands \in Seq(Commands) /\ pvtOn \in BOOLEAN
  BY DEF UbloxTypeInv
<1>2. CASE SendPvt
  BY <1>1, <1>2, Zenon DEF SendPvt, Messages
<1>3. CASE Answer
  <2>1. Head(commands) \in Commands /\ Tail(commands) \in Seq(Commands)
    BY <1>1, <1>3, HeadTailProperties DEF Answer
  <2> DEFINE m == CASE Head(commands) = "get" -> Message(CfgPrt, PrtPayload)
                    [] Head(commands) = "set" -> Message(Ack, <<6, 0>>)
                    [] Head(commands) = "msg" -> Message(Ack, <<6, 1>>)
  <2>2. m \in {Message(CfgPrt, PrtPayload), Message(Ack, <<6, 0>>), Message(Ack, <<6, 1>>)}
    BY <2>1 DEF Commands
  <2>3. Puts(m)
    BY <1>3 DEF Answer
  <2> HIDE DEF m
  <2>4. m \in Messages(Len(frames) + 1)
    BY <2>2, Zenon DEF Messages
  <2>5. \E x \in Messages(Len(frames) + 1) : Puts(x)
    BY <2>3, <2>4, Zenon
  <2>6. pvtOn' \in BOOLEAN
    <3>1. pvtOn' = (pvtOn \/ Head(commands) = "msg")
      BY <1>3, Zenon DEF Answer
    <3>2. QED BY <3>1, Zenon
  <2>7. commands' \in Seq(Commands) /\ stage # "off" /\ ~Reading
    BY <1>3, <2>1 DEF Answer
  <2>8. UNCHANGED <<driver, avail, answers, seen, faults>>
    BY <1>3 DEF Answer
  <2>9. QED BY <2>5, <2>6, <2>7, <2>8, Zenon
<1>4. QED BY <1>2, <1>3

LEMMA UbloxTypeInit == UbloxInit => UbloxTypeInv
<1> SUFFICES ASSUME UbloxInit PROVE UbloxTypeInv
  OBVIOUS
<1>1. parser \in Parsers
  <2>1. <<>> \in Seq(0..256)
    BY EmptySeq
  <2> DEFINE e == <<>>
  <2>2. e \in Seq(0..256)
    BY <2>1
  <2>3. parser = [state |-> 0, id |-> <<0, 0>>, left |-> 0, length |-> 0, buf |-> e, ckA |-> 0, ckB |-> 0]
    BY DEF UbloxInit
  <2> HIDE DEF e
  <2>4. QED BY <2>2, <2>3 DEF Parsers
<1>2. /\ line \in Seq(Nat \X Nat) /\ frames \in Seq(AllMessages) /\ commands \in Seq(Commands)
      /\ taken \in Seq(Takings) /\ Len(line) = 0 /\ Len(frames) = 0 /\ DOMAIN frames = {}
  <2>1. line = <<>> /\ frames = <<>> /\ commands = <<>> /\ taken = <<>>
    BY DEF UbloxInit
  <2>2. QED BY <2>1, EmptySeq
<1>3. stage = "off" /\ bytes = 0 /\ wire = 0 /\ beyond = 0 /\ avail = 0 /\ faults = 0
      /\ cut = {} /\ swallowed = {}
  BY DEF UbloxInit
<1>4. {delegate, found, answers, pvtOn, padded} \subseteq BOOLEAN
  BY Zenon DEF UbloxInit
<1>5. Len(frames) <= MaxFrames
  BY <1>2, SizesAssumption
<1>6. QED BY <1>1, <1>2, <1>3, <1>4, <1>5 DEF UbloxTypeInv

LEMMA FramesOfIn ==
  ASSUME UbloxTypeInv, LineInv, NEW t \in Seq(Nat \X Nat), Len(t) <= Len(line), \A j \in 1..Len(t) : t[j] = line[j]
  PROVE  FramesOf(t) \subseteq DOMAIN frames
<1>1. Len(line) \in Nat /\ Len(t) \in Nat /\ DOMAIN t = 1..Len(t) /\ DOMAIN frames = 1..Len(frames)
  BY LenProperties DEF UbloxTypeInv
<1>2. ASSUME NEW j \in 1..Len(t) PROVE t[j][1] \in DOMAIN frames
  <2>1. j \in 1..Len(line) /\ t[j] = line[j]
    BY <1>1
  <2>2. QED BY <1>1, <2>1 DEF LineInv, Gapless
<1>3. QED BY <1>1, <1>2 DEF FramesOf

\* The first n bytes of the line.
LEMMA Prefix ==
  ASSUME UbloxTypeInv, NEW n \in 0..Len(line)
  PROVE  /\ SubSeq(line, 1, n) \in Seq(Nat \X Nat) /\ Len(SubSeq(line, 1, n)) = n
         /\ Len(line) \in Nat /\ \A j \in 1..n : SubSeq(line, 1, n)[j] = line[j]
<1>1. line \in Seq(Nat \X Nat) /\ Len(line) \in Nat
  BY LenProperties DEF UbloxTypeInv
<1>2. \A i \in 1..n : line[i] \in Nat \X Nat
  <2>1. \A i \in 1..n : i \in 1..Len(line)
    BY <1>1
  <2>2. QED BY <1>1, <2>1, ElementOfSeq
<1>3. 1 \in Int /\ n \in Int /\ n - 1 + 1 = n /\ \A i \in 1..n : 1 + i - 1 = i
  BY <1>1
<1>4. /\ SubSeq(line, 1, n) \in Seq(Nat \X Nat)
      /\ Len(SubSeq(line, 1, n)) = IF 1 <= n THEN n - 1 + 1 ELSE 0
      /\ \A i \in 1..(n - 1 + 1) : SubSeq(line, 1, n)[i] = line[1 + i - 1]
  BY <1>2, <1>3, SubSeqProperties
<1>5. Len(SubSeq(line, 1, n)) = n
  BY <1>1, <1>4
<1>6. QED BY <1>1, <1>3, <1>4, <1>5

\* Every step keeps the types.
LEMMA ReadTyped ==
  ASSUME UbloxTypeInv, LineInv, StageInv, Read
  PROVE  UbloxTypeInv'
<1>1. stage \notin {"off", "enabled"} /\ wire \in Nat /\ beyond \in Nat /\ avail \in Nat
  BY DEF StageInv, Read, Reading, UbloxTypeInv
<1>2. /\ parser' \in Parsers
      /\ stage' \in {"off", "enabled", "get", "set", "msg", "running"}
      /\ commands' \in Seq(Commands) /\ {delegate', found'} \subseteq BOOLEAN
      /\ taken' \in Seq(Takings) /\ swallowed' \subseteq Nat
  <2>1. CASE wire > 0 /\ Give(Value(Head(line)), Head(line)[1])
    <3>1. line # <<>>
      <4>1. Len(line) # 0
        BY <2>1, <1>1, LenProperties DEF UbloxTypeInv
      <4>2. QED BY <4>1, EmptySeq
    <3>2. Value(Head(line)) \in Byte /\ Head(line)[1] \in Nat
      BY <3>1, HeadOfLine
    <3>3. QED BY <2>1, <3>2, <1>1, Gives
  <2>2. CASE Give(Padding, 0)
    <3>1. Padding \in Byte
      BY DEF Padding, Byte
    <3>2. QED BY <2>2, <3>1, <1>1, Gives
  <2>3. QED BY <2>1, <2>2 DEF Read
<1>3. /\ line' \in Seq(Nat \X Nat) /\ wire' \in Nat /\ beyond' \in Nat /\ padded' \in BOOLEAN
      /\ wire' + avail <= Len(line')
  <2>1. CASE wire > 0 /\ wire' = wire - 1 /\ line' = Tail(line) /\ beyond' = beyond /\ padded' = padded
    <3>1. Len(line) \in Nat /\ line \in Seq(Nat \X Nat) /\ wire + avail <= Len(line) /\ padded \in BOOLEAN
      BY LenProperties DEF UbloxTypeInv
    <3>2. Len(line) # 0
      BY <2>1, <1>1, <3>1
    <3>3. line # <<>>
      BY <3>2, EmptySeq
    <3>4. Tail(line) \in Seq(Nat \X Nat) /\ Len(Tail(line)) = Len(line) - 1
      BY <3>1, <3>3, HeadTailProperties
    <3>5. (wire - 1) + avail <= Len(line) - 1 /\ wire - 1 \in Nat
      BY <2>1, <3>1, <1>1
    <3>6. QED BY <2>1, <3>1, <3>4, <3>5, <1>1
  <2>2. CASE beyond > 0 /\ beyond' = beyond - 1 /\ padded' = (padded \/ parser.state # 0) /\ wire' = wire /\ line' = line
    <3>1. padded' \in BOOLEAN
      BY <2>2, Zenon
    <3>2. QED BY <2>2, <3>1, <1>1 DEF UbloxTypeInv
  <2>3. QED BY <2>1, <2>2 DEF Read
<1>4. UNCHANGED <<bytes, avail, pvtOn, frames, answers, cut, faults>>
  BY DEF Read
<1>5. QED BY <1>2, <1>3, <1>4 DEF UbloxTypeInv

LEMMA SendTyped ==
  ASSUME UbloxTypeInv, SendPvt \/ Answer
  PROVE  UbloxTypeInv'
<1>1. PICK m \in Messages(Len(frames) + 1) : Puts(m)
  BY Sends
<1>2. /\ commands' \in Seq(Commands) /\ pvtOn' \in BOOLEAN
      /\ UNCHANGED <<driver, avail, answers, seen, faults>>
  BY Sends
<1>3. /\ Len(frames) \in Nat /\ Len(frames) + 1 \in 1..MaxFrames /\ Len(line) \in Nat /\ Len(m.bytes) \in Nat
      /\ frames' \in Seq(AllMessages) /\ Len(frames') = Len(frames) + 1
      /\ frames'[Len(frames) + 1] = m
      /\ \A n \in 1..Len(frames) : frames'[n] = frames[n]
      /\ line' \in Seq(Nat \X Nat) /\ Len(line') = Len(line) + Len(m.bytes)
  BY <1>1, PutsEffect
<1>4. DOMAIN frames' = 1..(Len(frames) + 1) /\ DOMAIN frames = 1..Len(frames)
  BY <1>3, LenProperties DEF UbloxTypeInv
<1>5. \A n \in DOMAIN frames' : frames'[n] \in Messages(n)
  <2>1. ASSUME NEW n \in 1..(Len(frames) + 1) PROVE frames'[n] \in Messages(n)
    <3>1. CASE n = Len(frames) + 1
      BY <3>1, <1>1, <1>3
    <3>2. CASE n # Len(frames) + 1
      <4>1. n \in 1..Len(frames)
        BY <3>2, <1>3
      <4>2. QED BY <4>1, <1>3, <1>4 DEF UbloxTypeInv
    <3>3. QED BY <3>1, <3>2
  <2>2. QED BY <2>1, <1>4
<1>6. wire + avail <= Len(line') /\ Len(frames') <= MaxFrames
  BY <1>3 DEF UbloxTypeInv
<1>7. cut \subseteq DOMAIN frames'
  BY <1>3, <1>4 DEF UbloxTypeInv
<1>8. QED BY <1>2, <1>3, <1>5, <1>6, <1>7 DEF UbloxTypeInv, driver, seen

\* What is thrown away: the first n bytes of the line.
LEMMA ThrowTyped ==
  ASSUME UbloxTypeInv, LineInv, NEW n \in 0..Len(line), line' = SubSeq(line, n + 1, Len(line)),
         cut' = cut \cup FramesOf(SubSeq(line, 1, n)), UNCHANGED frames
  PROVE  line' \in Seq(Nat \X Nat) /\ Len(line') = Len(line) - n /\ cut' \subseteq DOMAIN frames'
<1>1. line' \in Seq(Nat \X Nat) /\ Len(line') = Len(line) - n /\ Len(line) \in Nat
  BY Dropped
<1>2. FramesOf(SubSeq(line, 1, n)) \subseteq DOMAIN frames
  <2>1. /\ SubSeq(line, 1, n) \in Seq(Nat \X Nat) /\ Len(SubSeq(line, 1, n)) = n
        /\ \A j \in 1..n : SubSeq(line, 1, n)[j] = line[j]
    BY Prefix
  <2>2. Len(SubSeq(line, 1, n)) <= Len(line)
    BY <1>1, <2>1
  <2>3. \A j \in 1..Len(SubSeq(line, 1, n)) : SubSeq(line, 1, n)[j] = line[j]
    BY <2>1
  <2>4. QED BY <2>1, <2>2, <2>3, FramesOfIn, Zenon
<1>3. QED BY <1>1, <1>2 DEF UbloxTypeInv

LEMMA ResetType ==
  ASSUME NEW p \in Parsers
  PROVE  Reset(p) \in Parsers /\ Reset(p).state = 0 /\ (p.state = 0 => Reset(p) = p)
<1>1. Reset(p) = [p EXCEPT !.state = 0]
  BY DEF Reset
<1>2. QED BY <1>1 DEF Parsers

\* Steps that change neither the parser nor the line.
LEMMA QuietTyped ==
  ASSUME UbloxTypeInv, LineInv, StageInv,
         \/ Ready \/ BusFails \/ BusRecovers \/ Enable \/ Poll \/ TimeOut \/ Request
  PROVE  /\ UbloxTypeInv' /\ parser' = parser /\ UNCHANGED <<line, frames, seen>>
         /\ (stage' \in {"off", "enabled"} => stage \in {"off", "enabled"} /\ ~Reading')
         /\ (stage' = "off" => stage = "off")
<1>1. /\ parser \in Parsers /\ bytes \in Nat /\ wire \in Nat /\ beyond \in Nat /\ avail \in Nat /\ faults \in Nat
      /\ {delegate, found, answers, pvtOn, padded} \subseteq BOOLEAN
      /\ wire + avail <= Len(line) /\ Len(line) \in Nat
      /\ commands \in Seq(Commands)
      /\ Chunk \in Nat \ {0} /\ Piece \in Nat \ {0} /\ BusError \in Nat \ {0}
  BY LenProperties, SizesAssumption DEF UbloxTypeInv
<1>2. stage \in {"off", "enabled"} => ~Reading
  BY DEF StageInv
<1>3. CASE Ready
  <2>1. wire = 0 /\ avail' \in Nat /\ avail' <= Len(line)
    BY <1>1, <1>3 DEF Ready, Reading
  <2>2. wire + avail' <= Len(line)
    BY <1>1, <2>1
  <2>3. UNCHANGED <<driver, line, commands, pvtOn, frames, answers, seen, faults>>
    BY <1>3 DEF Ready
  <2>4. QED BY <2>1, <2>2, <2>3, <1>2 DEF UbloxTypeInv, Reading, driver, seen
<1>4. CASE BusFails \/ BusRecovers
  <2>1. answers' \in BOOLEAN /\ faults' \in Nat
    <3>1. answers' \in BOOLEAN
      BY <1>4, Zenon DEF BusFails, BusRecovers
    <3>2. faults' \in {faults, faults + 1}
      BY <1>4, Zenon DEF BusFails, BusRecovers
    <3>3. QED BY <3>1, <3>2, <1>1
  <2>2. UNCHANGED <<driver, receiver, seen>>
    BY <1>4 DEF BusFails, BusRecovers
  <2>3. QED BY <2>1, <2>2, <1>2 DEF UbloxTypeInv, Reading, driver, receiver, seen
<1>5. CASE Enable
  <2>1. stage = "off" /\ stage' = "enabled" /\ parser' = Reset(parser)
        /\ UNCHANGED <<delegate, bytes, wire, beyond, found, receiver, answers, seen, faults>>
    BY <1>5 DEF Enable
  <2>2. parser' = parser
    BY <1>1, <2>1, ResetType DEF StageInv
  <2>3. QED BY <2>1, <2>2, <1>2 DEF UbloxTypeInv, Reading, receiver, seen
<1>6. CASE Poll
  <2>1. bytes' \in Nat
    BY <1>1, <1>6 DEF Poll, Available
  <2>2. stage \notin {"off", "enabled"}
        /\ UNCHANGED <<parser, delegate, stage, wire, beyond, found, receiver, answers, seen, faults>>
    BY <1>6 DEF Poll
  <2>3. QED BY <2>1, <2>2 DEF UbloxTypeInv, receiver, seen
<1>7. CASE TimeOut
  <2>1. /\ stage \notin {"off", "enabled"} /\ Return(FALSE, parser)
        /\ UNCHANGED <<bytes, wire, beyond, found, line, avail, pvtOn, frames, answers, seen, faults>>
    BY <1>7 DEF TimeOut
  <2>2. /\ parser' = parser /\ stage' \in {"set", "msg", "running"}
        /\ commands' \in Seq(Commands) /\ delegate' \in BOOLEAN
    BY <1>1, <2>1, Returns
  <2>3. QED BY <2>1, <2>2 DEF UbloxTypeInv, seen
<1>8. CASE Request
  <2> DEFINE n == IF bytes >= Chunk THEN Chunk ELSE bytes
             here == IF avail < n THEN avail ELSE n
  <2>1. bytes' = bytes - n /\ wire' = here /\ beyond' = n - here /\ avail' = avail - here /\ wire = 0 /\ bytes > 0
    BY <1>8 DEF Request, LeftToRead
  <2>2. n \in Nat /\ here \in Nat /\ n <= bytes /\ here <= n /\ here <= avail
    BY <1>1
  <2> HIDE DEF n, here
  <2>3. bytes' \in Nat /\ wire' \in Nat /\ beyond' \in Nat /\ avail' \in Nat /\ wire' + avail' <= Len(line)
    BY <1>1, <2>1, <2>2
  <2>4. /\ stage \notin {"off", "enabled"}
        /\ UNCHANGED <<parser, delegate, stage, found, line, commands, pvtOn, frames, answers, seen, faults>>
    BY <1>2, <1>8, <2>1 DEF Request, Reading
  <2>5. QED BY <2>3, <2>4 DEF UbloxTypeInv, seen
<1>9. QED BY <1>3, <1>4, <1>5, <1>6, <1>7, <1>8

LEMMA QuietKept ==
  ASSUME UbloxInv, \/ Ready \/ BusFails \/ BusRecovers \/ Enable \/ Poll \/ TimeOut \/ Request
  PROVE  UbloxInv'
<1>1. UbloxTypeInv /\ LineInv /\ StageInv /\ (Unspoilt => Sound)
  BY DEF UbloxInv
<1>2. /\ UbloxTypeInv' /\ parser' = parser /\ UNCHANGED <<line, frames, seen>>
      /\ (stage' \in {"off", "enabled"} => stage \in {"off", "enabled"} /\ ~Reading')
      /\ (stage' = "off" => stage = "off")
  BY <1>1, QuietTyped
<1>3. UNCHANGED <<line, frames, taken, swallowed, cut, padded>>
  BY <1>2 DEF seen
<1>4. LineInv'
  BY <1>1, <1>3 DEF LineInv, FrameSizes
<1>5. StageInv'
  BY <1>1, <1>2 DEF StageInv
<1>6. (Unspoilt => Sound)'
  <2>1. Unspoilt' = Unspoilt
    BY <1>3 DEF Unspoilt
  <2>2. ParserInv' = ParserInv
    BY <1>2, <1>3 DEF ParserInv
  <2>3. TakenAsSent' = TakenAsSent /\ TakenBehind' = TakenBehind
    BY <1>3 DEF TakenAsSent, TakenBehind
  <2>4. NoneSkipped' = NoneSkipped
    BY <1>3 DEF NoneSkipped, EndsInSync
  <2>5. QED BY <1>1, <2>1, <2>2, <2>3, <2>4 DEF Sound
<1>7. QED BY <1>2, <1>4, <1>5, <1>6 DEF UbloxInv

LEMMA ParserFirst ==
  ASSUME NEW m, PayloadLength(m) \in 1..255, NEW p, p.state = 0
  PROVE  InStep(p, m, 1)
BY AtFirst DEF InStep

LEMMA Later ==
  ASSUME NEW h \in Nat, NEW g \in Nat, NEW j \in 1..(h + g), j \notin 1..h
  PROVE  j - h \in 1..g /\ h + (j - h) = j
OBVIOUS

\* Frames that are added change nothing for those before.
MoreFrames(f, g, c, k) == (\A n \in 1..k : g[n] = f[n]) /\ c \subseteq 1..k

LEMMA MissedSame ==
  ASSUME NEW k \in Nat, NEW f, NEW g, NEW c, MoreFrames(f, g, c, k), NEW n \in 1..(k + 1)
  PROVE  Missed(n, c, g) = Missed(n, c, f)
<1>0. (\A y \in 1..k : g[y] = f[y]) /\ c \subseteq 1..k
  BY DEF MoreFrames
<1>1. \A y \in 1..k : EndsIn(g, y) = EndsIn(f, y)
  BY <1>0 DEF EndsIn
<1>2. \A x \in c : x < n => \A y \in x..(n - 1) : y \in 1..k
  BY <1>0
<1>3. Missed(n, c, f) => Missed(n, c, g)
  BY <1>1, <1>2 DEF Missed
<1>4. Missed(n, c, g) => Missed(n, c, f)
  BY <1>1, <1>2 DEF Missed
<1>5. QED BY <1>3, <1>4 DEF Missed

LEMMA ParserSame ==
  ASSUME NEW k \in Nat, NEW f, NEW g, NEW c, MoreFrames(f, g, c, k),
         NEW n \in 1..k, NEW i, NEW p, ParserAt(p, n, i, c, f)
  PROVE  ParserAt(p, n, i, c, g)
<1>1. n \in 1..(k + 1) /\ g[n] = f[n]
  BY DEF MoreFrames
<1>2. Missed(n, c, g) = Missed(n, c, f)
  BY <1>1, MissedSame
<1>3. Lost(n, c, g) = Lost(n, c, f)
  BY <1>2 DEF Lost
<1>4. QED BY <1>1, <1>2, <1>3 DEF ParserAt

LEMMA Skipped ==
  NoneSkipped <=>
    (~padded => \A n \in DOMAIN frames :
       frames[n].id = NavPvt /\ n \notin FramesOf(line) =>
         n \in cut \cup swallowed \/ (\E i \in DOMAIN taken : taken[i].frame = n) \/ Missed(n, cut, frames))
BY Zenon DEF NoneSkipped, Missed, EndsIn, EndsInSync

\* What has been said of the messages before holds of them when another one is sent.
LEMMA SendKept ==
  ASSUME UbloxInv, SendPvt \/ Answer
  PROVE  UbloxInv'
<1>1. UbloxTypeInv /\ LineInv /\ StageInv /\ (Unspoilt => Sound)
  BY DEF UbloxInv
<1>2. PICK m \in Messages(Len(frames) + 1) : Puts(m)
  BY <1>1, Sends
<1>3. /\ stage # "off" /\ ~Reading /\ UNCHANGED <<driver, avail, answers, seen, faults>>
  BY <1>1, Sends
<1>4. UNCHANGED <<parser, stage, bytes, wire, beyond, taken, swallowed, cut, padded>>
  BY <1>3 DEF driver, seen
<1> DEFINE k == Len(frames)
           h == Len(line)
           g == Len(m.bytes)
<1>5. /\ k \in Nat /\ k + 1 \in 1..MaxFrames /\ h \in Nat /\ g \in Nat \ {0}
      /\ frames' \in Seq(AllMessages) /\ Len(frames') = k + 1
      /\ frames'[k + 1] = m
      /\ \A n \in 1..k : frames'[n] = frames[n]
      /\ line' \in Seq(Nat \X Nat) /\ Len(line') = h + g
      /\ \A j \in 1..h : line'[j] = line[j]
      /\ \A j \in 1..g : line'[h + j] = <<k + 1, j>>
  BY <1>1, <1>2, PutsEffect
<1>6. UbloxTypeInv' /\ LineInv'
  BY <1>1, <1>2, SendTyped, PutsLine
<1>7. /\ DOMAIN frames' = 1..(k + 1) /\ DOMAIN frames = 1..k /\ DOMAIN line = 1..h
      /\ DOMAIN line' = 1..(h + g) /\ cut \subseteq 1..k
  BY <1>1, <1>5, LenProperties DEF UbloxTypeInv
<1>14. PayloadLength(m) \in 1..255 /\ m.bytes[1] = Sync1
  BY <1>2, <1>5, MessageFacts DEF MessageOK
<1> HIDE DEF k, h, g
<1>13. k \in Nat /\ h \in Nat /\ g \in Nat \ {0} /\ 1 \in 1..g /\ h + 1 \in 1..(h + g)
  BY <1>5
<1>8. IF line = <<>> THEN line'[1] = <<k + 1, 1>> ELSE line'[1] = line[1]
  <2>1. CASE line = <<>>
    <3>1. h = 0
      BY <2>1, EmptySeq DEF h
    <3>2. line'[h + 1] = <<k + 1, 1>>
      BY <1>5
    <3>3. QED BY <2>1, <3>1, <3>2
  <2>2. CASE line # <<>>
    <3>1. h # 0
      BY <1>1, <2>2, EmptySeq DEF h, UbloxTypeInv
    <3>2. QED BY <2>2, <3>1, <1>5
  <2>3. QED BY <2>1, <2>2
<1>9. line' # <<>>
  <2>1. Len(line') # 0
    BY <1>5
  <2>2. QED BY <2>1, EmptySeq
<1>10. StageInv'
  BY <1>1, <1>3, <1>4, <1>8 DEF StageInv, Reading
<1>11. ASSUME Unspoilt' PROVE Sound'
  <2>1. ParserInv /\ TakenAsSent /\ TakenBehind /\ NoneSkipped
    BY <1>1, <1>4, <1>11 DEF Unspoilt, Sound
  <2>0. MoreFrames(frames, frames', cut, k)
    BY <1>5, <1>7 DEF MoreFrames
  <2>2. \A n \in 1..(k + 1) : Missed(n, cut, frames') = Missed(n, cut, frames)
    BY <1>13, <2>0, MissedSame
  <2>3. k + 1 \in 1..(k + 1)
    BY <1>13
  <2>4. ParserInv'
    <3>1. CASE line = <<>>
      <4>1. parser.state = 0 \/ (parser.state = 1 /\ Missed(k + 1, cut, frames))
        BY <2>1, <3>1 DEF ParserInv, k
      <4>2. ParserInv' <=> ParserAt(parser, k + 1, 1, cut, frames')
        <5>1. line'[1][1] = k + 1 /\ line'[1][2] = 1
          BY <1>8, <3>1
        <5>2. QED BY <5>1, <1>4, <1>9, Zenon DEF ParserInv
      <4>3. CASE parser.state = 0
        <5>1. InStep(parser, m, 1)
          BY <1>14, <4>3, ParserFirst
        <5>2. InStep(parser, frames'[k + 1], 1)
          BY <5>1, <1>5
        <5>3. QED BY <4>2, <5>2 DEF ParserAt
      <4>4. CASE parser.state = 1 /\ Missed(k + 1, cut, frames)
        <5>1. Missed(k + 1, cut, frames')
          BY <4>4, <2>2, <2>3
        <5>2. frames'[k + 1].bytes[1] # Sync2
          BY <1>14, <1>5 DEF Sync1, Sync2
        <5>3. QED BY <4>2, <4>4, <5>1, <5>2 DEF ParserAt
      <4>5. QED BY <4>1, <4>3, <4>4
    <3>2. CASE line # <<>>
      <4>1. ParserAt(parser, line[1][1], line[1][2], cut, frames)
        BY <2>1, <3>2 DEF ParserInv
      <4>2. line[1][1] \in 1..k
        BY <1>1, <3>2, HeadOfLine DEF k
      <4>3. ASSUME NEW n \in 1..k, NEW i, ParserAt(parser, n, i, cut, frames)
            PROVE  ParserAt(parser, n, i, cut, frames')
        BY <4>3, <1>13, <2>0, ParserSame
      <4>4. ParserAt(parser, line[1][1], line[1][2], cut, frames')
        BY <4>1, <4>2, <4>3, Zenon
      <4>5. line'[1] = line[1]
        BY <1>8, <3>2
      <4>6. QED BY <4>4, <4>5, <1>4, <1>9 DEF ParserInv
    <3>3. QED BY <3>1, <3>2
  <2>5. TakenAsSent'
    <3>1. ASSUME NEW i \in DOMAIN taken
          PROVE  /\ taken[i].frame \in DOMAIN frames' /\ frames'[taken[i].frame].id = NavPvt
                 /\ \A j \in 1..PvtLength : taken[i].buf[j] \in {PvtPayload(taken[i].frame)[j], Overwritten}
      <4>1. taken[i].frame \in 1..k /\ frames[taken[i].frame].id = NavPvt
            /\ \A j \in 1..PvtLength : taken[i].buf[j] \in {PvtPayload(taken[i].frame)[j], Overwritten}
        BY <2>1, <1>7 DEF TakenAsSent
      <4>2. frames'[taken[i].frame] = frames[taken[i].frame]
        BY <4>1, <1>5
      <4>3. \A n \in 1..k : n \in 1..(k + 1)
        BY <1>13
      <4>4. QED BY <4>1, <4>2, <4>3, <1>7
    <3>2. QED BY <3>1, <2>1, <1>4 DEF TakenAsSent
  <2>6. TakenBehind'
    <3>1. ASSUME NEW i \in DOMAIN taken, NEW j \in 1..(h + g) PROVE taken[i].frame < line'[j][1]
      <4>1. CASE j \in 1..h
        BY <4>1, <1>5, <1>7, <2>1 DEF TakenBehind
      <4>2. CASE j \notin 1..h
        <5>1. j - h \in 1..g /\ h + (j - h) = j
          BY <4>2, <1>13, Later
        <5>2. line'[j] = <<k + 1, j - h>>
          BY <5>1, <1>5
        <5>3. taken[i].frame \in 1..k
          BY <1>7, <2>1 DEF TakenAsSent
        <5>4. \A n \in 1..k : n < k + 1
          BY <1>13
        <5>5. QED BY <5>2, <5>3, <5>4
      <4>3. QED BY <4>1, <4>2
    <3>2. QED BY <3>1, <1>4, <1>7 DEF TakenBehind
  <2>7. NoneSkipped'
    <3>1. FramesOf(line') = {line'[j][1] : j \in 1..(h + g)} /\ FramesOf(line) = {line[j][1] : j \in 1..h}
      BY <1>7 DEF FramesOf
    <3>2. k + 1 \in FramesOf(line')
      <4>1. h + 1 \in 1..(h + g) /\ line'[h + 1] = <<k + 1, 1>>
        BY <1>13, <1>5
      <4>2. QED BY <3>1, <4>1
    <3>3. FramesOf(line) \subseteq FramesOf(line')
      <4>1. \A j \in 1..h : j \in 1..(h + g) /\ line'[j] = line[j]
        BY <1>13, <1>5
      <4>2. QED BY <3>1, <4>1
    <3>4. ASSUME ~padded, NEW n \in 1..(k + 1), frames'[n].id = NavPvt, n \notin FramesOf(line')
          PROVE  n \in cut \cup swallowed \/ (\E i \in DOMAIN taken : taken[i].frame = n) \/ Missed(n, cut, frames')
      <4>1. n \in 1..k
        <5>1. n # k + 1
          BY <3>2, <3>4
        <5>2. QED BY <5>1, <1>13
      <4>2. frames[n].id = NavPvt /\ n \notin FramesOf(line)
        BY <4>1, <1>5, <3>3, <3>4
      <4>3. n \in cut \cup swallowed \/ (\E i \in DOMAIN taken : taken[i].frame = n) \/ Missed(n, cut, frames)
        BY <4>1, <4>2, <3>4, <1>7, <2>1, Skipped
      <4>4. QED BY <4>3, <2>2
    <3>5. (~padded => \A n \in DOMAIN frames :
       frames[n].id = NavPvt /\ n \notin FramesOf(line) =>
         n \in cut \cup swallowed \/ (\E i \in DOMAIN taken : taken[i].frame = n) \/ Missed(n, cut, frames))'
      BY <3>4, <1>4, <1>7 DEF FramesOf
    <3>6. QED BY <3>5, Zenon DEF NoneSkipped, Missed, EndsIn, EndsInSync
  <2>8. QED BY <2>4, <2>5, <2>6, <2>7 DEF Sound
<1>12. QED BY <1>6, <1>10, <1>11 DEF UbloxInv

LEMMA MissedMore ==
  ASSUME NEW n, NEW c, NEW d, c \subseteq d, NEW f, Missed(n, c, f)
  PROVE  Missed(n, d, f)
BY DEF Missed

\* After bytes were thrown away, the parser looks for a beginning, in a frame of which
\* bytes are missing or at the first byte of one.
LEMMA ThrowKept ==
  ASSUME UbloxInv, NEW n \in 0..Len(line), line' = SubSeq(line, n + 1, Len(line)),
         cut' = cut \cup FramesOf(SubSeq(line, 1, n)), parser'.state = 0,
         n = Len(line) \/ line[1][2] = 1, UNCHANGED <<frames, taken, swallowed, padded>>
  PROVE  LineInv' /\ (Unspoilt => Sound)'
<1>1. UbloxTypeInv /\ LineInv /\ (Unspoilt => Sound)
  BY DEF UbloxInv
<1>2. LineInv'
  BY <1>1, DroppedLine
<1> DEFINE h == Len(line)
           g == Len(line')
           u == SubSeq(line, 1, n)
<1>3. /\ h \in Nat /\ n \in 0..h /\ line' \in Seq(Nat \X Nat) /\ g = h - n
      /\ \A j \in 1..g : line'[j] = line[n + j]
  BY <1>1, Dropped
<1>4. u \in Seq(Nat \X Nat) /\ Len(u) = n /\ \A j \in 1..n : u[j] = line[j]
  BY <1>1, Prefix
<1>5. DOMAIN line = 1..h /\ DOMAIN line' = 1..g /\ DOMAIN u = 1..n
  BY <1>1, <1>3, <1>4, LenProperties DEF UbloxTypeInv
<1>6. line' # <<>> => g > 0
  BY <1>3, EmptySeq
<1>7. Gapless(line, h, Len(frames), FrameSizes)
  BY <1>1 DEF LineInv
<1>8. cut' = cut \cup FramesOf(u) /\ (n = h \/ line[1][2] = 1)
  OBVIOUS
<1> HIDE DEF h, g, u
<1>9. FramesOf(line) \subseteq FramesOf(line') \cup FramesOf(u)
  <2>1. ASSUME NEW j \in 1..h PROVE line[j][1] \in FramesOf(line') \cup FramesOf(u)
    <3>1. CASE j <= n
      <4>1. j \in 1..n /\ u[j] = line[j]
        BY <3>1, <1>3, <1>4
      <4>2. QED BY <4>1, <1>5 DEF FramesOf
    <3>2. CASE ~ (j <= n)
      <4>1. j - n \in 1..g /\ n + (j - n) = j
        BY <3>2, <1>3
      <4>2. line'[j - n] = line[j]
        BY <4>1, <1>3
      <4>3. QED BY <4>1, <4>2, <1>5 DEF FramesOf
    <3>3. QED BY <3>1, <3>2
  <2>2. QED BY <2>1, <1>5 DEF FramesOf
<1>10. ASSUME Unspoilt' PROVE Sound'
  <2>1. ParserInv /\ TakenAsSent /\ TakenBehind /\ NoneSkipped
    <3>1. Unspoilt
      BY <1>10 DEF Unspoilt
    <3>2. QED BY <1>1, <3>1 DEF Sound
  <2>2. ParserInv'
    <3>1. CASE line' = <<>>
      BY <3>1 DEF ParserInv
    <3>2. CASE line' # <<>>
      <4>1. g > 0 /\ n < h /\ n + 1 \in 1..h /\ 1 \in 1..g
        BY <1>3, <1>6, <3>2
      <4>2. line'[1] = line[n + 1]
        BY <1>3, <4>1
      <4> DEFINE k == line[n + 1][1]
                 i == line[n + 1][2]
      <4>3. k \in 1..Len(frames) /\ i \in 1..FrameSizes[k]
        BY <4>1, <1>7 DEF Gapless
      <4>4. k \in DOMAIN frames
        BY <1>1, <4>3, LenProperties DEF UbloxTypeInv
      <4>5. PayloadLength(frames[k]) \in 1..255 /\ FrameSizes[k] = PayloadLength(frames[k]) + 8
        BY <1>1, <4>4, FrameFacts
      <4>6. ParserInv' <=> ParserAt(parser', k, i, cut', frames)
        BY <3>2, <4>2, Zenon DEF ParserInv
      <4>7. CASE i = 1
        <5>1. InStep(parser', frames[k], 1)
          BY <4>5, ParserFirst
        <5>2. QED BY <4>6, <4>7, <5>1 DEF ParserAt
      <4>8. CASE i # 1
        <5>1. n # 0
          BY <4>1, <4>8, <1>8
        <5>2. n \in 1..(h - 1) /\ n \in 1..n
          BY <4>1, <5>1, <1>3
        <5>3. line[n + 1] = After(line[n], FrameSizes)
          BY <5>2, <1>7 DEF Gapless
        <5>4. k = line[n][1]
          BY <5>3, <4>8 DEF After
        <5>5. k \in cut'
          <6>1. u[n] = line[n] /\ n \in DOMAIN u
            BY <5>2, <1>4, <1>5
          <6>2. u[n][1] \in FramesOf(u)
            BY <6>1, Zenon DEF FramesOf
          <6>3. QED BY <6>1, <6>2, <5>4, <1>8
        <5>6. i > 1
          <6>1. \A l \in 1..255 : \A x \in 1..(l + 8) : x # 1 => x > 1
            OBVIOUS
          <6>2. QED BY <6>1, <4>3, <4>5, <4>8, ZenonT(60)
        <5> HIDE DEF k, i
        <5>7. QED BY <4>6, <5>5, <5>6 DEF ParserAt, Lost
      <4>9. QED BY <4>7, <4>8
    <3>3. QED BY <3>1, <3>2
  <2>3. TakenAsSent'
    BY <2>1 DEF TakenAsSent
  <2>4. TakenBehind'
    <3>1. ASSUME NEW i \in DOMAIN taken, NEW j \in 1..g PROVE taken[i].frame < line'[j][1]
      <4>1. n + j \in 1..h /\ line'[j] = line[n + j]
        <5>1. h \in Nat /\ n \in 0..h /\ g = h - n
          BY <1>3
        <5>2. \A x \in 1..(h - n) : n + x \in 1..h
          BY <5>1
        <5>3. j \in 1..(h - n)
          BY <5>1
        <5>4. QED BY <1>3, <5>2, <5>3
      <4>2. QED BY <4>1, <2>1, <1>5 DEF TakenBehind
    <3>2. QED BY <3>1, <1>5 DEF TakenBehind
  <2>5. NoneSkipped'
    <3>1. ASSUME ~padded, NEW k \in DOMAIN frames, frames[k].id = NavPvt, k \notin FramesOf(line')
          PROVE  k \in cut' \cup swallowed \/ (\E i \in DOMAIN taken : taken[i].frame = k) \/ Missed(k, cut', frames)
      <4>1. CASE k \in FramesOf(line)
        BY <4>1, <3>1, <1>8, <1>9
      <4>2. CASE k \notin FramesOf(line)
        <5>1. k \in cut \cup swallowed \/ (\E i \in DOMAIN taken : taken[i].frame = k) \/ Missed(k, cut, frames)
          BY <4>2, <3>1, <2>1, Skipped
        <5>2. cut \subseteq cut'
          BY <1>8
        <5>3. Missed(k, cut, frames) => Missed(k, cut', frames)
          BY <5>2, MissedMore
        <5>4. QED BY <5>1, <5>2, <5>3
      <4>3. QED BY <4>1, <4>2
    <3>2. (~padded => \A m \in DOMAIN frames :
       frames[m].id = NavPvt /\ m \notin FramesOf(line) =>
         m \in cut \cup swallowed \/ (\E i \in DOMAIN taken : taken[i].frame = m) \/ Missed(m, cut, frames))'
      BY <3>1 DEF FramesOf
    <3>3. QED BY <3>2, Zenon DEF NoneSkipped, Missed, EndsIn, EndsInSync
  <2>6. QED BY <2>2, <2>3, <2>4, <2>5 DEF Sound
<1>11. QED BY <1>2, <1>10

LEMMA FlushKept == UbloxInv /\ Flush => UbloxInv'
<1> SUFFICES ASSUME UbloxInv, Flush PROVE UbloxInv'
  OBVIOUS
<1>1. UbloxTypeInv /\ LineInv /\ StageInv
  BY DEF UbloxInv
<1> DEFINE n == IF answers THEN avail ELSE 0
<1>2. /\ stage = "enabled" /\ stage' = "get" /\ parser' = Reset(parser) /\ found' = FALSE
      /\ line' = SubSeq(line, n + 1, Len(line)) /\ avail' = avail - n
      /\ cut' = cut \cup FramesOf(SubSeq(line, 1, n)) /\ Send("get")
      /\ UNCHANGED <<delegate, bytes, wire, beyond, pvtOn, frames, answers, taken, swallowed, padded, faults>>
  BY DEF Flush
<1>3. /\ wire \in Nat /\ avail \in Nat /\ Len(line) \in Nat /\ wire + avail <= Len(line)
      /\ parser \in Parsers
  BY <1>1, LenProperties DEF UbloxTypeInv
<1>4. n \in 0..Len(line) /\ n \in Nat /\ n <= avail
  BY <1>3
<1> HIDE DEF n
<1>5. parser'.state = 0 /\ parser' \in Parsers
  BY <1>2, <1>3, ResetType
<1>6. n = Len(line) \/ line[1][2] = 1
  <2>1. line = <<>> => n = 0 /\ Len(line) = 0
    BY <1>3, <1>4, EmptySeq
  <2>2. line # <<>> => line[1][2] = 1
    BY <1>1, <1>2 DEF StageInv
  <2>3. QED BY <2>1, <2>2
<1>7. LineInv' /\ (Unspoilt => Sound)'
  BY <1>2, <1>4, <1>5, <1>6, ThrowKept
<1>8. line' \in Seq(Nat \X Nat) /\ Len(line') = Len(line) - n /\ cut' \subseteq DOMAIN frames'
  BY <1>1, <1>2, <1>4, ThrowTyped
<1>9. avail' \in Nat /\ wire + avail' <= Len(line')
  BY <1>2, <1>3, <1>4, <1>8
<1>10. commands' \in Seq(Commands)
  <2>1. "get" \in Commands
    BY DEF Commands
  <2>2. QED BY <1>1, <1>2, <2>1, Sending
<1>11. UbloxTypeInv'
  BY <1>1, <1>2, <1>5, <1>8, <1>9, <1>10 DEF UbloxTypeInv
<1>12. StageInv'
  BY <1>2 DEF StageInv
<1>13. QED BY <1>7, <1>11, <1>12 DEF UbloxInv

LEMMA DisableKept == UbloxInv /\ Disable => UbloxInv'
<1> SUFFICES ASSUME UbloxInv, Disable PROVE UbloxInv'
  OBVIOUS
<1>1. UbloxTypeInv /\ LineInv /\ StageInv
  BY DEF UbloxInv
<1>2. /\ ~Reading /\ stage' = "off" /\ parser' = Reset(parser)
      /\ line' = <<>> /\ avail' = 0 /\ commands' = <<>> /\ cut' = cut \cup FramesOf(line)
      /\ UNCHANGED <<delegate, bytes, wire, beyond, found, frames, answers, taken, swallowed, padded, faults>>
  BY DEF Disable
<1>3. pvtOn' \in BOOLEAN
  BY <1>1 DEF UbloxTypeInv, Disable
<1>4. wire = 0 /\ Len(line) \in Nat /\ parser \in Parsers /\ line \in Seq(Nat \X Nat)
  BY <1>1, <1>2, LenProperties DEF UbloxTypeInv, Reading
<1>5. parser'.state = 0 /\ parser' \in Parsers
  BY <1>2, <1>4, ResetType
<1>6. Len(line) \in 0..Len(line) /\ Len(line) \in Int /\ Len(line) + 1 \in Int /\ Len(line) < Len(line) + 1
  BY <1>4
<1>7. SubSeq(line, Len(line) + 1, Len(line)) = <<>>
  BY <1>6, SubSeqEmpty
<1>8. SubSeq(line, 1, Len(line)) = line
  <2>1. /\ SubSeq(line, 1, Len(line)) \in Seq(Nat \X Nat) /\ Len(SubSeq(line, 1, Len(line))) = Len(line)
        /\ \A j \in 1..Len(line) : SubSeq(line, 1, Len(line))[j] = line[j]
    BY <1>1, <1>6, Prefix
  <2>2. QED BY <2>1, <1>4, SeqEqual
<1>9. LineInv' /\ (Unspoilt => Sound)'
  <2>1. line' = SubSeq(line, Len(line) + 1, Len(line)) /\ cut' = cut \cup FramesOf(SubSeq(line, 1, Len(line)))
    BY <1>2, <1>7, <1>8
  <2>2. QED BY <1>2, <1>5, <1>6, <2>1, ThrowKept
<1>10. cut' \subseteq DOMAIN frames'
  <2>1. Len(line) <= Len(line)
    BY <1>4
  <2>2. FramesOf(line) \subseteq DOMAIN frames
    BY <1>1, <1>4, <2>1, FramesOfIn
  <2>3. QED BY <1>1, <1>2, <2>2 DEF UbloxTypeInv
<1>11. line' \in Seq(Nat \X Nat) /\ commands' \in Seq(Commands) /\ Len(line') = 0
  BY <1>2, EmptySeq
<1>12. UbloxTypeInv'
  BY <1>1, <1>2, <1>3, <1>4, <1>5, <1>10, <1>11 DEF UbloxTypeInv
<1>13. StageInv'
  BY <1>2, <1>5 DEF StageInv, Reading
<1>14. QED BY <1>9, <1>12, <1>13 DEF UbloxInv

-----------------------------------------------------------------------------
(* A byte that is read                                                     *)

\* The place behind the first one of the line.
LEMMA NextPlace ==
  ASSUME UbloxTypeInv, LineInv, line # <<>>, line' = Tail(line),
         NEW n, NEW i, line[1] = <<n, i>>
  PROVE  /\ DOMAIN line' \in SUBSET Nat
         /\ FramesOf(line) \subseteq FramesOf(line') \cup {n}
         /\ \A j \in DOMAIN line' : line'[j] = line[j + 1] /\ j + 1 \in DOMAIN line
         /\ \/ i < FrameSizes[n] /\ line' # <<>> /\ line'[1] = <<n, i + 1>>
            \/ i = FrameSizes[n] /\ line' # <<>> /\ line'[1] = <<n + 1, 1>> /\ \A j \in DOMAIN line' : n < line'[j][1]
            \/ i = FrameSizes[n] /\ line' = <<>> /\ n = Len(frames)
<1> DEFINE h == Len(line)
           g == Len(line')
<1>1. /\ line' = SubSeq(line, 1 + 1, Len(line)) /\ h \in Nat \ {0} /\ 1 \in 0..Len(line)
      /\ n \in 1..Len(frames) /\ n \in DOMAIN frames /\ i \in 1..FrameSizes[n] /\ Len(frames) \in Nat
  BY HeadOfLine
<1>2. /\ line' \in Seq(Nat \X Nat) /\ g = h - 1
      /\ \A j \in 1..g : line'[j] = line[1 + j]
  BY <1>1, Dropped
<1>3. DOMAIN line = 1..h /\ DOMAIN line' = 1..g
  BY <1>1, <1>2, LenProperties DEF UbloxTypeInv
<1>4. Gapless(line, h, Len(frames), FrameSizes)
  BY DEF LineInv
<1>5. g = 0 => line' = <<>>
  BY <1>2, EmptySeq
<1>6. g # 0 => line' # <<>>
  BY EmptySeq
<1>7. PayloadLength(frames[n]) \in 1..255 /\ FrameSizes[n] = PayloadLength(frames[n]) + 8
  BY <1>1, FrameFacts
<1> HIDE DEF h, g
<1>8. g \in Nat /\ h \in Nat \ {0} /\ g = h - 1 /\ n \in Nat
  BY <1>1, <1>2
<1>9. \A j \in 1..g : line'[j] = line[j + 1] /\ j + 1 \in 1..h
  <2>1. \A j \in 1..g : 1 + j = j + 1 /\ j + 1 \in 1..h
    BY <1>8
  <2>2. \A j \in 1..g : line'[j] = line[1 + j]
    BY <1>2
  <2>3. QED BY <2>1, <2>2
<1>10. FramesOf(line) \subseteq FramesOf(line') \cup {n}
  <2>1. ASSUME NEW j \in 1..h PROVE line[j][1] \in FramesOf(line') \cup {n}
    <3>1. CASE j = 1
      BY <3>1
    <3>2. CASE j # 1
      <4>1. j - 1 \in 1..g /\ (j - 1) + 1 = j
        BY <3>2, <1>8
      <4>2. line'[j - 1] = line[j]
        BY <4>1, <1>9
      <4>3. line'[j - 1][1] \in FramesOf(line')
        BY <4>1, <1>3, Zenon DEF FramesOf
      <4>4. QED BY <4>2, <4>3
    <3>3. QED BY <3>1, <3>2
  <2>2. QED BY <2>1, <1>3 DEF FramesOf
<1>11. FrameSizes[n] \in Int /\ i \in Int /\ i <= FrameSizes[n]
  <2>1. \A l \in 1..255 : l + 8 \in Int
    OBVIOUS
  <2>2. PayloadLength(frames[n]) + 8 \in Int
    BY <2>1, <1>7
  <2>3. FrameSizes[n] \in Int
    BY <2>2, <1>7, Zenon
  <2>4. \A z \in Int : i \in 1..z => i \in Int /\ i <= z
    OBVIOUS
  <2>5. QED BY <2>3, <2>4, <1>1
<1>12. CASE g = 0
  <2>1. h = 1
    BY <1>8, <1>12
  <2>2. line[1] = <<Len(frames), FrameSizes[Len(frames)]>>
    BY <2>1, <1>4 DEF Gapless
  <2>3. n = Len(frames) /\ i = FrameSizes[n]
    BY <2>2
  <2>4. QED BY <2>3, <1>3, <1>5, <1>8, <1>9, <1>10, <1>12
<1>13. CASE g # 0
  <2>1. 1 \in 1..g /\ 1 \in 1..(h - 1) /\ 1 \in 1..h /\ 2 \in 1..h /\ 1 + 1 = 2
    BY <1>8, <1>13
  <2>2. line'[1] = line[2] /\ line[2] = After(<<n, i>>, FrameSizes)
    BY <2>1, <1>4, <1>9 DEF Gapless
  <2>3. line' # <<>>
    BY <1>6, <1>13
  <2>4. CASE i < FrameSizes[n]
    <3>1. line'[1] = <<n, i + 1>>
      BY <2>2, <2>4 DEF After
    <3>2. QED BY <2>3, <2>4, <3>1, <1>3, <1>8, <1>9, <1>10
  <2>5. CASE ~ (i < FrameSizes[n])
    <3>0. i = FrameSizes[n]
      <4>1. \A x, y \in Int : x <= y /\ ~ (x < y) => x = y
        OBVIOUS
      <4>2. QED BY <4>1, <1>11, <2>5
    <3>1. line'[1] = <<n + 1, 1>> /\ i = FrameSizes[n]
      BY <2>2, <2>5, <3>0 DEF After
    <3>2. ASSUME NEW j \in 1..g PROVE n < line'[j][1]
      <4>0. j \in Nat /\ (j + 1 = 2 \/ 2 < j + 1)
        BY <1>8
      <4>1. line'[j] = line[j + 1] /\ j + 1 \in 1..h /\ (j + 1 = 2 \/ 2 < j + 1)
        BY <4>0, <1>9
      <4>2. line[2][1] = n + 1
        <5>1. line[2] = <<n + 1, 1>>
          BY <2>2, <3>1, Zenon
        <5>2. QED BY <5>1
      <4>3. line[j + 1][1] \in Int
        <5>1. line[j + 1][1] \in 1..Len(frames)
          BY <4>1, <1>4 DEF Gapless
        <5>2. QED BY <5>1, <1>1
      <4>4. line[2][1] <= line[j + 1][1]
        BY <2>1, <4>1, <4>2, <4>3, <1>4, <1>8 DEF Gapless
      <4>5. n < line[j + 1][1]
        BY <4>2, <4>3, <4>4, <1>8
      <4>6. QED BY <4>1, <4>5
    <3>3. QED BY <2>3, <3>1, <3>2, <1>3, <1>8, <1>9, <1>10
  <2>6. QED BY <2>4, <2>5
<1>14. QED BY <1>12, <1>13

\* Where bytes were lost, a frame that ends in 0xB5 spoils the next one.
LEMMA LostOn ==
  ASSUME NEW n \in Nat, NEW c, c \subseteq Nat, NEW f, Lost(n, c, f), EndsIn(f, n)
  PROVE  Missed(n + 1, c, f)
<1>1. CASE n \in c
  <2>1. n < n + 1 /\ \A k \in n..((n + 1) - 1) : EndsIn(f, k)
    OBVIOUS
  <2>2. QED BY <1>1, <2>1 DEF Missed
<1>2. CASE Missed(n, c, f)
  <2>1. PICK m \in c : m < n /\ \A k \in m..(n - 1) : EndsIn(f, k)
    BY <1>2 DEF Missed
  <2>2. m \in Nat
    OBVIOUS
  <2>3. \A k \in m..((n + 1) - 1) : k = n \/ k \in m..(n - 1)
    BY <2>2
  <2>4. m < n + 1 /\ \A k \in m..((n + 1) - 1) : EndsIn(f, k)
    BY <2>1, <2>2, <2>3
  <2>5. QED BY <2>4 DEF Missed
<1>3. QED BY <1>1, <1>2 DEF Lost

\* ParserAt, for a message of l bytes.
Placed(p, n, i, c, f, l) ==
  \/ GivenTo(p, f[n], l, i)
  \/ i > 1 /\ p.state = 0 /\ Lost(n, c, f)
  \/ /\ p.state = 1 /\ f[n].bytes[i] # Sync2
     /\ IF i = 1 THEN Missed(n, c, f) ELSE Lost(n, c, f)

LEMMA PlacedIs ==
  ASSUME NEW p, NEW n, NEW i, NEW c, NEW f
  PROVE  ParserAt(p, n, i, c, f) <=> Placed(p, n, i, c, f, PayloadLength(f[n]))
BY DEF ParserAt, Placed, InStep

OneSync(m, l) == \A i \in 3..(l + 7) : ~ (m.bytes[i] = Sync1 /\ m.bytes[i + 1] = Sync2)

Fitting(m, l) == MessageOK(m, l) /\ (m.id \notin Acks => l <= BufferSize)

\* The parser, given the next byte of the line.
LEMMA ParserMoves ==
  ASSUME NEW p \in Parsers, NEW n \in Nat, NEW l \in 1..255, NEW i \in 1..(l + 8), NEW c, c \subseteq Nat, NEW f,
         Fitting(f[n], l), c = {} \/ OneSync(f[n], l), Placed(p, n, i, c, f, l)
  PROVE  LET q == Process(p, f[n].bytes[i])
         IN  IF i = l + 8 THEN q.state = 0 \/ (q.state = 1 /\ Missed(n + 1, c, f))
             ELSE Placed(q, n, i + 1, c, f, l)
<1> DEFINE m == f[n]
           b == f[n].bytes[i]
           q == Process(p, b)
<1>1. MessageOK(m, l) /\ (m.id \notin Acks => l <= BufferSize)
  BY DEF Fitting
<1>2. Lost(n, c, f) => c # {}
  BY DEF Lost, Missed
<1>3. m.bytes[2] = Sync2 /\ Len(m.bytes) = l + 8
  BY <1>1 DEF MessageOK
<1>4. CASE GivenTo(p, m, l, i)
  <2>1. CASE i = l + 8
    BY <2>1, <1>1, <1>4, LastByte, ZenonT(60)
  <2>2. CASE i # l + 8
    <3>1. i \in 1..(l + 7)
      BY <2>2
    <3>2. GivenTo(q, m, l, i + 1)
      <4> HIDE DEF m
      <4>1. b = m.bytes[i]
        BY DEF m
      <4> HIDE DEF b
      <4>2. QED BY <1>1, <1>4, <3>1, <4>1, StepKept
    <3>3. QED BY <2>2, <3>2 DEF Placed
  <2>3. QED BY <2>1, <2>2
<1>5. CASE i > 1 /\ p.state = 0 /\ Lost(n, c, f)
  <2>1. q.state = IF b = Sync1 THEN 1 ELSE 0
    BY <1>5, Looking
  <2>2. CASE i = l + 8
    <3>1. b = Sync1 => EndsIn(f, n)
      BY <2>2, <1>3 DEF EndsIn
    <3>2. b = Sync1 => Missed(n + 1, c, f)
      BY <3>1, <1>5, LostOn
    <3>3. QED BY <2>1, <2>2, <3>2
  <2>3. CASE i # l + 8
    <3>1. i + 1 > 1 /\ i + 1 # 1
      OBVIOUS
    <3>2. ASSUME b = Sync1 PROVE m.bytes[i + 1] # Sync2
      <4>1. i # 2
        BY <3>2, <1>3 DEF Sync1, Sync2
      <4>2. i \in 3..(l + 7)
        BY <4>1, <2>3, <1>5
      <4>3. OneSync(m, l)
        BY <1>2, <1>5
      <4>4. QED BY <3>2, <4>2, <4>3 DEF OneSync
    <3> HIDE DEF q, b, m
    <3>3. Placed(q, n, i + 1, c, f, l)
      BY <2>1, <3>1, <3>2, <1>5 DEF Placed, m
    <3>4. QED BY <2>3, <3>3 DEF q, b
  <2>4. QED BY <2>2, <2>3
<1>6. CASE p.state = 1 /\ b # Sync2 /\ IF i = 1 THEN Missed(n, c, f) ELSE Lost(n, c, f)
  <2>1. q.state = 0
    BY <1>6, Looking
  <2>2. i + 1 > 1 /\ Lost(n, c, f)
    BY <1>6 DEF Lost
  <2>3. QED BY <2>1, <2>2 DEF Placed
<1>7. QED BY <1>4, <1>5, <1>6 DEF Placed

LEMMA OverwritePlaced ==
  ASSUME NEW p \in Parsers, NEW n, NEW i, NEW c, NEW f, NEW l, Placed(p, n, i, c, f, l)
  PROVE  Placed(Overwrite(p), n, i, c, f, l)
BY OverwriteKeeps DEF Placed

IsPvt(p, c) == p.state = 8 /\ Whole(p, c) /\ p.id = NavPvt /\ p.length = PvtLength

\* What is handed on is the message of which the last byte comes in, if the parser is in
\* step with it; and if it is a NAV-PVT message, it is handed on.
LEMMA HandedOn ==
  ASSUME NEW p \in Parsers, NEW n \in Nat, NEW l \in 1..255, NEW i \in 1..(l + 8), NEW c, NEW f,
         Fitting(f[n], l), Placed(p, n, i, c, f, l)
  PROVE  /\ IsPvt(p, f[n].bytes[i]) =>
              /\ i = l + 8 /\ f[n].id = NavPvt /\ l = PvtLength
              /\ \A j \in 1..l : p.buf[j] \in {f[n].bytes[6 + j], Overwritten}
         /\ i = l + 8 /\ f[n].id = NavPvt /\ l = PvtLength =>
              IsPvt(p, f[n].bytes[i]) \/ Lost(n, c, f)
<1> DEFINE m == f[n]
<1>1. MessageOK(m, l)
  BY DEF Fitting
<1>2. NavPvt \notin Acks
  <2>1. <<1, 7>> # <<5, 1>> /\ <<1, 7>> # <<5, 0>>
    OBVIOUS
  <2>2. QED BY <2>1, Zenon DEF NavPvt, Acks, Ack
<1>3. ASSUME GivenTo(p, m, l, l + 8)
      PROVE  /\ p.state = 8 /\ Whole(p, m.bytes[l + 8]) /\ p.id = m.id
             /\ m.id \notin Acks => /\ p.length = l /\ Len(p.buf) = l
                                    /\ \A j \in 1..l : p.buf[j] \in {m.bytes[6 + j], Overwritten}
  BY <1>1, <1>3, LastByte, ZenonT(60)
<1>4. ASSUME IsPvt(p, m.bytes[i])
      PROVE  i = l + 8 /\ m.id = NavPvt /\ l = PvtLength
             /\ \A j \in 1..l : p.buf[j] \in {m.bytes[6 + j], Overwritten}
  <2>1. p.state = 8 /\ p.id = NavPvt /\ p.length = PvtLength
    BY <1>4 DEF IsPvt
  <2>2. GivenTo(p, m, l, i)
    BY <2>1 DEF Placed
  <2>3. i = l + 8
    BY <2>1, <2>2, NotBefore
  <2>4. QED BY <2>1, <2>2, <2>3, <1>2, <1>3
<1>5. ASSUME i = l + 8, m.id = NavPvt, l = PvtLength
      PROVE  IsPvt(p, m.bytes[i]) \/ Lost(n, c, f)
  <2>1. CASE GivenTo(p, m, l, i)
    BY <2>1, <1>2, <1>3, <1>5 DEF IsPvt
  <2>2. CASE ~ GivenTo(p, m, l, i)
    <3>1. i # 1
      BY <1>5
    <3>2. QED BY <2>2, <3>1 DEF Placed
  <2>3. QED BY <2>1, <2>2
<1>6. QED BY <1>4, <1>5

\* What is known of the byte that is read.
ByteKnown(n, i, l) ==
  /\ n \in Nat /\ n \in DOMAIN frames /\ n \in 1..MaxFrames /\ n \in 1..Len(frames)
  /\ l \in 1..255 /\ i \in 1..(l + 8) /\ FrameSizes[n] = l + 8
  /\ parser \in Parsers /\ cut \subseteq Nat
  /\ Fitting(frames[n], l) /\ (cut = {} \/ OneSync(frames[n], l))
  /\ Placed(parser, n, i, cut, frames, l)
  /\ Value(Head(line)) = frames[n].bytes[i] /\ frames[n].bytes[i] \in Byte /\ Head(line)[1] = n

LEMMA ByteRead ==
  ASSUME UbloxInv, Unspoilt, line # <<>>, NEW n, NEW i, line[1] = <<n, i>>
  PROVE  ByteKnown(n, i, PayloadLength(frames[n]))
<1> DEFINE l == PayloadLength(frames[n])
<1>1. UbloxTypeInv /\ LineInv /\ Sound
  BY DEF UbloxInv
<1>2. /\ Head(line) = line[1] /\ n \in DOMAIN frames /\ n \in 1..Len(frames) /\ Len(frames) \in Nat
      /\ i \in 1..FrameSizes[n]
      /\ Value(line[1]) = frames[n].bytes[i] /\ Value(line[1]) \in Byte
  BY <1>1, HeadOfLine
<1>3. /\ n \in 1..MaxFrames /\ frames[n] \in Messages(n) /\ FrameSizes[n] = l + 8 /\ l \in 1..255
      /\ MessageOK(frames[n], l)
  BY <1>1, <1>2, FrameFacts
<1>4. i \in 1..(l + 8)
  BY <1>2, <1>3, Zenon
<1>5. Fitting(frames[n], l)
  BY <1>3, MessageFacts DEF Fitting
<1>6. cut = {} \/ OneSync(frames[n], l)
  <2>1. ASSUME NoInnerSync PROVE OneSync(frames[n], l)
    <3>1. Len(frames[n].bytes) = l + 8
      BY <1>3 DEF MessageOK
    <3>2. \A j \in 3..(Len(frames[n].bytes) - 1) : ~ (frames[n].bytes[j] = Sync1 /\ frames[n].bytes[j + 1] = Sync2)
      BY <2>1, <1>3, Zenon DEF NoInnerSync
    <3>3. (l + 8) - 1 = l + 7
      <4>1. \A x \in 1..255 : (x + 8) - 1 = x + 7
        OBVIOUS
      <4>2. l \in 1..255
        BY <1>3
      <4> HIDE DEF l
      <4>3. QED BY <4>1, <4>2
    <3>4. \A j \in 3..((l + 8) - 1) : ~ (frames[n].bytes[j] = Sync1 /\ frames[n].bytes[j + 1] = Sync2)
      BY <3>1, <3>2, Zenon
    <3>5. \A j \in 3..(l + 7) : ~ (frames[n].bytes[j] = Sync1 /\ frames[n].bytes[j + 1] = Sync2)
      BY <3>3, <3>4, Zenon
    <3>6. QED BY <3>5, Zenon DEF OneSync
  <2>2. QED BY <2>1 DEF Unspoilt
<1>7. parser \in Parsers /\ cut \subseteq Nat
  <2>1. DOMAIN frames = 1..Len(frames)
    BY <1>1, LenProperties DEF UbloxTypeInv
  <2>2. QED BY <1>1, <2>1, <1>2 DEF UbloxTypeInv
<1>8. Placed(parser, n, i, cut, frames, l)
  <2>1. line[1][1] = n /\ line[1][2] = i
    OBVIOUS
  <2>2. ParserAt(parser, n, i, cut, frames)
    BY <1>1, <2>1, Zenon DEF Sound, ParserInv
  <2>3. QED BY <2>2, PlacedIs, Zenon
<1>9. n \in Nat /\ Head(line)[1] = n
  BY <1>2
<1> HIDE DEF l
<1>10. ByteKnown(n, i, l)
  BY <1>2, <1>3, <1>4, <1>5, <1>6, <1>7, <1>8, <1>9 DEF ByteKnown
<1>11. QED BY <1>10 DEF l

\* The byte that is read is given to the parser.
LEMMA ByteParsed ==
  ASSUME UbloxInv, LineInv', Unspoilt, line # <<>>, NEW n, NEW i, line[1] = <<n, i>>, line' = Tail(line),
         NEW l, ByteKnown(n, i, l), UNCHANGED <<frames, cut>>,
         parser' \in {Process(parser, frames[n].bytes[i]), Overwrite(Process(parser, frames[n].bytes[i]))}
  PROVE  ParserInv'
<1> DEFINE q == Process(parser, frames[n].bytes[i])
<1>1. UbloxTypeInv /\ LineInv
  BY DEF UbloxInv
<1>2. /\ n \in Nat /\ n \in 1..Len(frames)
      /\ l \in 1..255 /\ i \in 1..(l + 8) /\ FrameSizes[n] = l + 8
      /\ parser \in Parsers /\ cut \subseteq Nat
      /\ Fitting(frames[n], l) /\ (cut = {} \/ OneSync(frames[n], l))
      /\ Placed(parser, n, i, cut, frames, l)
      /\ frames[n].bytes[i] \in Byte
  BY DEF ByteKnown
<1>3. q \in Parsers
  BY <1>2, ProcessType
<1>4. IF i = l + 8 THEN q.state = 0 \/ (q.state = 1 /\ Missed(n + 1, cut, frames))
      ELSE Placed(q, n, i + 1, cut, frames, l)
  BY <1>2, ParserMoves
<1>5. parser' = q \/ parser' = Overwrite(q)
  OBVIOUS
<1> HIDE DEF q
<1>6. parser'.state = q.state
  BY <1>3, <1>5, OverwriteKeeps
<1>7. Placed(q, n, i + 1, cut, frames, l) => Placed(parser', n, i + 1, cut, frames, l)
  BY <1>3, <1>5, OverwritePlaced
<1>8. \/ i < FrameSizes[n] /\ line' # <<>> /\ line'[1] = <<n, i + 1>>
      \/ i = FrameSizes[n] /\ line' # <<>> /\ line'[1] = <<n + 1, 1>>
      \/ i = FrameSizes[n] /\ line' = <<>> /\ n = Len(frames)
  BY <1>1, NextPlace
<1>9. FrameSizes[n] = l + 8 /\ l + 8 \in Int
  <2>1. \A x \in 1..255 : x + 8 \in Int
    OBVIOUS
  <2>2. QED BY <2>1, <1>2, Zenon
<1>10. frames' = frames /\ cut' = cut
  OBVIOUS
<1>11. CASE i < FrameSizes[n] /\ line' # <<>> /\ line'[1] = <<n, i + 1>>
  <2>1. i # l + 8
    BY <1>11, <1>9, <1>2
  <2>2. Placed(parser', n, i + 1, cut, frames, l)
    BY <2>1, <1>4, <1>7
  <2>3. l = PayloadLength(frames[n])
    <3>1. n \in DOMAIN frames
      BY DEF ByteKnown
    <3>2. PayloadLength(frames[n]) \in 1..255 /\ FrameSizes[n] = PayloadLength(frames[n]) + 8
      BY <1>1, <3>1, FrameFacts
    <3>3. \A x, y \in 1..255 : x + 8 = y + 8 => x = y
      OBVIOUS
    <3>4. QED BY <3>2, <3>3, <1>2, Zenon
  <2>4. ParserAt(parser', n, i + 1, cut, frames)
    BY <2>2, <2>3, PlacedIs, Zenon
  <2>5. line'[1][1] = n /\ line'[1][2] = i + 1
    BY <1>11
  <2>6. ParserAt(parser', line'[1][1], line'[1][2], cut', frames')
    BY <2>4, <2>5, <1>10, Zenon
  <2>7. QED BY <2>6, <1>11, Zenon DEF ParserInv
<1>12. CASE i = FrameSizes[n] /\ line' # <<>> /\ line'[1] = <<n + 1, 1>>
  <2>1. parser'.state = 0 \/ (parser'.state = 1 /\ Missed(n + 1, cut, frames))
    BY <1>4, <1>6, <1>9, <1>12
  <2>2. n + 1 \in DOMAIN frames
    <3>1. 1 \in 1..Len(line')
      <4>1. line' \in Seq(Nat \X Nat)
        <5>1. line' = SubSeq(line, 1 + 1, Len(line)) /\ 1 \in 0..Len(line)
          BY <1>1, HeadOfLine
        <5>2. QED BY <1>1, <5>1, Dropped
      <4>2. QED BY <4>1, <1>12, EmptySeq
    <3>2. line'[1][1] \in 1..Len(frames')
      BY <3>1, Zenon DEF LineInv, Gapless
    <3>3. n + 1 \in 1..Len(frames)
      BY <3>2, <1>12
    <3>4. QED BY <3>3, <1>1, LenProperties DEF UbloxTypeInv
  <2>3. PayloadLength(frames[n + 1]) \in 1..255 /\ MessageOK(frames[n + 1], PayloadLength(frames[n + 1]))
    BY <1>1, <2>2, FrameFacts
  <2>4. ParserAt(parser', n + 1, 1, cut, frames)
    <3>1. CASE parser'.state = 0
      BY <3>1, <2>3, ParserFirst DEF ParserAt
    <3>2. CASE parser'.state = 1 /\ Missed(n + 1, cut, frames)
      <4>1. frames[n + 1].bytes[1] # Sync2
        BY <2>3 DEF MessageOK, Sync1, Sync2
      <4>2. QED BY <3>2, <4>1 DEF ParserAt
    <3>3. QED BY <2>1, <3>1, <3>2
  <2>5. line'[1][1] = n + 1 /\ line'[1][2] = 1
    BY <1>12
  <2>6. ParserAt(parser', line'[1][1], line'[1][2], cut', frames')
    BY <2>4, <2>5, <1>10, Zenon
  <2>7. QED BY <2>6, <1>12, Zenon DEF ParserInv
<1>13. CASE i = FrameSizes[n] /\ line' = <<>> /\ n = Len(frames)
  <2>1. parser'.state = 0 \/ (parser'.state = 1 /\ Missed(n + 1, cut, frames))
    BY <1>4, <1>6, <1>9, <1>13
  <2>2. parser'.state = 0 \/ (parser'.state = 1 /\ Missed(Len(frames') + 1, cut', frames'))
    BY <2>1, <1>10, <1>13, Zenon
  <2>3. QED BY <2>2, <1>13, Zenon DEF ParserInv
<1>14. QED BY <1>8, <1>11, <1>12, <1>13

\* What the delegate is given with the last byte of a NAV-PVT message.
LEMMA ByteTaken ==
  ASSUME UbloxInv, Unspoilt, line # <<>>, NEW n, NEW i, line[1] = <<n, i>>, line' = Tail(line),
         NEW l, ByteKnown(n, i, l), UNCHANGED <<frames, cut>>,
         \/ /\ IsPvt(parser, frames[n].bytes[i])
            /\ taken' = Append(taken, [frame |-> n, buf |-> parser.buf])
         \/ taken' = taken
  PROVE  TakenAsSent' /\ TakenBehind'
<1>1. UbloxTypeInv /\ LineInv /\ TakenAsSent /\ TakenBehind
  BY DEF UbloxInv, Sound
<1>2. /\ n \in Nat /\ n \in DOMAIN frames /\ n \in 1..MaxFrames
      /\ l \in 1..255 /\ i \in 1..(l + 8) /\ FrameSizes[n] = l + 8
      /\ parser \in Parsers
      /\ Fitting(frames[n], l) /\ Placed(parser, n, i, cut, frames, l)
  BY DEF ByteKnown
<1>3. /\ \A j \in DOMAIN line' : line'[j] = line[j + 1] /\ j + 1 \in DOMAIN line
      /\ \/ i < FrameSizes[n]
         \/ i = FrameSizes[n] /\ \A j \in DOMAIN line' : n < line'[j][1]
         \/ i = FrameSizes[n] /\ line' = <<>>
  BY <1>1, NextPlace
<1>4. \A k \in DOMAIN taken, j \in DOMAIN line' : taken[k].frame < line'[j][1]
  BY <1>1, <1>3 DEF TakenBehind
<1>5. CASE taken' = taken
  <2>1. TakenAsSent'
    BY <1>5, <1>1 DEF TakenAsSent
  <2>2. TakenBehind'
    BY <1>5, <1>4 DEF TakenBehind
  <2>3. QED BY <2>1, <2>2
<1>6. CASE IsPvt(parser, frames[n].bytes[i]) /\ taken' = Append(taken, [frame |-> n, buf |-> parser.buf])
  <2>1. /\ i = l + 8 /\ frames[n].id = NavPvt /\ l = PvtLength
        /\ \A j \in 1..l : parser.buf[j] \in {frames[n].bytes[6 + j], Overwritten}
    BY <1>2, <1>6, HandedOn
  <2>2. \A j \in 1..PvtLength : parser.buf[j] \in {PvtPayload(n)[j], Overwritten}
    <3>1. frames[n] \in Messages(n)
      BY <1>1, <1>2, FrameFacts
    <3>2. \A j \in 1..PvtLength : frames[n].bytes[6 + j] = PvtPayload(n)[j]
      BY <3>1, <2>1, <1>2, MessageFacts
    <3>3. QED BY <3>2, <2>1
  <2>3. taken \in Seq(Takings) /\ Len(taken) \in Nat /\ DOMAIN taken = 1..Len(taken)
    BY <1>1, LenProperties DEF UbloxTypeInv
  <2> DEFINE e == [frame |-> n, buf |-> parser.buf]
             k == Len(taken)
  <2>4. e \in Takings
    <3>1. parser.buf \in Seq(0..256)
      BY <1>2, ParserFields
    <3>2. QED BY <3>1, <1>2 DEF Takings
  <2>5. /\ taken' \in Seq(Takings) /\ Len(taken') = k + 1
        /\ (\A j \in 1..k : taken'[j] = taken[j]) /\ taken'[k + 1] = e
    <3>1. taken' = Append(taken, e)
      BY <1>6
    <3> HIDE DEF e
    <3>2. /\ Append(taken, e) \in Seq(Takings) /\ Len(Append(taken, e)) = Len(taken) + 1
          /\ (\A j \in 1..Len(taken) : Append(taken, e)[j] = taken[j]) /\ Append(taken, e)[Len(taken) + 1] = e
      BY <2>3, <2>4, AppendProperties
    <3>3. QED BY <3>1, <3>2
  <2>6. DOMAIN taken' = 1..(k + 1) /\ k \in Nat /\ 1..k = DOMAIN taken
    BY <2>5, <2>3, LenProperties
  <2>7. e.frame = n /\ e.buf = parser.buf
    OBVIOUS
  <2> HIDE DEF e, k
  <2>8. \A j \in 1..(k + 1) : j \in 1..k \/ j = k + 1
    BY <2>6
  <2>9. \A j \in 1..k : taken[j].frame < n /\ taken[j].frame \in Nat
    <3>1. 1 \in DOMAIN line /\ line[1][1] = n
      <4>1. Len(line) \in Nat \ {0} /\ line \in Seq(Nat \X Nat)
        BY <1>1, HeadOfLine DEF UbloxTypeInv
      <4>2. QED BY <4>1, LenProperties
    <3>2. \A j \in 1..k : taken[j] \in Takings
      BY <2>3, <2>6, ElementOfSeq
    <3>3. \A j \in 1..k : taken[j].frame < n
      BY <3>1, <2>6, <1>1 DEF TakenBehind
    <3>4. QED BY <3>2, <3>3 DEF Takings
  <2>10. TakenAsSent'
    <3>1. ASSUME NEW j \in 1..(k + 1)
          PROVE  /\ taken'[j].frame \in DOMAIN frames /\ frames[taken'[j].frame].id = NavPvt
                 /\ \A x \in 1..PvtLength :
                      taken'[j].buf[x] \in {PvtPayload(taken'[j].frame)[x], Overwritten}
      <4>1. CASE j \in 1..k
        BY <4>1, <2>5, <2>6, <1>1 DEF TakenAsSent
      <4>2. CASE j = k + 1
        BY <4>2, <2>5, <2>7, <2>1, <2>2, <1>2
      <4>3. QED BY <4>1, <4>2, <2>8
    <3>2. ASSUME NEW j \in 1..(k + 1), NEW x \in 1..(k + 1), j < x PROVE taken'[j].frame < taken'[x].frame
      <4>1. j \in 1..k
        BY <3>2, <2>6
      <4>2. CASE x \in 1..k
        BY <4>1, <4>2, <3>2, <2>5, <2>6, <1>1 DEF TakenAsSent
      <4>3. CASE x = k + 1
        BY <4>1, <4>3, <2>5, <2>7, <2>9
      <4>4. QED BY <4>2, <4>3, <2>8
    <3>3. QED BY <3>1, <3>2, <2>6 DEF TakenAsSent
  <2>11. TakenBehind'
    <3>1. ASSUME NEW j \in 1..(k + 1), NEW x \in DOMAIN line' PROVE taken'[j].frame < line'[x][1]
      <4>1. CASE j \in 1..k
        BY <4>1, <2>5, <2>6, <1>4
      <4>2. CASE j = k + 1
        <5>1. i = FrameSizes[n] /\ FrameSizes[n] \in Int
          BY <2>1, <1>2
        <5>2. ~ (i < FrameSizes[n])
          BY <5>1
        <5>3. line' # <<>>
          BY EmptySeq
        <5>4. n < line'[x][1]
          BY <5>2, <5>3, <1>3
        <5>5. QED BY <4>2, <5>4, <2>5, <2>7
      <4>3. QED BY <4>1, <4>2, <2>8
    <3>2. QED BY <3>1, <2>6 DEF TakenBehind
  <2>12. QED BY <2>10, <2>11
<1>7. QED BY <1>5, <1>6

\* A NAV-PVT message of which the last byte comes in is handed on, or it was lost.
LEMMA ByteSkipped ==
  ASSUME UbloxInv, Unspoilt, line # <<>>, NEW n, NEW i, line[1] = <<n, i>>, line' = Tail(line),
         NEW l, ByteKnown(n, i, l), UNCHANGED <<frames, cut>>,
         NEW b \in Seq(0..256), LET pvt == IsPvt(parser, frames[n].bytes[i])
         IN  \/ pvt /\ taken' = Append(taken, [frame |-> n, buf |-> b]) /\ swallowed' = swallowed
             \/ pvt /\ taken' = taken /\ swallowed' = swallowed \cup {n}
             \/ ~pvt /\ taken' = taken /\ swallowed' = swallowed
  PROVE  NoneSkipped'
<1>1. UbloxTypeInv /\ LineInv /\ NoneSkipped /\ ~padded
  BY DEF UbloxInv, Sound, Unspoilt
<1>2. /\ n \in Nat /\ n \in DOMAIN frames /\ n \in 1..MaxFrames
      /\ l \in 1..255 /\ i \in 1..(l + 8) /\ FrameSizes[n] = l + 8
      /\ parser \in Parsers
      /\ Fitting(frames[n], l) /\ Placed(parser, n, i, cut, frames, l)
  BY DEF ByteKnown
<1>3. /\ FramesOf(line) \subseteq FramesOf(line') \cup {n}
      /\ \/ i < FrameSizes[n] /\ line' # <<>> /\ line'[1] = <<n, i + 1>>
         \/ i = FrameSizes[n]
      /\ line' # <<>> => 1 \in DOMAIN line'
  <2>1. line' = SubSeq(line, 1 + 1, Len(line)) /\ 1 \in 0..Len(line)
    BY <1>1, HeadOfLine
  <2>2. line' \in Seq(Nat \X Nat)
    BY <1>1, <2>1, Dropped
  <2>3. line' # <<>> => 1 \in DOMAIN line'
    BY <2>2, EmptySeq, LenProperties
  <2>4. QED BY <1>1, <2>3, NextPlace
<1>4. /\ taken \in Seq(Takings) /\ Len(taken) \in Nat /\ DOMAIN taken = 1..Len(taken)
  BY <1>1, LenProperties DEF UbloxTypeInv
<1>5. /\ \A k : (\E x \in DOMAIN taken : taken[x].frame = k) => \E x \in DOMAIN taken' : taken'[x].frame = k
      /\ swallowed \subseteq swallowed'
      /\ IsPvt(parser, frames[n].bytes[i]) => n \in swallowed' \/ \E x \in DOMAIN taken' : taken'[x].frame = n
  <2>1. CASE taken' = taken
    BY <2>1
  <2>2. CASE taken' = Append(taken, [frame |-> n, buf |-> b]) /\ swallowed' = swallowed
    <3> DEFINE e == [frame |-> n, buf |-> b]
    <3>1. e \in Takings /\ e.frame = n
      BY <1>2 DEF Takings
    <3> HIDE DEF e
    <3>2. /\ Append(taken, e) \in Seq(Takings) /\ Len(Append(taken, e)) = Len(taken) + 1
          /\ (\A j \in 1..Len(taken) : Append(taken, e)[j] = taken[j]) /\ Append(taken, e)[Len(taken) + 1] = e
      BY <3>1, <1>4, AppendProperties
    <3>3. taken' = Append(taken, e)
      BY <2>2 DEF e
    <3>8. taken' \in Seq(Takings) /\ Len(taken') = Len(taken) + 1
      BY <3>2, <3>3
    <3>9. DOMAIN taken' = 1..(Len(taken) + 1)
      BY <3>8, LenProperties
    <3>4. DOMAIN taken' = 1..(Len(taken) + 1) /\ Len(taken) + 1 \in 1..(Len(taken) + 1)
          /\ \A j \in 1..Len(taken) : j \in 1..(Len(taken) + 1)
      BY <3>9, <1>4
    <3>5. taken'[Len(taken) + 1].frame = n
      BY <3>1, <3>2, <3>3
    <3>6. \A j \in 1..Len(taken) : taken'[j] = taken[j]
      BY <3>2, <3>3
    <3>7. QED BY <2>2, <3>4, <3>5, <3>6, <1>4
  <2>3. QED BY <2>1, <2>2
<1>6. ASSUME NEW k \in DOMAIN frames, frames[k].id = NavPvt, k \notin FramesOf(line')
      PROVE  k \in cut \cup swallowed' \/ (\E x \in DOMAIN taken' : taken'[x].frame = k) \/ Missed(k, cut, frames)
  <2>1. CASE k \notin FramesOf(line)
    <3>1. k \in cut \cup swallowed \/ (\E x \in DOMAIN taken : taken[x].frame = k) \/ Missed(k, cut, frames)
      BY <2>1, <1>6, <1>1, Skipped
    <3>2. QED BY <3>1, <1>5
  <2>2. CASE k \in FramesOf(line)
    <3>1. k = n
      BY <2>2, <1>3, <1>6
    <3>2. i = FrameSizes[n]
      <4>1. ASSUME line' # <<>>, line'[1] = <<n, i + 1>> PROVE FALSE
        <5>1. 1 \in DOMAIN line' /\ line'[1][1] = n
          BY <4>1, <1>3
        <5>2. n \in FramesOf(line')
          BY <5>1, Zenon DEF FramesOf
        <5>3. QED BY <5>2, <3>1, <1>6
      <4>2. QED BY <4>1, <1>3
    <3>3. i = l + 8
      BY <3>2, <1>2
    <3>4. l = PvtLength
      <4>1. frames[n] \in Messages(n) /\ PayloadLength(frames[n]) \in 1..255 /\ FrameSizes[n] = PayloadLength(frames[n]) + 8
        BY <1>1, <1>2, FrameFacts
      <4>2. PayloadLength(frames[n]) = PvtLength
        BY <4>1, <3>1, <1>2, <1>6, MessageFacts
      <4>3. \A x, y \in 1..255 : x + 8 = y + 8 => x = y
        OBVIOUS
      <4>4. l = PayloadLength(frames[n])
        BY <4>1, <4>3, <1>2, Zenon
      <4>5. QED BY <4>2, <4>4
    <3>5. IsPvt(parser, frames[n].bytes[i]) \/ Lost(n, cut, frames)
      BY <1>2, <3>1, <3>3, <3>4, <1>6, HandedOn, ZenonT(60)
    <3>6. QED BY <3>1, <3>5, <1>5 DEF Lost
  <2>3. QED BY <2>1, <2>2
<1>7. (~padded => \A m \in DOMAIN frames :
       frames[m].id = NavPvt /\ m \notin FramesOf(line) =>
         m \in cut \cup swallowed \/ (\E x \in DOMAIN taken : taken[x].frame = m) \/ Missed(m, cut, frames))'
  BY <1>6 DEF FramesOf
<1>8. QED BY <1>7, Zenon DEF NoneSkipped, Missed, EndsIn, EndsInSync

\* A read beyond the end, between two frames.
LEMMA PaddingKept ==
  ASSUME UbloxInv, Unspoilt', Give(Padding, 0), stage \notin {"off", "enabled"},
         UNCHANGED <<line, frames, cut>>, padded' = (padded \/ parser.state # 0)
  PROVE  Unspoilt /\ Sound'
<1>1. UbloxTypeInv
  BY DEF UbloxInv
<1>2. parser.state = 0 /\ ~padded /\ padded' = padded
  <2>1. ~padded'
    BY DEF Unspoilt
  <2>2. ~padded /\ parser.state = 0
    BY <2>1, Zenon
  <2>3. padded \in BOOLEAN /\ padded' \in BOOLEAN
    BY <1>1, Zenon DEF UbloxTypeInv
  <2>4. QED BY <2>1, <2>2, <2>3, Zenon
<1>3. Unspoilt
  BY <1>2 DEF Unspoilt, NoInnerSync, Messages
<1>4. ParserInv /\ TakenAsSent /\ TakenBehind /\ NoneSkipped
  BY <1>3 DEF UbloxInv, Sound
<1>5. parser \in Parsers /\ Padding \in Byte /\ Padding # Sync1 /\ 0 \in Nat
  BY <1>1 DEF UbloxTypeInv, Padding, Byte, Sync1
<1>6. Process(parser, Padding) = parser
  BY <1>2, <1>5, Looking
<1>7. parser' \in {parser, Overwrite(parser)}
  <2>1. parser' \in {Process(parser, Padding), Overwrite(Process(parser, Padding))}
    BY <1>1, <1>5, Gives
  <2>2. QED BY <2>1, <1>6
<1>8. taken' = taken /\ swallowed' = swallowed
  <2>1. ~ Received(NavPvt, Padding)
    BY <1>2 DEF Received
  <2>2. LET pvt == Received(NavPvt, Padding) /\ parser.length = PvtLength
        IN  \/ pvt /\ taken' = Append(taken, [frame |-> 0, buf |-> parser.buf]) /\ swallowed' = swallowed
            \/ pvt /\ taken' = taken /\ swallowed' = swallowed \cup {0}
            \/ ~pvt /\ taken' = taken /\ swallowed' = swallowed
    BY <1>1, <1>5, Gives
  <2>3. QED BY <2>1, <2>2, Zenon
<1>9. ParserInv'
  <2>1. CASE line = <<>>
    <3>1. parser'.state = 0
      BY <1>2, <1>5, <1>7, OverwriteKeeps
    <3>2. QED BY <2>1, <3>1 DEF ParserInv
  <2>2. CASE line # <<>>
    <3> DEFINE n == line[1][1]
               i == line[1][2]
    <3>1. ParserAt(parser, n, i, cut, frames)
      BY <2>2, <1>4, Zenon DEF ParserInv
    <3> HIDE DEF n, i
    <3>2. Placed(parser, n, i, cut, frames, PayloadLength(frames[n]))
      BY <3>1, PlacedIs, Zenon
    <3>3. Placed(parser', n, i, cut, frames, PayloadLength(frames[n]))
      <4>1. Placed(Overwrite(parser), n, i, cut, frames, PayloadLength(frames[n]))
        BY <3>2, <1>5, OverwritePlaced, Zenon
      <4>2. QED BY <4>1, <3>2, <1>7, Zenon
    <3>4. ParserAt(parser', n, i, cut, frames)
      BY <3>3, PlacedIs, Zenon
    <3>5. QED BY <3>4, <2>2, Zenon DEF ParserInv, n, i
  <2>3. QED BY <2>1, <2>2
<1>10. TakenAsSent'
  BY <1>4, <1>8 DEF TakenAsSent
<1>11. TakenBehind'
  BY <1>4, <1>8 DEF TakenBehind
<1>12. NoneSkipped'
  <2>1. line' = line /\ frames' = frames /\ cut' = cut /\ padded' = padded /\ taken' = taken /\ swallowed' = swallowed
    BY <1>2, <1>8
  <2>2. QED BY <2>1, <1>4, Zenon DEF NoneSkipped, EndsInSync, FramesOf
<1>13. QED BY <1>3, <1>9, <1>10, <1>11, <1>12 DEF Sound

LEMMA ReadKept == UbloxInv /\ Read => UbloxInv'
<1> SUFFICES ASSUME UbloxInv, Read PROVE UbloxInv'
  OBVIOUS
<1>1. UbloxTypeInv /\ LineInv /\ StageInv
  BY DEF UbloxInv
<1>2. UbloxTypeInv'
  BY <1>1, ReadTyped
<1>3. stage \notin {"off", "enabled"} /\ UNCHANGED <<frames, cut>>
  BY <1>1 DEF StageInv, Read, Reading, UbloxTypeInv
<1>4. CASE /\ wire > 0 /\ line' = Tail(line) /\ padded' = padded
           /\ Give(Value(Head(line)), Head(line)[1])
  <2>1. line # <<>>
    <3>1. Len(line) # 0
      BY <1>1, <1>4, LenProperties DEF UbloxTypeInv
    <3>2. QED BY <3>1, EmptySeq
  <2>2. /\ Tail(line) = SubSeq(line, 1 + 1, Len(line)) /\ 1 \in 0..Len(line)
        /\ line[1] = <<line[1][1], line[1][2]>>
        /\ Head(line) = line[1] /\ line[1][1] \in 1..Len(frames) /\ Len(frames) \in Nat
        /\ Value(line[1]) \in Byte
    BY <1>1, <2>1, HeadOfLine
  <2>3. LineInv'
    BY <1>1, <1>3, <1>4, <2>2, DroppedLine
  <2> DEFINE n == line[1][1]
             i == line[1][2]
             l == PayloadLength(frames[n])
  <2>4. line[1] = <<n, i>> /\ n \in Nat /\ Head(line)[1] = n /\ Value(Head(line)) \in Byte
    BY <2>2
  <2> HIDE DEF n, i
  <2>5. Give(Value(Head(line)), n)
    BY <1>4, <2>4
  <2>6. /\ parser' \in {Process(parser, Value(Head(line))), Overwrite(Process(parser, Value(Head(line))))}
        /\ stage' \notin {"off", "enabled"}
        /\ LET pvt == Received(NavPvt, Value(Head(line))) /\ parser.length = PvtLength
           IN  \/ pvt /\ taken' = Append(taken, [frame |-> n, buf |-> parser.buf]) /\ swallowed' = swallowed
               \/ pvt /\ taken' = taken /\ swallowed' = swallowed \cup {n}
               \/ ~pvt /\ taken' = taken /\ swallowed' = swallowed
    BY <1>1, <1>3, <2>4, <2>5, Gives
  <2>7. StageInv'
    BY <2>6 DEF StageInv
  <2>8. ASSUME Unspoilt' PROVE Sound'
    <3>1. Unspoilt
      BY <2>8, <1>3, <1>4 DEF Unspoilt, NoInnerSync, Messages
    <3>2. ByteKnown(n, i, l)
      BY <3>1, <2>1, <2>4, ByteRead
    <3> HIDE DEF l
    <3>3. Value(Head(line)) = frames[n].bytes[i] /\ parser \in Parsers
      BY <3>2 DEF ByteKnown
    <3>4. parser' \in {Process(parser, frames[n].bytes[i]), Overwrite(Process(parser, frames[n].bytes[i]))}
      BY <2>6, <3>3, Zenon
    <3>5. LET pvt == IsPvt(parser, frames[n].bytes[i])
          IN  \/ pvt /\ taken' = Append(taken, [frame |-> n, buf |-> parser.buf]) /\ swallowed' = swallowed
              \/ pvt /\ taken' = taken /\ swallowed' = swallowed \cup {n}
              \/ ~pvt /\ taken' = taken /\ swallowed' = swallowed
      <4>1. IsPvt(parser, frames[n].bytes[i]) <=> (Received(NavPvt, Value(Head(line))) /\ parser.length = PvtLength)
        BY <3>3, Zenon DEF IsPvt, Received
      <4>2. QED BY <4>1, <2>6, Zenon
    <3>6. parser.buf \in Seq(0..256)
      BY <3>3, ParserFields
    <3>7. ParserInv'
      BY <1>3, <1>4, <2>1, <2>3, <2>4, <3>1, <3>2, <3>4, ByteParsed, Zenon
    <3>8. TakenAsSent' /\ TakenBehind'
      <4>1. \/ /\ IsPvt(parser, frames[n].bytes[i])
               /\ taken' = Append(taken, [frame |-> n, buf |-> parser.buf])
            \/ taken' = taken
        BY <3>5, Zenon
      <4>2. QED BY <4>1, <1>3, <1>4, <2>1, <2>4, <3>1, <3>2, ByteTaken, Zenon
    <3>9. NoneSkipped'
      BY <1>3, <1>4, <2>1, <2>4, <3>1, <3>2, <3>5, <3>6, ByteSkipped, ZenonT(60)
    <3>10. QED BY <3>7, <3>8, <3>9 DEF Sound
  <2>9. QED BY <1>2, <2>3, <2>7, <2>8 DEF UbloxInv
<1>5. CASE Give(Padding, 0) /\ padded' = (padded \/ parser.state # 0) /\ line' = line
  <2>1. Padding \in Byte /\ 0 \in Nat
    BY DEF Padding, Byte
  <2>2. stage' \notin {"off", "enabled"}
    BY <1>1, <1>3, <1>5, <2>1, Gives
  <2>3. LineInv'
    <3>1. FrameSizes' = FrameSizes
      BY <1>3 DEF FrameSizes
    <3>2. QED BY <1>1, <1>3, <1>5, <3>1 DEF LineInv
  <2>4. StageInv'
    BY <2>2 DEF StageInv
  <2>5. ASSUME Unspoilt' PROVE Sound'
    BY <2>5, <1>3, <1>5, PaddingKept
  <2>6. QED BY <1>2, <2>3, <2>4, <2>5 DEF UbloxInv
<1>6. QED BY <1>4, <1>5 DEF Read

\* Every step keeps the invariant.
LEMMA UbloxInvInit == UbloxInit => UbloxInv
<1> SUFFICES ASSUME UbloxInit PROVE UbloxInv
  OBVIOUS
<1>1. UbloxTypeInv
  BY UbloxTypeInit
<1>2. /\ line = <<>> /\ frames = <<>> /\ taken = <<>> /\ stage = "off" /\ parser.state = 0
      /\ bytes = 0 /\ wire = 0 /\ beyond = 0
  BY DEF UbloxInit
<1>3. Len(line) = 0 /\ DOMAIN line = {} /\ DOMAIN frames = {} /\ DOMAIN taken = {}
  BY <1>2, EmptySeq
<1>4. LineInv
  BY <1>3 DEF LineInv, Gapless
<1>5. StageInv
  BY <1>2 DEF StageInv, Reading
<1>6. ParserInv
  BY <1>2 DEF ParserInv
<1>7. TakenAsSent /\ TakenBehind /\ NoneSkipped
  BY <1>3 DEF TakenAsSent, TakenBehind, NoneSkipped
<1>8. QED BY <1>1, <1>4, <1>5, <1>6, <1>7 DEF UbloxInv, Sound

LEMMA UbloxInvStep == UbloxInv /\ [UbloxNext]_ubloxVars => UbloxInv'
<1> SUFFICES ASSUME UbloxInv, [UbloxNext]_ubloxVars PROVE UbloxInv'
  OBVIOUS
<1>1. CASE SendPvt \/ Answer
  BY <1>1, SendKept
<1>2. CASE Ready \/ BusFails \/ BusRecovers \/ Enable \/ Poll \/ TimeOut \/ Request
  BY <1>2, QuietKept
<1>3. CASE Flush
  BY <1>3, FlushKept
<1>4. CASE Read
  BY <1>4, ReadKept
<1>5. CASE Disable
  BY <1>5, DisableKept
<1>6. CASE UNCHANGED ubloxVars
  <2>1. /\ UNCHANGED <<parser, delegate, stage, bytes, wire, beyond, found, line, avail, commands, pvtOn, frames>>
        /\ UNCHANGED <<answers, taken, swallowed, cut, padded, faults>>
    BY <1>6 DEF ubloxVars, driver, receiver, seen
  <2>2. UbloxTypeInv'
    BY <2>1 DEF UbloxInv, UbloxTypeInv
  <2>3. LineInv' /\ StageInv'
    BY <2>1 DEF UbloxInv, LineInv, StageInv, FrameSizes, Reading
  <2>4. (Unspoilt => Sound)'
    <3>1. Unspoilt' = Unspoilt
      BY <2>1 DEF Unspoilt
    <3>2. ParserInv' = ParserInv
      BY <2>1, Zenon DEF ParserInv, ParserAt, Missed, Lost, EndsIn
    <3>3. TakenAsSent' = TakenAsSent /\ TakenBehind' = TakenBehind
      BY <2>1 DEF TakenAsSent, TakenBehind
    <3>4. NoneSkipped' = NoneSkipped
      BY <2>1, Zenon DEF NoneSkipped, FramesOf, EndsInSync
    <3>5. QED BY <3>1, <3>2, <3>3, <3>4 DEF UbloxInv, Sound
  <2>5. QED BY <2>2, <2>3, <2>4 DEF UbloxInv
<1>7. QED BY <1>1, <1>2, <1>3, <1>4, <1>5, <1>6 DEF UbloxNext

\* What has been said of the types, the line, the stages and the parser holds always.
THEOREM UbloxInvariant == UbloxSpec => []UbloxInv
<1>1. UbloxInit => UbloxInv
  BY UbloxInvInit
<1>2. UbloxInv /\ [UbloxNext]_ubloxVars => UbloxInv'
  BY UbloxInvStep
<1>3. QED BY <1>1, <1>2, PTL DEF UbloxSpec

\* Every variable of receiver, bus and driver keeps its type; no frame grows beyond the
\* buffer, and the line is never read beyond its end.
THEOREM UbloxTypeCorrect == UbloxSpec => []UbloxTypeInv
<1>1. UbloxInv => UbloxTypeInv
  BY DEF UbloxInv
<1>2. QED BY <1>1, UbloxInvariant, PTL

\* Unless a read beyond the end fell into a frame, or bytes were thrown away and a payload
\* holds 0xB5 0x62, the delegate is given NAV-PVT messages as they were sent, each once and
\* in their order, for all payloads, sizes of requests and faults of the bus.
THEOREM DelegateAsSent == UbloxSpec => [](~padded /\ (cut = {} \/ NoInnerSync) => TakenAsSent)
<1>1. UbloxInv => (~padded /\ (cut = {} \/ NoInnerSync) => TakenAsSent)
  BY DEF UbloxInv, Unspoilt, Sound
<1>2. QED BY <1>1, UbloxInvariant, PTL

\* And every NAV-PVT message that was read is given to it, but for those that a wait() took
\* or that the lost bytes can have cost.
THEOREM NoMessageSkipped == UbloxSpec => [](cut = {} \/ NoInnerSync => NoneSkipped)
<1>1. UbloxInv => (cut = {} \/ NoInnerSync => NoneSkipped)
  BY DEF UbloxInv, Unspoilt, Sound, NoneSkipped
<1>2. QED BY <1>1, UbloxInvariant, PTL
=============================================================================
