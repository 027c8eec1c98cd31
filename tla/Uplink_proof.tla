---------------------------- MODULE Uplink_proof ----------------------------
(***************************************************************************)
(* Proofs about Uplink, for any counter width, any number of repeats, any  *)
(* set of configurations and any number of resets.                         *)
(***************************************************************************)
EXTENDS Uplink, FiniteSetTheorems, TLAPS

-----------------------------------------------------------------------------
(* Type correctness                                                        *)

\* While a report is being tried, there is one, and a try is left.
TriesLeft == pc \in {"attempt", "result"} => msg \in Msgs /\ retCount <= RepeatCount

TypeInv == TypeOK /\ TriesLeft

LEMMA ParamsType ==
  /\ ZeroParams \in Params
  /\ ErasedParams \in Params
  /\ DefaultConfig \in Configs
<1>1. DefaultConfig \in Configs
  BY ConfigsAssumption DEF DefaultConfig
<1>2. 0 \in Counters /\ MaxCnt \in Counters
  BY CounterAssumption DEF Counters
<1>3. 0 \in Offsets
  BY ConfigsAssumption
<1>4. QED BY <1>1, <1>2, <1>3 DEF ZeroParams, ErasedParams, Params

LEMMA InitType == Init => TypeInv
<1> SUFFICES ASSUME Init PROVE TypeInv
  OBVIOUS
<1>1. params \in Params /\ flash \in Params
  BY ParamsType DEF Init, Params, ZeroParams
<1>2. /\ msg \in 0..MaxMsgs /\ powerLosses \in 0..MaxPowerLosses
      /\ watchdogs \in 0..MaxWatchdogs
  BY BoundsAssumption DEF Init
<1>3. /\ retCount \in 0..(RepeatCount + 1) /\ TriesLeft
  BY RepeatAssumption DEF Init, TriesLeft
<1>4. /\ modUp \in Counters /\ modDown \in Counters /\ accounted \in Counters
      /\ saved \in [up : Counters, down : Counters]
      /\ srvNext \in 0..(MaxCnt + 1)
  BY CounterAssumption DEF Init, Counters
<1>5. sent \in SUBSET (Counters \X Msgs) /\ heard \in SUBSET Msgs
  BY DEF Init
<1>6. pc \in Labels /\ back \in {"lora", "counters", "done"} /\ code \in Codes
  BY DEF Init, Labels, Codes, FatalCodes
<1>7. /\ needsCommit \in BOOLEAN /\ flashOk \in BOOLEAN
      /\ loraUp \in BOOLEAN /\ retVal \in BOOLEAN
  BY DEF Init
<1>8. QED BY <1>1, <1>2, <1>3, <1>4, <1>5, <1>6, <1>7 DEF TypeInv, TypeOK

\* initLora() leaves counters in the module, whatever it was asked to set.
LEMMA RestoreType ==
  ASSUME TypeInv, NEW p \in Params, NEW joined \in BOOLEAN, RestoreCounters(p, joined)
  PROVE  /\ modUp' \in Counters /\ modDown' \in Counters
         /\ saved' \in [up : Counters, down : Counters]
<1>1. p.up \in Counters /\ p.down \in Counters
  BY DEF Params
<1>2. 0 \in Counters
  BY CounterAssumption DEF Counters
<1>3. saved.up \in Counters /\ saved.down \in Counters
      /\ modUp \in Counters /\ modDown \in Counters
  BY DEF TypeInv, TypeOK
<1>4. modUp' \in Counters /\ modDown' \in Counters
  BY <1>1, <1>2, <1>3 DEF RestoreCounters
<1>5. saved' = saved \/ saved' = [up |-> modUp', down |-> modDown']
  BY DEF RestoreCounters
<1>6. QED BY <1>4, <1>5 DEF TypeInv, TypeOK

\* commit() goes on to the flash or returns.
LEMMA CommitType ==
  ASSUME TypeInv, NEW forced, NEW next \in {"lora", "counters", "done"},
         Commit(forced, next)
  PROVE  /\ pc' \in {"erase", next}
         /\ pc' = "erase" => back' = next
         /\ back' \in {"lora", "counters", "done"}
BY DEF Commit, TypeInv, TypeOK
LEMMA NextType == TypeInv /\ [Next]_vars => TypeInv'
<1> SUFFICES ASSUME TypeInv, [Next]_vars PROVE TypeInv'
  OBVIOUS
<1> USE DEF TypeInv, TypeOK, TriesLeft, memory, store, call, module, network, resets
<1>1. CASE PowerLoss
  <2>1. powerLosses' \in 0..MaxPowerLosses
    BY <1>1, BoundsAssumption DEF PowerLoss
  <2>2. modUp' \in Counters /\ modDown' \in Counters
    BY <1>1 DEF PowerLoss
  <2>3. params' \in Params /\ pc' \in Labels /\ pc' = "boot"
    BY <1>1, ParamsType DEF PowerLoss, ToBoot, Labels
  <2>4. QED BY <1>1, <2>1, <2>2, <2>3 DEF PowerLoss, ToBoot
<1>2. CASE WatchdogReset
  <2>1. watchdogs' \in 0..MaxWatchdogs
    BY <1>2, BoundsAssumption DEF WatchdogReset
  <2>2. params' \in Params /\ pc' \in Labels /\ pc' = "boot"
    BY <1>2, ParamsType DEF WatchdogReset, ToBoot, Labels
  <2>3. QED BY <1>2, <2>1, <2>2 DEF WatchdogReset, ToBoot
<1>3. CASE PrintBootUpMessage
  <2>1. /\ modUp' \in Counters /\ modDown' \in Counters
        /\ saved' \in [up : Counters, down : Counters]
    BY <1>3, RestoreType DEF PrintBootUpMessage
  <2>2. QED BY <1>3, <2>1 DEF PrintBootUpMessage, Labels
<1>4. CASE ReadParams
  <2>1. params' \in Params
    BY <1>4, ParamsType, ConfigsAssumption DEF ReadParams, Params
  <2>2. needsCommit' \in BOOLEAN
    BY <1>4 DEF ReadParams
  <2>3. pc' \in Labels /\ pc' = "menu"
    BY <1>4 DEF ReadParams, Labels
  <2>4. /\ modUp' \in Counters /\ modDown' \in Counters
        /\ saved' \in [up : Counters, down : Counters]
    <3>1. CASE UNCHANGED module
      BY <3>1
    <3>2. CASE RestoreCounters(params', FALSE)
      BY <2>1, <3>2, RestoreType
    <3>3. QED BY <1>4, <3>1, <3>2 DEF ReadParams
  <2>5. QED BY <1>4, <2>1, <2>2, <2>3, <2>4 DEF ReadParams
<1>5. CASE BootMenu
  <2>1. pc' \in {"erase", "lora"} /\ back' \in {"lora", "counters", "done"}
    BY <1>5, CommitType DEF BootMenu
  <2>2. QED BY <1>5, <2>1 DEF BootMenu, Labels
<1>6. CASE InitLora
  <2> DEFINE joined == OtaaEnabled /\ loraUp'
  <2>1. params.keys \in BOOLEAN
    BY DEF Params
  <2>2. loraUp' \in BOOLEAN /\ joined \in BOOLEAN
    BY <1>6, <2>1 DEF InitLora
  <2>3. RestoreCounters(params, joined)
    BY <1>6 DEF InitLora
  <2>4. /\ modUp' \in Counters /\ modDown' \in Counters
        /\ saved' \in [up : Counters, down : Counters]
    BY <2>2, <2>3, RestoreType
  <2>5. /\ srvNext' \in 0..(MaxCnt + 1) /\ accounted' \in Counters
    BY <1>6, CounterAssumption DEF InitLora, Counters
  <2>6. sent' \in SUBSET (Counters \X Msgs)
    BY <1>6 DEF InitLora
  <2>7. QED BY <1>6, <2>2, <2>4, <2>5, <2>6 DEF InitLora, Labels
<1>7. CASE EraseFlash
  BY <1>7, ParamsType DEF EraseFlash, Labels
<1>8. CASE WriteFlash
  <2>1. accounted' \in Counters
    BY <1>8 DEF WriteFlash, Params
  <2>2. pc' \in Labels /\ pc' \in {"lora", "counters", "done"}
    BY <1>8 DEF WriteFlash, Labels
  <2>3. QED BY <1>8, <2>1, <2>2 DEF WriteFlash
<1>9. CASE Begin
  <2>1. msg' \in 0..MaxMsgs /\ msg' \in Msgs
    BY <1>9, BoundsAssumption DEF Begin, Msgs
  <2>2. retCount' \in 0..(RepeatCount + 1) /\ retCount' <= RepeatCount
    BY <1>9, RepeatAssumption DEF Begin
  <2>3. pc' \in Labels /\ retVal' \in BOOLEAN
    BY <1>9 DEF Begin, Labels
  <2>4. QED BY <1>9, <2>1, <2>2, <2>3 DEF Begin
<1>10. CASE Refused
  BY <1>10 DEF Refused, Labels
<1>11. CASE OnAir
  <2>1. modUp' \in Counters /\ modUp + 1 \in 0..(MaxCnt + 1)
    BY <1>11, CounterAssumption DEF OnAir, Counters
  <2>2. modDown' \in Counters
    <3>1. modDown < MaxCnt => modDown + 1 \in Counters
      BY CounterAssumption DEF Counters
    <3>2. QED BY <1>11, <3>1 DEF OnAir
  <2>3. srvNext' \in 0..(MaxCnt + 1)
    <3>1. srvNext' = srvNext \/ srvNext' = modUp + 1
      BY <1>11 DEF OnAir
    <3>2. QED BY <2>1, <3>1
  <2>4. sent' \in SUBSET (Counters \X Msgs) /\ heard' \in SUBSET Msgs
    BY <1>11 DEF OnAir
  <2>5. code' \in Codes /\ pc' \in Labels
    BY <1>11 DEF OnAir, Codes, FatalCodes, Labels
  <2>6. QED BY <1>11, <2>1, <2>2, <2>3, <2>4, <2>5 DEF OnAir
<1>12. CASE Success
  <2>1. params' \in Params
    BY <1>12 DEF Success, Params
  <2>2. pc' \in {"erase", "counters"} /\ back' \in {"lora", "counters", "done"}
    BY <1>12, CommitType DEF Success
  <2>3. QED BY <1>12, <2>1, <2>2 DEF Success, Labels
<1>13. CASE ReadCounters
  <2>1. Readings \subseteq Counters \X Counters
    BY CounterAssumption DEF Readings, Counters
  <2>2. params' \in Params
    BY <1>13, <2>1 DEF ReadCounters, Params
  <2>3. pc' \in {"erase", "done"} /\ back' \in {"lora", "counters", "done"}
    BY <1>13, CommitType DEF ReadCounters
  <2>4. QED BY <1>13, <2>2, <2>3 DEF ReadCounters, Labels
<1>14. CASE Retry
  <2>1. retCount' \in 0..(RepeatCount + 1)
        /\ (pc' \in {"attempt", "result"} => retCount' <= RepeatCount)
    BY <1>14, RepeatAssumption DEF Retry
  <2>2. pc' \in Labels /\ retVal' \in BOOLEAN
    BY <1>14 DEF Retry, Labels
  <2>3. QED BY <1>14, <2>1, <2>2 DEF Retry
<1>15. CASE Return
  BY <1>15 DEF Return, Labels
<1>16. CASE PollGauge
  <2>1. params' \in Params
    BY <1>16 DEF PollGauge, Params
  <2>2. QED BY <1>16, <2>1 DEF PollGauge
<1>17. CASE UNCHANGED vars
  BY <1>17 DEF vars
<1>18. QED
  BY <1>1, <1>2, <1>3, <1>4, <1>5, <1>6, <1>7, <1>8, <1>9, <1>10, <1>11, <1>12,
     <1>13, <1>14, <1>15, <1>16, <1>17 DEF Next, Node

\* Every variable keeps its type: no counter leaves its width and no report is
\* tried once its repeats are used up.
THEOREM TypeCorrect == Spec => []TypeOK
<1>1. Spec => []TypeInv
  BY InitType, NextType, PTL DEF Spec
<1>2. TypeInv => TypeOK
  BY DEF TypeInv
<1>3. QED BY <1>1, <1>2, PTL
-----------------------------------------------------------------------------
(* Flash and RAM                                                           *)

\* Where RAM and flash agree, the charge offset apart; before the boot menu's commit
\* either they do or the commit is going to write.
HoldInv ==
  /\ pc \in {"lora", "idle", "attempt", "result", "done"} => flashOk /\ Stored
  /\ pc = "menu" => needsCommit \/ (flashOk /\ Stored)

LEMMA InitHold == Init => HoldInv
BY DEF Init, HoldInv, Stored

LEMMA NextHold == TypeInv /\ HoldInv /\ [Next]_vars => HoldInv'
<1> SUFFICES ASSUME TypeInv, HoldInv, [Next]_vars PROVE HoldInv'
  OBVIOUS
<1> USE DEF HoldInv, Stored, memory, store, call, module, network, resets
<1>1. CASE PowerLoss \/ WatchdogReset
  BY <1>1 DEF PowerLoss, WatchdogReset, ToBoot
<1>2. CASE PrintBootUpMessage \/ ReadParams
  BY <1>2 DEF PrintBootUpMessage, ReadParams
<1>3. CASE BootMenu
  BY <1>3 DEF BootMenu, Commit
<1>4. CASE InitLora
  BY <1>4 DEF InitLora
<1>5. CASE EraseFlash \/ WriteFlash
  BY <1>5 DEF EraseFlash, WriteFlash
<1>6. CASE Begin \/ Refused \/ OnAir \/ Retry \/ Return
  BY <1>6 DEF Begin, Refused, OnAir, Retry, Return
<1>7. CASE Success \/ ReadCounters
  <2>1. pc' \in {"erase", "counters"}
    BY <1>7 DEF Success, ReadCounters, Commit
  <2>2. QED BY <2>1
<1>8. CASE PollGauge
  <2>1. UNCHANGED <<params.up, params.down, params.cfg, params.keys>>
    BY <1>8 DEF PollGauge, TypeInv, TypeOK, Params
  <2>2. UNCHANGED <<pc, needsCommit, flash, flashOk>>
    BY <1>8 DEF PollGauge
  <2>3. QED BY <2>1, <2>2
<1>9. CASE UNCHANGED vars
  BY <1>9 DEF vars
<1>10. QED
  BY <1>1, <1>2, <1>3, <1>4, <1>5, <1>6, <1>7, <1>8, <1>9 DEF Next, Node

\* Between reports the counters, the settings and the keys are in flash as they are
\* in RAM, whatever resets came before: of the parameters only the charge offset,
\* which the gauge changes without a mark, waits for the next commit.
THEOREM FlashKept == Spec => []FlashHoldsRam
<1>1. Spec => [](TypeInv /\ HoldInv)
  BY InitType, NextType, InitHold, NextHold, PTL DEF Spec
<1>2. TypeInv /\ HoldInv => FlashHoldsRam
  BY DEF HoldInv, FlashHoldsRam
<1>3. QED BY <1>1, <1>2, PTL

\* As long as the power stays, the keys are in flash, except while it is being
\* rewritten, and in RAM once it has been read.
KeysInv ==
  powerLosses = 0 =>
    /\ pc # "write" => flash.keys
    /\ pc \in {"boot", "read"} => flashOk
    /\ pc \notin {"boot", "read"} => params.keys

LEMMA InitKeys == Init => KeysInv
BY DEF Init, KeysInv, ZeroParams

LEMMA NextKeys == TypeInv /\ HoldInv /\ KeysInv /\ [Next]_vars => KeysInv'
<1> SUFFICES ASSUME TypeInv, HoldInv, KeysInv, [Next]_vars PROVE KeysInv'
  OBVIOUS
<1> USE DEF KeysInv, memory, store, call, module, network, resets
<1>1. CASE PowerLoss
  <2>1. powerLosses' # 0
    BY <1>1, BoundsAssumption DEF PowerLoss, TypeInv, TypeOK
  <2>2. QED BY <2>1
<1>2. CASE WatchdogReset
  BY <1>2 DEF WatchdogReset, ToBoot, HoldInv
<1>3. CASE PrintBootUpMessage \/ ReadParams
  BY <1>3 DEF PrintBootUpMessage, ReadParams
<1>4. CASE BootMenu \/ InitLora
  <2>1. pc' \in {"erase", "lora", "idle"} /\ pc \in {"menu", "lora"}
    BY <1>4 DEF BootMenu, InitLora, Commit
  <2>2. UNCHANGED <<params, flash, flashOk, powerLosses>>
    BY <1>4 DEF BootMenu, InitLora
  <2>3. QED BY <2>1, <2>2
<1>5. CASE EraseFlash
  BY <1>5 DEF EraseFlash
<1>6. CASE WriteFlash
  <2>1. pc' \in {"lora", "counters", "done"} /\ pc = "write"
    BY <1>6 DEF WriteFlash, TypeInv, TypeOK
  <2>2. QED BY <1>6, <2>1 DEF WriteFlash
<1>7. CASE Begin \/ Refused \/ OnAir \/ Retry \/ Return
  BY <1>7 DEF Begin, Refused, OnAir, Retry, Return
<1>8. CASE Success \/ ReadCounters
  <2>1. pc' \in {"erase", "counters", "done"} /\ pc \in {"result", "counters"}
    BY <1>8 DEF Success, ReadCounters, Commit
  <2>2. params'.keys = params.keys
    BY <1>8 DEF Success, ReadCounters, TypeInv, TypeOK, Params
  <2>3. UNCHANGED <<flash, flashOk, powerLosses>>
    BY <1>8 DEF Success, ReadCounters
  <2>4. QED BY <2>1, <2>2, <2>3
<1>9. CASE PollGauge
  <2>1. params'.keys = params.keys
    BY <1>9 DEF PollGauge, TypeInv, TypeOK, Params
  <2>2. UNCHANGED <<pc, flash, flashOk, powerLosses>>
    BY <1>9 DEF PollGauge
  <2>3. QED BY <2>1, <2>2
<1>10. CASE UNCHANGED vars
  BY <1>10 DEF vars
<1>11. QED
  BY <1>1, <1>2, <1>3, <1>4, <1>5, <1>6, <1>7, <1>8, <1>9, <1>10 DEF Next, Node

\* The watchdog cannot hit a half-written flash, so it takes a power loss
\* between the erase and the write to make the node lose its keys.
THEOREM KeysKept == Spec => []OnlyPowerLossDeprovisions
<1>1. Spec => [](TypeInv /\ HoldInv /\ KeysInv)
  BY InitType, NextType, InitHold, NextHold, InitKeys, NextKeys, PTL DEF Spec
<1>2. TypeInv /\ HoldInv /\ KeysInv => OnlyPowerLossDeprovisions
  BY BoundsAssumption DEF TypeInv, TypeOK, HoldInv, KeysInv, OnlyPowerLossDeprovisions
<1>3. QED BY <1>1, <1>2, PTL
-----------------------------------------------------------------------------
(* What transmit() returns                                                 *)

\* The report at hand is out, and if it is to be acknowledged, has arrived.
Reported == (\E f \in sent : f[2] = msg) /\ (AckEnabled => msg \in heard)

\* From the module's success on, up to the return of true.
Succeeded ==
  \/ pc = "result" /\ code = "NoError"
  \/ pc = "counters"
  \/ pc \in {"erase", "write"} /\ back # "lora"
  \/ pc = "done" /\ retVal /\ loraUp

SentInv == Succeeded => Reported

LEMMA InitSent == Init => SentInv
BY DEF Init, SentInv, Succeeded

LEMMA NextSent == TypeInv /\ SentInv /\ [Next]_vars => SentInv'
<1> SUFFICES ASSUME TypeInv, SentInv, [Next]_vars PROVE SentInv'
  OBVIOUS
<1> USE DEF SentInv, Succeeded, memory, store, call, module, network, resets
<1>1. CASE PowerLoss \/ WatchdogReset
  BY <1>1 DEF PowerLoss, WatchdogReset, ToBoot
<1>2. CASE PrintBootUpMessage \/ ReadParams
  BY <1>2 DEF PrintBootUpMessage, ReadParams
<1>3. CASE BootMenu
  BY <1>3 DEF BootMenu, Commit
<1>4. CASE InitLora
  BY <1>4 DEF InitLora
<1>5. CASE EraseFlash \/ WriteFlash
  <2>1. Succeeded' => Succeeded
    BY <1>5 DEF EraseFlash, WriteFlash
  <2>2. UNCHANGED <<sent, heard, msg>>
    BY <1>5 DEF EraseFlash, WriteFlash
  <2>3. QED BY <2>1, <2>2 DEF Reported
<1>6. CASE Begin \/ Refused \/ Return \/ PollGauge
  BY <1>6 DEF Begin, Refused, Return, PollGauge
<1>7. CASE OnAir
  <2>1. <<modUp, msg>> \in sent' /\ msg' = msg
    BY <1>7 DEF OnAir
  <2>2. code' = "NoError" /\ AckEnabled => msg \in heard'
    BY <1>7 DEF OnAir
  <2>3. pc' = "result"
    BY <1>7 DEF OnAir
  <2>4. \E f \in sent' : f[2] = msg'
    BY <2>1
  <2>5. QED BY <2>1, <2>2, <2>3, <2>4 DEF Reported
<1>8. CASE Success \/ ReadCounters
  <2>1. Succeeded
    BY <1>8 DEF Success, ReadCounters
  <2>2. UNCHANGED <<sent, heard, msg>>
    BY <1>8 DEF Success, ReadCounters
  <2>3. QED BY <2>1, <2>2 DEF Reported
<1>9. CASE Retry
  <2>1. retCount' \in Nat /\ RepeatCount \in Nat
    BY <1>9, RepeatAssumption DEF Retry, TypeInv, TypeOK
  <2>2. retCount' > RepeatCount => ~(retCount' <= RepeatCount)
    BY <2>1
  <2>3. pc' = "attempt" \/ (pc' = "done" /\ ~retVal')
    BY <1>9, <2>2 DEF Retry
  <2>4. QED BY <2>3
<1>10. CASE UNCHANGED vars
  BY <1>10 DEF vars, Reported
<1>11. QED
  BY <1>1, <1>2, <1>3, <1>4, <1>5, <1>6, <1>7, <1>8, <1>9, <1>10 DEF Next, Node

\* When transmit() returns true with LoRa up, the report has been on the air,
\* and has arrived if acknowledgments are on.
THEOREM TrueIsSent == Spec => []TrueMeansSent
<1>1. Spec => [](TypeInv /\ SentInv)
  BY InitType, NextType, InitSent, NextSent, PTL DEF Spec
<1>2. TypeInv /\ SentInv => TrueMeansSent
  BY DEF SentInv, Succeeded, Reported, TrueMeansSent
<1>3. QED BY <1>1, <1>2, PTL
-----------------------------------------------------------------------------
(* Counters that have been recorded                                        *)

\* A report is in progress, or can begin: the module has been set up.
InService ==
  \/ pc \in {"idle", "attempt", "result", "counters", "done"}
  \/ pc \in {"erase", "write"} /\ back # "lora"

\* The recorded counters are below flash's, those below RAM's once it has been
\* read, and those below the module's once it has been set.  Erased flash reads
\* as the all-ones counter, which is above all.
UpInv ==
  /\ accounted <= flash.up
  /\ pc \notin {"boot", "read"} => accounted <= params.up
  /\ InService => params.up <= modUp

\* The types UpInv is about.
LEMMA UpTypes ==
  ASSUME TypeInv
  PROVE  /\ accounted \in Nat /\ modUp \in Nat /\ saved.up \in Nat
         /\ params.up \in Nat /\ flash.up \in Nat
         /\ accounted <= MaxCnt /\ params.up <= MaxCnt /\ MaxCnt \in Nat
BY CounterAssumption DEF TypeInv, TypeOK, Counters, Params

LEMMA InitUp == Init => UpInv
BY DEF Init, UpInv, InService, ZeroParams

LEMMA NextUp ==
  ASSUME ~SlowModule, TypeInv, UpInv, [Next]_vars
  PROVE  UpInv'
<1> USE DEF UpInv, InService, memory, store, call, module, network, resets
<1>1. CASE PowerLoss \/ WatchdogReset
  BY <1>1 DEF PowerLoss, WatchdogReset, ToBoot
<1>2. CASE PrintBootUpMessage
  BY <1>2 DEF PrintBootUpMessage
<1>3. CASE ReadParams
  <2>1. params'.up = flash.up
    BY <1>3 DEF ReadParams, TypeInv, TypeOK, Params
  <2>2. QED BY <1>3, <2>1 DEF ReadParams
<1>4. CASE BootMenu
  BY <1>4 DEF BootMenu, Commit
<1>5. CASE InitLora
  <2>1. modUp' = params.up
    BY <1>5 DEF InitLora, RestoreCounters, Answers
  <2>2. accounted' \in {0, accounted} /\ UNCHANGED <<params, flash>> /\ pc' = "idle" /\ pc = "lora"
    BY <1>5 DEF InitLora
  <2>3. QED BY <2>1, <2>2, UpTypes
<1>6. CASE EraseFlash
  <2>1. flash'.up = MaxCnt
    BY <1>6 DEF EraseFlash, ErasedParams
  <2>2. QED BY <1>6, <2>1, UpTypes DEF EraseFlash
<1>7. CASE WriteFlash
  <2>1. accounted' = params.up /\ flash' = params /\ params' = params /\ modUp' = modUp
    BY <1>7, UpTypes DEF WriteFlash
  <2>2. pc = "write" /\ pc' = back /\ back' = back
    BY <1>7 DEF WriteFlash
  <2>3. QED BY <2>1, <2>2, UpTypes
<1>8. CASE Begin \/ Refused \/ Retry \/ Return
  BY <1>8 DEF Begin, Refused, Retry, Return
<1>9. CASE OnAir
  <2>1. modUp' = modUp + 1 /\ UNCHANGED <<params, flash, accounted>>
        /\ pc = "attempt" /\ pc' = "result"
    BY <1>9 DEF OnAir
  <2>2. QED BY <2>1, UpTypes
<1>10. CASE Success
  <2>1. params'.up = params.up
    BY <1>10 DEF Success, TypeInv, TypeOK, Params
  <2>2. pc = "result" /\ UNCHANGED <<flash, accounted, modUp>>
    BY <1>10 DEF Success
  <2>3. QED BY <2>1, <2>2
<1>11. CASE ReadCounters
  <2>1. params'.up = modUp
    BY <1>11 DEF ReadCounters, Readings, TypeInv, TypeOK, Params
  <2>2. pc = "counters" /\ UNCHANGED <<flash, accounted, modUp>>
    BY <1>11 DEF ReadCounters
  <2>3. QED BY <2>1, <2>2, UpTypes
<1>12. CASE PollGauge
  <2>1. params'.up = params.up
    BY <1>12 DEF PollGauge, TypeInv, TypeOK, Params
  <2>2. UNCHANGED <<pc, back, flash, accounted, modUp>>
    BY <1>12 DEF PollGauge
  <2>3. QED BY <2>1, <2>2
<1>13. CASE UNCHANGED vars
  BY <1>13 DEF vars
<1>14. QED
  BY <1>1, <1>2, <1>3, <1>4, <1>5, <1>6, <1>7, <1>8, <1>9, <1>10, <1>11, <1>12, <1>13
     DEF Next, Node

\* While the module answers in time, no reset, however often and wherever it
\* hits, makes the node send under a counter a commit has recorded as used.
THEOREM NeverReused ==
  ASSUME ~SlowModule
  PROVE  Spec => RecordedNeverReused
<1>1. TypeInv /\ UpInv /\ [Next]_vars => UpInv'
  BY NextUp
<1>2. TypeInv /\ UpInv /\ [Next]_vars
        => [\A f \in sent' \ sent : f[1] >= accounted]_vars
  <2> SUFFICES ASSUME TypeInv, UpInv, [Next]_vars, NEW f \in sent' \ sent
               PROVE  f[1] >= accounted
    OBVIOUS
  <2> USE DEF memory, store, call, module, network, resets
  <2>1. CASE OnAir
    <3>1. f = <<modUp, msg>> /\ pc = "attempt"
      BY <2>1 DEF OnAir
    <3>2. accounted <= modUp
      BY <3>1, UpTypes DEF UpInv, InService
    <3>3. QED BY <3>1, <3>2, UpTypes
  <2>2. CASE ~OnAir
    <3>1. sent' \subseteq sent
      BY <2>2 DEF Next, Node, PowerLoss, WatchdogReset, ToBoot, PrintBootUpMessage,
                  ReadParams, BootMenu, InitLora, EraseFlash, WriteFlash, Begin, Refused,
                  Success, ReadCounters, Retry, Return, PollGauge, vars
    <3>2. QED BY <3>1
  <2>3. QED BY <2>1, <2>2
<1>3. QED
  BY InitType, NextType, InitUp, <1>1, <1>2, PTL DEF Spec, RecordedNeverReused
-----------------------------------------------------------------------------
(* The number of repeats                                                   *)

\* The frames of one report among those that have gone out.
FramesOf(frames, m) == {f \in frames : f[2] = m}

\* A try sends one frame at most, and a report not begun has none.
RepeatInv ==
  /\ \A m \in Nat : IsFiniteSet(FramesOf(sent, m))
  /\ \A m \in Nat : m > msg => FramesOf(sent, m) = {}
  /\ Cardinality(FramesOf(sent, msg)) <= RepeatCount + 1
  /\ pc = "attempt" => Cardinality(FramesOf(sent, msg)) <= retCount
  /\ pc = "result" => Cardinality(FramesOf(sent, msg)) <= retCount + 1

LEMMA InitRepeat == Init => RepeatInv
<1> SUFFICES ASSUME Init PROVE RepeatInv
  OBVIOUS
<1>1. \A m \in Nat : FramesOf(sent, m) = {}
  BY DEF Init, FramesOf
<1>2. msg = 0 /\ pc = "boot"
  BY DEF Init
<1>3. QED BY <1>1, <1>2, FS_EmptySet, RepeatAssumption DEF RepeatInv

LEMMA NextRepeat == TypeInv /\ RepeatInv /\ [Next]_vars => RepeatInv'
<1> SUFFICES ASSUME TypeInv, RepeatInv, [Next]_vars PROVE RepeatInv'
  OBVIOUS
<1> USE DEF RepeatInv, memory, store, call, module, network, resets
<1>t. /\ msg \in Nat /\ retCount \in Nat /\ RepeatCount \in Nat
      /\ Cardinality(FramesOf(sent, msg)) \in Nat
  BY BoundsAssumption, RepeatAssumption, FS_CardinalityType DEF TypeInv, TypeOK
<1>1. ASSUME sent' = sent, msg' = msg, pc' \notin {"attempt", "result"}
      PROVE  RepeatInv'
  BY <1>1
<1>2. CASE \/ PowerLoss \/ WatchdogReset \/ PrintBootUpMessage \/ ReadParams \/ EraseFlash
           \/ Return \/ PollGauge
  BY <1>1, <1>2 DEF PowerLoss, WatchdogReset, ToBoot, PrintBootUpMessage, ReadParams,
                    EraseFlash, Return, PollGauge
<1>3. CASE WriteFlash \/ BootMenu \/ Success \/ ReadCounters
  <2>1. pc' \in {"lora", "erase", "counters", "done"}
    BY <1>3 DEF WriteFlash, BootMenu, Success, ReadCounters, Commit, TypeInv, TypeOK
  <2>2. UNCHANGED <<sent, msg>>
    BY <1>3 DEF WriteFlash, BootMenu, Success, ReadCounters
  <2>3. QED BY <1>1, <2>1, <2>2
<1>4. CASE InitLora
  <2>1. pc' = "idle" /\ msg' = msg
    BY <1>4 DEF InitLora
  <2>2. CASE sent' = sent
    BY <1>1, <2>1, <2>2
  <2>3. CASE sent' = {}
    <3>1. \A m \in Nat : FramesOf(sent', m) = {}
      BY <2>3 DEF FramesOf
    <3>2. Cardinality(FramesOf(sent', msg')) = 0
      <4>1. FramesOf(sent', msg') = {}
        BY <1>t, <2>1, <3>1
      <4>2. QED BY <4>1, FS_EmptySet
    <3>3. \A m \in Nat : IsFiniteSet(FramesOf(sent', m))
      BY <3>1, FS_EmptySet
    <3>4. QED BY <1>t, <2>1, <3>1, <3>2, <3>3
  <2>4. QED BY <1>4, <2>2, <2>3 DEF InitLora
<1>5. CASE Begin
  <2>1. msg' = msg + 1 /\ retCount' = 0 /\ sent' = sent /\ pc' # "result"
    BY <1>5 DEF Begin
  <2>2. \A m \in Nat : FramesOf(sent', m) = FramesOf(sent, m)
    BY <2>1
  <2>3. FramesOf(sent', msg + 1) = {}
    BY <1>t, <2>2
  <2>4. FramesOf(sent', msg') = {}
    BY <2>1, <2>3
  <2>5. \A m \in Nat : m > msg' => m > msg
    BY <1>t, <2>1
  <2>6. QED BY <1>t, <2>1, <2>2, <2>4, <2>5, FS_EmptySet
<1>6. CASE Refused
  <2>1. UNCHANGED <<sent, msg, retCount>> /\ pc = "attempt" /\ pc' = "result"
    BY <1>6 DEF Refused
  <2>2. QED BY <1>t, <2>1
<1>7. CASE OnAir
  <2>1. /\ sent' = sent \cup {<<modUp, msg>>} /\ UNCHANGED <<msg, retCount>>
        /\ pc = "attempt" /\ pc' = "result"
    BY <1>7 DEF OnAir
  <2>2. \A m \in Nat : m # msg => FramesOf(sent', m) = FramesOf(sent, m)
    BY <2>1 DEF FramesOf
  <2>3. FramesOf(sent', msg) = FramesOf(sent, msg) \cup {<<modUp, msg>>}
    BY <2>1 DEF FramesOf
  <2>4. IsFiniteSet(FramesOf(sent', msg))
        /\ Cardinality(FramesOf(sent', msg)) <= Cardinality(FramesOf(sent, msg)) + 1
    <3>1. IsFiniteSet(FramesOf(sent, msg))
      BY <1>t
    <3>2. /\ IsFiniteSet(FramesOf(sent, msg) \cup {<<modUp, msg>>})
          /\ Cardinality(FramesOf(sent, msg) \cup {<<modUp, msg>>})
               \in {Cardinality(FramesOf(sent, msg)), Cardinality(FramesOf(sent, msg)) + 1}
      BY <3>1, FS_AddElement
    <3>3. QED BY <1>t, <2>3, <3>2
  <2>5. retCount <= RepeatCount
    BY <2>1 DEF TypeInv, TriesLeft
  <2>6. \A m \in Nat : IsFiniteSet(FramesOf(sent', m))
    BY <2>2, <2>4
  <2>7. \A m \in Nat : m > msg' => FramesOf(sent', m) = {}
    BY <1>t, <2>1, <2>2
  <2>8. Cardinality(FramesOf(sent', msg)) \in Nat
    BY <2>4, FS_CardinalityType
  <2>9. Cardinality(FramesOf(sent', msg')) <= retCount' + 1
         /\ Cardinality(FramesOf(sent', msg')) <= RepeatCount + 1
    BY <1>t, <2>1, <2>4, <2>5, <2>8
  <2>10. QED BY <2>1, <2>6, <2>7, <2>9
<1>8. CASE Retry
  <2>1. UNCHANGED <<sent, msg>> /\ retCount' = retCount + 1 /\ pc = "result" /\ pc' # "result"
    BY <1>8 DEF Retry
  <2>2. QED BY <1>t, <2>1
<1>9. CASE UNCHANGED vars
  BY <1>9 DEF vars
<1>10. QED
  BY <1>2, <1>3, <1>4, <1>5, <1>6, <1>7, <1>8, <1>9 DEF Next, Node

\* "Repeats the transmissions according to params.getRepeatCount()".
RepeatsBounded == Cardinality(FramesOf(sent, msg)) <= RepeatCount + 1

\* transmit(): no report goes out more often than once and its repeats, whatever
\* the module answers.  (ReportDelivery says the same of each call.)
THEOREM RepeatsKept == Spec => []RepeatsBounded
<1>1. Spec => [](TypeInv /\ RepeatInv)
  BY InitType, NextType, InitRepeat, NextRepeat, PTL DEF Spec
<1>2. TypeInv /\ RepeatInv => RepeatsBounded
  BY DEF RepeatInv, RepeatsBounded
<1>3. QED BY <1>1, <1>2, PTL
-----------------------------------------------------------------------------
(* transmit() implements ReportDelivery                                    *)

\* The report at hand is the latest, and the next counter is above those it
\* has gone out under.
FreshInv ==
  /\ \A m \in heard : m <= msg
  /\ pc \in {"attempt", "result"} => \A f \in FramesOf(sent, msg) : f[1] < modUp

DeliveryInv == TypeInv /\ SentInv /\ RepeatInv /\ FreshInv

LEMMA InitFresh == Init => FreshInv
BY DEF Init, FreshInv

LEMMA NextFresh ==
  ASSUME TypeInv, RepeatInv, FreshInv, [Next]_vars
  PROVE  FreshInv'
<1> USE DEF FreshInv, memory, store, call, module, network, resets
<1>t. msg \in Nat /\ modUp \in Nat /\ heard \subseteq Nat
  BY BoundsAssumption DEF TypeInv, TypeOK, Msgs, Counters
<1>1. ASSUME heard' = heard, msg' = msg, pc' \notin {"attempt", "result"}
      PROVE  FreshInv'
  BY <1>1
<1>2. CASE \/ PowerLoss \/ WatchdogReset \/ PrintBootUpMessage \/ ReadParams \/ EraseFlash
           \/ Return \/ InitLora \/ PollGauge
  BY <1>1, <1>2 DEF PowerLoss, WatchdogReset, ToBoot, PrintBootUpMessage, ReadParams,
                    EraseFlash, Return, InitLora, PollGauge
<1>3. CASE WriteFlash \/ BootMenu \/ Success \/ ReadCounters
  <2>1. pc' \in {"lora", "erase", "counters", "done"}
    BY <1>3 DEF WriteFlash, BootMenu, Success, ReadCounters, Commit, TypeInv, TypeOK
  <2>2. UNCHANGED <<heard, msg>>
    BY <1>3 DEF WriteFlash, BootMenu, Success, ReadCounters
  <2>3. QED BY <1>1, <2>1, <2>2
<1>4. CASE Begin
  <2>1. msg' = msg + 1 /\ UNCHANGED <<sent, heard, modUp>>
    BY <1>4 DEF Begin
  <2>2. msg + 1 \in Nat /\ msg + 1 > msg
    BY <1>t
  <2>3. FramesOf(sent, msg + 1) = {}
    BY <2>2 DEF RepeatInv
  <2>4. FramesOf(sent', msg') = {}
    BY <2>1, <2>3
  <2>5. \A m \in heard' : m <= msg'
    BY <1>t, <2>1
  <2>6. QED BY <2>4, <2>5
<1>5. CASE Refused \/ Retry
  BY <1>5 DEF Refused, Retry
<1>6. CASE OnAir
  <2>1. /\ sent' = sent \cup {<<modUp, msg>>} /\ msg' = msg /\ modUp' = modUp + 1
        /\ pc = "attempt"
    BY <1>6 DEF OnAir
  <2>2. \A m \in heard' : m \in heard \/ m = msg
    BY <1>6 DEF OnAir
  <2>3. ASSUME NEW m \in heard' PROVE m <= msg'
    <3>1. CASE m \in heard
      BY <2>1, <3>1
    <3>2. CASE m = msg
      BY <1>t, <2>1, <3>2
    <3>3. QED BY <2>2, <3>1, <3>2
  <2>4. ASSUME NEW f \in FramesOf(sent', msg') PROVE f[1] < modUp'
    <3>1. f \in FramesOf(sent, msg) \/ f = <<modUp, msg>>
      BY <2>1 DEF FramesOf
    <3>2. CASE f = <<modUp, msg>>
      BY <1>t, <2>1, <3>2
    <3>3. CASE f \in FramesOf(sent, msg)
      <4>1. f \in Counters \X Msgs /\ f[1] < modUp
        BY <2>1, <3>3 DEF FramesOf, TypeInv, TypeOK
      <4>2. f[1] \in Nat
        BY <4>1 DEF Counters
      <4>3. QED BY <1>t, <2>1, <4>1, <4>2
    <3>4. QED BY <3>1, <3>2, <3>3
  <2>5. QED BY <2>3, <2>4
<1>7. CASE UNCHANGED vars
  BY <1>7 DEF vars
<1>8. QED
  BY <1>2, <1>3, <1>4, <1>5, <1>6, <1>7 DEF Next, Node

LEMMA DeliveryInit == Init => Delivery!Init
<1> SUFFICES ASSUME Init PROVE Delivery!Init
  OBVIOUS
<1>1. State = "down" /\ loraUp = FALSE
  BY DEF Init, State
<1>2. params.cfg \in Configs
  BY ParamsType DEF Init, ZeroParams
<1>3. QED BY <1>1, <1>2 DEF Delivery!Init, Delivery!NoReport, CountersUsed, AtHand

\* Without a report at hand none of its fields is seen.
LEMMA NothingAtHand ==
  ASSUME State \notin {"sending", "decided"}
  PROVE  CountersUsed = {} /\ (AtHand /\ msg \in heard) = FALSE
         /\ (State = "decided" /\ retVal) = FALSE
BY DEF CountersUsed, AtHand

LEMMA DeliveryReset ==
  ASSUME State' = "down", loraUp' = FALSE, params'.cfg \in Configs
  PROVE  Delivery!Reset
<1>1. /\ CountersUsed' = {} /\ (AtHand /\ msg \in heard)' = FALSE
      /\ (State = "decided" /\ retVal)' = FALSE
  BY DEF CountersUsed, AtHand
<1>2. QED BY <1>1 DEF Delivery!Reset, Delivery!NoReport

\* Within a call, or while the node is set up, the parameters' settings apart.
LEMMA DeliverySame ==
  ASSUME UNCHANGED <<State, loraUp, msg, sent, heard>>, State = "decided" => retVal' = retVal
  PROVE  /\ CountersUsed' = CountersUsed
         /\ (AtHand /\ msg \in heard)' = (AtHand /\ msg \in heard)
         /\ (State = "decided" /\ retVal)' = (State = "decided" /\ retVal)
<1>1. AtHand' = AtHand
  BY DEF AtHand
<1>2. {f[1] : f \in {g \in sent : g[2] = msg}}' = {f[1] : f \in {g \in sent : g[2] = msg}}
  OBVIOUS
<1>3. CountersUsed' = CountersUsed
  BY <1>1, <1>2 DEF CountersUsed
<1>4. QED BY <1>1, <1>3

LEMMA DeliveryStutter ==
  ASSUME UNCHANGED <<State, loraUp, msg, sent, heard>>, State = "decided" => retVal' = retVal,
         params'.cfg = params.cfg
  PROVE  UNCHANGED Delivery!vars
<1>1. /\ CountersUsed' = CountersUsed
      /\ (AtHand /\ msg \in heard)' = (AtHand /\ msg \in heard)
      /\ (State = "decided" /\ retVal)' = (State = "decided" /\ retVal)
  BY DeliverySame
<1>2. QED BY <1>1 DEF Delivery!vars

LEMMA DeliverySetUp ==
  ASSUME State = "down", UNCHANGED <<State, loraUp, msg, sent, heard>>, params'.cfg \in Configs
  PROVE  Delivery!SetUp
<1>1. /\ CountersUsed' = CountersUsed
      /\ (AtHand /\ msg \in heard)' = (AtHand /\ msg \in heard)
      /\ (State = "decided" /\ retVal)' = (State = "decided" /\ retVal)
  BY DeliverySame
<1>2. QED BY <1>1 DEF Delivery!SetUp, Delivery!report

\* A frame goes out under a counter of its own, and no more often than it may.
LEMMA DeliverySend ==
  ASSUME DeliveryInv, OnAir
  PROVE  Delivery!Send(modUp) /\ modUp \in Counters
<1>1. /\ pc = "attempt" /\ pc' = "result" /\ UNCHANGED <<params, loraUp, msg>>
      /\ sent' = sent \cup {<<modUp, msg>>}
  BY DEF OnAir, memory
<1>2. State = "sending" /\ State' = "sending" /\ AtHand = TRUE /\ AtHand' = TRUE
  BY <1>1 DEF State, AtHand
<1>3. CountersUsed = {f[1] : f \in FramesOf(sent, msg)}
  BY <1>2 DEF CountersUsed, FramesOf
<1>4. CountersUsed' = {f[1] : f \in FramesOf(sent', msg)}
  BY <1>1, <1>2 DEF CountersUsed, FramesOf
<1>5. FramesOf(sent', msg) = FramesOf(sent, msg) \cup {<<modUp, msg>>}
  BY <1>1 DEF FramesOf
<1>6. CountersUsed' = CountersUsed \cup {modUp}
  <2>1. <<modUp, msg>>[1] = modUp
    OBVIOUS
  <2>2. \A f \in FramesOf(sent', msg) : f \in FramesOf(sent, msg) \/ f[1] = modUp
    BY <1>5, <2>1
  <2>3. CountersUsed' \subseteq CountersUsed \cup {modUp}
    BY <1>3, <1>4, <2>2
  <2>4. CountersUsed \subseteq CountersUsed'
    BY <1>3, <1>4, <1>5
  <2>5. modUp \in CountersUsed'
    BY <1>4, <1>5, <2>1
  <2>6. QED BY <2>3, <2>4, <2>5
<1>7. \A c \in CountersUsed : modUp > c
  <2> SUFFICES ASSUME NEW f \in FramesOf(sent, msg) PROVE modUp > f[1]
    BY <1>3
  <2>1. f[1] < modUp
    BY <1>1 DEF DeliveryInv, FreshInv
  <2>2. f \in Counters \X Msgs
    BY DEF FramesOf, DeliveryInv, TypeInv, TypeOK
  <2>3. f[1] \in Nat /\ modUp \in Nat
    BY <2>2 DEF DeliveryInv, TypeInv, TypeOK, Counters
  <2>4. QED BY <2>1, <2>3
<1>8. Cardinality(CountersUsed) <= RepeatCount
  <2>1. msg \in Nat /\ IsFiniteSet(FramesOf(sent, msg))
    BY BoundsAssumption DEF DeliveryInv, TypeInv, TypeOK, RepeatInv
  <2>2. Cardinality(CountersUsed) <= Cardinality(FramesOf(sent, msg)) /\ IsFiniteSet(CountersUsed)
    <3> DEFINE counterOf == [f \in FramesOf(sent, msg) |-> f[1]]
    <3>1. counterOf \in Surjection(FramesOf(sent, msg), CountersUsed)
      BY <1>3 DEF Surjection
    <3>2. QED BY <2>1, <3>1, FS_Surjection
  <2>3. Cardinality(FramesOf(sent, msg)) <= retCount /\ retCount <= RepeatCount
    BY <1>1 DEF DeliveryInv, RepeatInv, TypeInv, TriesLeft
  <2>4. /\ Cardinality(CountersUsed) \in Nat /\ Cardinality(FramesOf(sent, msg)) \in Nat
        /\ retCount \in Nat /\ RepeatCount \in Nat
    BY <2>1, <2>2, FS_CardinalityType, RepeatAssumption DEF DeliveryInv, TypeInv, TypeOK
  <2>5. QED BY <2>2, <2>3, <2>4
<1>9. (AtHand /\ msg \in heard)' \in {(AtHand /\ msg \in heard), TRUE}
  <2>1. heard' = heard \/ heard' = heard \cup {msg}
    BY DEF OnAir
  <2>2. QED BY <1>1, <1>2, <2>1
<1>10. (State = "decided" /\ retVal)' = (State = "decided" /\ retVal)
  BY <1>2
<1>11. modUp \in Counters
  BY DEF DeliveryInv, TypeInv, TypeOK
<1>12. UNCHANGED <<State, loraUp, params.cfg>>
  BY <1>1, <1>2
<1>13. Delivery!Send(modUp)
  <2>1. /\ State = "sending"
        /\ Cardinality(CountersUsed) <= RepeatCount
        /\ \A c \in CountersUsed : modUp > c
        /\ CountersUsed' = CountersUsed \cup {modUp}
    BY <1>2, <1>6, <1>7, <1>8
  <2>2. Delivery!Cardinality(CountersUsed) = Cardinality(CountersUsed)
    BY DEF Cardinality, Delivery!Cardinality
  <2>3. QED BY <2>1, <2>2, <1>9, <1>10, <1>12 DEF Delivery!Send
<1>14. QED BY <1>11, <1>13

\* A success is decided when the answer is in, a failure when no try is left.
LEMMA DeliveryDecide ==
  ASSUME DeliveryInv, State = "sending", State' = "decided",
         UNCHANGED <<loraUp, msg, sent, heard>>,
         retVal' \in BOOLEAN, retVal' => Reported,
         params'.cfg = params.cfg \/ (msg \in heard /\ params'.cfg \in Configs)
  PROVE  Delivery!Decide(retVal')
<1>1. AtHand = TRUE /\ AtHand' = TRUE
  BY DEF AtHand
<1>2. CountersUsed = {f[1] : f \in {g \in sent : g[2] = msg}}
  BY <1>1 DEF CountersUsed
<1>3. CountersUsed' = CountersUsed
  BY <1>1, <1>2 DEF CountersUsed
<1>4. Reported => CountersUsed # {} /\ (AckEnabled => msg \in heard)
  BY <1>2 DEF Reported
<1>5. (AtHand /\ msg \in heard)' = (AtHand /\ msg \in heard)
  BY <1>1
<1>6. (State = "decided" /\ retVal)' = retVal'
  OBVIOUS
<1>7. retVal' => CountersUsed # {} /\ (AckEnabled => (AtHand /\ msg \in heard))
  BY <1>1, <1>4
<1>8. params'.cfg \in {params.cfg} \cup (IF AtHand /\ msg \in heard THEN Configs ELSE {})
  BY <1>1
<1>9. QED
  BY <1>3, <1>5, <1>6, <1>7, <1>8 DEF Delivery!Decide

LEMMA DeliveryStep ==
  ASSUME DeliveryInv, TypeInv', [Next]_vars
  PROVE  [Delivery!Next]_(Delivery!vars)
<1> USE DEF memory, store, call, module, network, resets
<1>t. params'.cfg \in Configs /\ loraUp' \in BOOLEAN /\ retVal' \in BOOLEAN
  BY DEF TypeInv, TypeOK, Params
<1>1. CASE PowerLoss \/ WatchdogReset
  <2>1. State' = "down" /\ loraUp' = FALSE
    BY <1>1 DEF PowerLoss, WatchdogReset, ToBoot, State
  <2>2. Delivery!Reset
    BY <1>t, <2>1, DeliveryReset
  <2>3. QED BY <2>2 DEF Delivery!Next
<1>2. CASE PrintBootUpMessage \/ ReadParams \/ BootMenu
  <2>1. State = "down" /\ State' = "down"
    BY <1>2 DEF PrintBootUpMessage, ReadParams, BootMenu, Commit, State
  <2>2. UNCHANGED <<loraUp, msg, sent, heard>>
    BY <1>2 DEF PrintBootUpMessage, ReadParams, BootMenu
  <2>3. Delivery!SetUp
    BY <1>t, <2>1, <2>2, DeliverySetUp
  <2>4. QED BY <2>3 DEF Delivery!Next
<1>3. CASE EraseFlash \/ WriteFlash
  <2>1. UNCHANGED <<back, params, loraUp, msg, sent, heard, retVal>>
    BY <1>3 DEF EraseFlash, WriteFlash
  <2>2. back \in {"lora", "counters", "done"}
    BY DEF DeliveryInv, TypeInv, TypeOK
  <2>3. State' = State
    BY <1>3, <2>1, <2>2 DEF EraseFlash, WriteFlash, State
  <2>4. QED BY <2>1, <2>3, DeliveryStutter
<1>4. CASE InitLora
  <2>1. State = "down" /\ State' = "ready" /\ UNCHANGED params
    BY <1>4 DEF InitLora, State
  <2>2. /\ CountersUsed = {} /\ (AtHand /\ msg \in heard) = FALSE
        /\ (State = "decided" /\ retVal) = FALSE
    BY <2>1, NothingAtHand
  <2>3. /\ CountersUsed' = {} /\ (AtHand /\ msg \in heard)' = FALSE
        /\ (State = "decided" /\ retVal)' = FALSE
    BY <2>1 DEF CountersUsed, AtHand
  <2>4. Delivery!Start
    BY <1>t, <2>1, <2>2, <2>3 DEF Delivery!Start, Delivery!report
  <2>5. QED BY <2>4 DEF Delivery!Next
<1>5. CASE Begin
  <2>1. /\ State = "ready" /\ State' = (IF loraUp THEN "sending" ELSE "decided")
        /\ UNCHANGED <<params, loraUp, sent, heard>> /\ retVal' = TRUE /\ msg' = msg + 1
    BY <1>5 DEF Begin, State
  <2>2. /\ CountersUsed = {} /\ (AtHand /\ msg \in heard) = FALSE
    BY <2>1, NothingAtHand
  <2>3. msg \in Nat /\ heard \subseteq Nat
    BY BoundsAssumption DEF DeliveryInv, TypeInv, TypeOK, Msgs
  <2>4. FramesOf(sent, msg + 1) = {}
    BY <2>3 DEF DeliveryInv, RepeatInv
  <2>5. CountersUsed' = {}
    BY <2>1, <2>4 DEF CountersUsed, FramesOf
  <2>6. msg' \notin heard'
    BY <2>1, <2>3 DEF DeliveryInv, FreshInv
  <2>7. (AtHand /\ msg \in heard)' = FALSE
    BY <2>6
  <2>8. (State = "decided" /\ retVal)' = ~loraUp
    BY <2>1 DEF DeliveryInv, TypeInv, TypeOK
  <2>9. Delivery!Begin
    BY <2>1, <2>2, <2>5, <2>7, <2>8 DEF Delivery!Begin
  <2>10. QED BY <2>9 DEF Delivery!Next
<1>6. CASE Refused
  <2>1. /\ State = "sending" /\ State' = "sending"
        /\ UNCHANGED <<params, loraUp, msg, sent, heard>>
    BY <1>6 DEF Refused, State
  <2>2. QED BY <2>1, DeliveryStutter
<1>7. CASE OnAir
  BY <1>7, DeliverySend DEF Delivery!Next
<1>8. CASE Success
  <2>1. State = "sending" /\ State' = "decided"
    BY <1>8 DEF Success, Commit, State
  <2>2. UNCHANGED <<loraUp, msg, sent, heard, retVal>>
    BY <1>8 DEF Success
  <2>3. Reported
    BY <1>8 DEF Success, DeliveryInv, SentInv, Succeeded
  <2>4. params'.cfg = params.cfg \/ msg \in heard
    BY <1>8 DEF Success
  <2>5. Delivery!Decide(retVal')
    BY <1>t, <2>1, <2>2, <2>3, <2>4, DeliveryDecide
  <2>6. QED BY <1>t, <2>5 DEF Delivery!Next
<1>9. CASE ReadCounters
  <2>1. State = "decided" /\ State' = "decided"
    BY <1>9 DEF ReadCounters, Commit, State
  <2>2. UNCHANGED <<loraUp, msg, sent, heard, retVal>> /\ params'.cfg = params.cfg
    BY <1>9 DEF ReadCounters, DeliveryInv, TypeInv, TypeOK, Params
  <2>3. QED BY <2>1, <2>2, DeliveryStutter
<1>10. CASE Retry
  <2>1. State = "sending" /\ UNCHANGED <<params, loraUp, msg, sent, heard>>
    BY <1>10 DEF Retry, State
  <2>2. CASE pc' = "attempt"
    <3>1. State' = "sending"
      BY <2>2 DEF State
    <3>2. QED BY <2>1, <3>1, DeliveryStutter
  <2>3. CASE pc' = "done"
    <3>1. State' = "decided"
      BY <2>3 DEF State
    <3>2. retCount' \in Nat /\ RepeatCount \in Nat /\ retCount' > RepeatCount
      BY <1>10, <2>3, RepeatAssumption DEF Retry, DeliveryInv, TypeInv, TypeOK
    <3>3. ~(retCount' <= RepeatCount)
      BY <3>2
    <3>4. retVal' = (retVal /\ code \notin FatalCodes /\ retCount' <= RepeatCount)
      BY <1>10 DEF Retry
    <3>5. retVal' = FALSE
      BY <3>3, <3>4, Zenon
    <3>6. Delivery!Decide(retVal')
      BY <1>t, <2>1, <3>1, <3>5, DeliveryDecide
    <3>7. QED BY <1>t, <3>6 DEF Delivery!Next
  <2>4. QED BY <1>10, <2>2, <2>3 DEF Retry
<1>11. CASE Return
  <2>1. State = "decided" /\ State' = "ready" /\ UNCHANGED <<params, loraUp>>
    BY <1>11 DEF Return, State
  <2>2. /\ CountersUsed' = {} /\ (AtHand /\ msg \in heard)' = FALSE
        /\ (State = "decided" /\ retVal)' = FALSE
    BY <2>1 DEF CountersUsed, AtHand
  <2>3. Delivery!Return
    BY <2>1, <2>2 DEF Delivery!Return, Delivery!NoReport
  <2>4. QED BY <2>3 DEF Delivery!Next
<1>12. CASE PollGauge
  <2>1. UNCHANGED <<pc, back, loraUp, msg, sent, heard, retVal>>
    BY <1>12 DEF PollGauge
  <2>2. params'.cfg = params.cfg
    BY <1>12 DEF PollGauge, DeliveryInv, TypeInv, TypeOK, Params
  <2>3. State' = State
    BY <2>1 DEF State
  <2>4. QED BY <2>1, <2>2, <2>3, DeliveryStutter
<1>13. CASE UNCHANGED vars
  <2>1. UNCHANGED <<pc, back, params, loraUp, msg, sent, heard, retVal>>
    BY <1>13 DEF vars
  <2>2. State' = State
    BY <2>1 DEF State
  <2>3. QED BY <2>1, <2>2, DeliveryStutter
<1>14. QED
  BY <1>1, <1>2, <1>3, <1>4, <1>5, <1>6, <1>7, <1>8, <1>9, <1>10, <1>11, <1>12, <1>13
     DEF Next, Node

\* transmit() does with each report what the loop, the timer and the GPS report
\* rely on, for any number of repeats, resets and answers of the module.
THEOREM DeliveryKept == Spec => ReportsDelivered
<1>1. TypeInv /\ SentInv /\ RepeatInv /\ FreshInv /\ TypeInv' /\ [Next]_vars
        => [Delivery!Next]_(Delivery!vars)
  BY DeliveryStep DEF DeliveryInv
<1>2. TypeInv /\ RepeatInv /\ FreshInv /\ [Next]_vars => FreshInv'
  BY NextFresh
<1>3. QED
  BY InitType, NextType, InitSent, NextSent, InitRepeat, NextRepeat, InitFresh,
     DeliveryInit, <1>1, <1>2, PTL DEF Spec, ReportsDelivered, Delivery!Spec
=============================================================================
