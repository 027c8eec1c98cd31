------------------------------- MODULE Uplink -------------------------------
(***************************************************************************)
(* One report's way out of the SodaqOneDevice node: transmit() with its    *)
(* retries, the LoRaWAN frame counters it reads back from the radio module *)
(* and commits to flash, and the boot sequence that restores them.         *)
(*                                                                         *)
(* A power loss can hit between any two steps; the watchdog bites in the   *)
(* delays of transmit() that do not reset it.  RAM is lost, flash and the  *)
(* module's EEPROM stay.  Flash is erased before it is written, so a power *)
(* loss in between leaves all ones.                                        *)
(*                                                                         *)
(* The radio module and the network are external: they are modelled from   *)
(* the answers the driver distinguishes.                                   *)
(***************************************************************************)
EXTENDS Naturals, FiniteSets

CONSTANTS
  MaxCnt,          \* the all-ones counter, 2^32-1: what an error value of -1 is
                   \* stored as, and what erased flash reads as
  RepeatCount,     \* params.getRepeatCount()
  AckEnabled,      \* params.getIsAckEnabled()
  OtaaEnabled,     \* params.getIsOtaaEnabled()
  SlowModule,      \* the module may miss the time limit of a query or a setting
                   \* (the answers to a transmission itself stay in step here)
  Configs,         \* what an over-the-air configuration may choose
  Offsets,         \* charge offsets of the gas gauge, 0 for none
  MaxMsgs,         \* bound on the reports
  MaxPowerLosses,  \* bound on the power losses
  MaxWatchdogs     \* bound on the watchdog resets

ASSUME CounterAssumption == MaxCnt \in Nat \ {0}
ASSUME RepeatAssumption == RepeatCount \in Nat
ASSUME ModeAssumption ==
  AckEnabled \in BOOLEAN /\ OtaaEnabled \in BOOLEAN /\ SlowModule \in BOOLEAN
ASSUME ConfigsAssumption == Configs # {} /\ 0 \in Offsets
ASSUME BoundsAssumption ==
  MaxMsgs \in Nat /\ MaxPowerLosses \in Nat /\ MaxWatchdogs \in Nat

Counters == 0..MaxCnt
Msgs == 1..MaxMsgs

\* The parameters kept in RAM and in flash: the two frame counters, the
\* over-the-air settings, whether the keys have been entered, and the charge of
\* the batteries before this one.
Params ==
  [up : Counters, down : Counters, cfg : Configs, keys : BOOLEAN, offset : Offsets]
DefaultConfig == CHOOSE c \in Configs : TRUE

\* What zero-initialised RAM and erased flash hold.  What reset() will overwrite
\* of the latter has its value already.
ZeroParams == [up |-> 0, down |-> 0, cfg |-> DefaultConfig, keys |-> FALSE, offset |-> 0]
ErasedParams == [ZeroParams EXCEPT !.up = MaxCnt, !.down = MaxCnt]

\* MacTransmitErrorCodes
FatalCodes == {"InternalError", "NetworkFatalError", "NotConnected"}
Codes == FatalCodes \cup
  {"NoError", "NoResponse", "Timeout", "PayloadSizeError", "Busy", "NoAcknowledgment"}

VARIABLES
  pc,           \* where setup() or transmit() is
  params,       \* the RAM copy of the parameters
  needsCommit,
  flash,        \* the parameters in flash
  flashOk,      \* their header and checksum are right
  back,         \* where commit() returns to
  loraUp,       \* isLoraInitialized
  msg,          \* the report in sendBuffer
  retCount,     \* retries of this report, numTxRetries afterwards
  retVal,       \* what transmit() is going to return
  code,         \* sendReturn
  modUp,        \* the module's counter of the next uplink
  modDown,      \* the module's downlink counter
  saved,        \* the counters in the module's EEPROM
  srvNext,      \* the lowest counter the network still accepts
  sent,         \* history: frames <<counter, report>> on the air this session
  heard,        \* history: reports the network has accepted
  accounted,    \* history: the uplink counters below it have been committed
  powerLosses, watchdogs

memory == <<params, needsCommit, loraUp, back>>
store == <<flash, flashOk>>
call == <<msg, retCount, retVal, code>>
module == <<modUp, modDown, saved>>
network == <<srvNext, sent, heard>>
resets == <<powerLosses, watchdogs>>
vars == <<pc, memory, store, call, module, network, accounted, resets>>

Labels == {"boot", "read", "menu", "lora", "idle", "attempt", "result",
           "counters", "erase", "write", "done"}

TypeOK ==
  /\ pc \in Labels
  /\ params \in Params /\ needsCommit \in BOOLEAN
  /\ flash \in Params /\ flashOk \in BOOLEAN
  /\ back \in {"lora", "counters", "done"}
  /\ loraUp \in BOOLEAN /\ retVal \in BOOLEAN
  /\ msg \in 0..MaxMsgs
  /\ retCount \in 0..(RepeatCount + 1)
  /\ code \in Codes
  /\ modUp \in Counters /\ modDown \in Counters
  /\ saved \in [up : Counters, down : Counters]
  /\ srvNext \in 0..(MaxCnt + 1)
  /\ sent \in SUBSET (Counters \X Msgs)
  /\ heard \in SUBSET Msgs
  /\ accounted \in Counters
  /\ powerLosses \in 0..MaxPowerLosses
  /\ watchdogs \in 0..MaxWatchdogs

\* A provisioned node, its parameters in flash, is switched on.
Init ==
  /\ pc = "boot"
  /\ params = ZeroParams /\ needsCommit = FALSE
  /\ flash = [ZeroParams EXCEPT !.keys = TRUE] /\ flashOk = TRUE
  /\ back = "lora" /\ loraUp = FALSE
  /\ msg = 0 /\ retCount = 0 /\ retVal = TRUE /\ code = "NoError"
  /\ modUp = 0 /\ modDown = 0 /\ saved = [up |-> 0, down |-> 0]
  /\ srvNext = 0 /\ sent = {} /\ heard = {} /\ accounted = 0
  /\ powerLosses = 0 /\ watchdogs = 0

-----------------------------------------------------------------------------
(* Resets                                                                  *)

\* RAM is zeroed and setup() runs; retCount and its like are set by the next
\* call of transmit() before they are used.
ToBoot ==
  /\ pc' = "boot"
  /\ params' = ZeroParams
  /\ needsCommit' = FALSE
  /\ loraUp' = FALSE
  /\ UNCHANGED <<back, store, call, network, accounted>>

\* The module goes down with the node and comes up with what it has saved.
PowerLoss ==
  /\ pc # "boot"
  /\ powerLosses < MaxPowerLosses
  /\ powerLosses' = powerLosses + 1
  /\ ToBoot
  /\ modUp' = saved.up
  /\ modDown' = saved.down
  /\ UNCHANGED <<saved, watchdogs>>

\* Variant of WatchdogReset: flash is written without resetting the watchdog.
WatchdogAnywhere ==
  /\ pc \in {"result", "write"}
  /\ watchdogs < MaxWatchdogs
  /\ watchdogs' = watchdogs + 1
  /\ ToBoot
  /\ UNCHANGED <<module, powerLosses>>

\* delay(20000), or delay(2000), without sodaq_wdt_reset(): the watchdog
\* period is two seconds.
WatchdogReset ==
  /\ pc = "result"
  /\ code \in {"Timeout", "Busy"}
  /\ watchdogs < MaxWatchdogs
  /\ watchdogs' = watchdogs + 1
  /\ ToBoot
  /\ UNCHANGED <<module, powerLosses>>

-----------------------------------------------------------------------------
(* setup()                                                                 *)

\* A command of the driver is answered in time.
Answers == IF SlowModule THEN BOOLEAN ELSE {TRUE}

\* Variant of RestoreCounters: the counters are not set.
RestoreNothing(p, joined) ==
  /\ modUp' = IF joined THEN 0 ELSE saved.up
  /\ modDown' = IF joined THEN 0 ELSE saved.down
  /\ UNCHANGED saved

\* initLora() as the module sees it: a reset brings back the saved counters, a
\* new session starts from zero, and then setUpCntr() and setDownCntr() set
\* the given ones and save them.  The results of the two are ignored.  A save
\* stores both counters, and may do so in vain.
RestoreCounters(p, joined) ==
  \E reset, setUp, setDown \in Answers, save \in BOOLEAN :
    /\ modUp' = IF setUp THEN p.up
                ELSE IF joined THEN 0 ELSE IF reset THEN saved.up ELSE modUp
    /\ modDown' = IF setDown THEN p.down
                  ELSE IF joined THEN 0 ELSE IF reset THEN saved.down ELSE modDown
    /\ saved' = IF save THEN [up |-> modUp', down |-> modDown'] ELSE saved

\* printBootUpMessage() reads the hardware EUI, and for that runs initLora()
\* before the parameters have been read.
PrintBootUpMessage ==
  /\ pc = "boot"
  /\ pc' = "read"
  /\ RestoreCounters(params, FALSE)
  /\ UNCHANGED <<memory, store, call, network, accounted, resets>>

\* params.read(): flash goes to RAM as it is; if the header or the checksum is
\* wrong, reset() puts the defaults in, but leaves the frame counters alone.
\* Its callback wants the hardware EUI, and runs initLora() once more if the
\* boot message did not get it.
ReadParams ==
  /\ pc = "read"
  /\ pc' = "menu"
  /\ params' = IF flashOk THEN flash
               ELSE [flash EXCEPT !.cfg = DefaultConfig, !.keys = FALSE, !.offset = 0]
  /\ needsCommit' = (needsCommit \/ ~flashOk)
  /\ \/ UNCHANGED module
     \/ ~flashOk /\ SlowModule /\ RestoreCounters(params', FALSE)
  /\ UNCHANGED <<loraUp, back, store, call, network, accounted, resets>>

\* commit(): unless forced, it writes only what is marked as changed.
Commit(forced, next) ==
  IF forced \/ needsCommit
    THEN pc' = "erase" /\ back' = next
    ELSE pc' = next /\ UNCHANGED back

\* handleBootUpCommands(), nobody at the console.
BootMenu ==
  /\ pc = "menu"
  /\ Commit(FALSE, "lora")
  /\ UNCHANGED <<params, needsCommit, loraUp, store, call, module, network,
                 accounted, resets>>

\* initLora(): it cannot come up without keys, and may fail to with them.
\* Over-the-air activation starts a new session.
InitLora ==
  /\ pc = "lora"
  /\ pc' = "idle"
  /\ loraUp' \in {FALSE, params.keys}
  /\ LET joined == OtaaEnabled /\ loraUp'
     IN  /\ RestoreCounters(params, joined)
         /\ srvNext' = IF joined THEN 0 ELSE srvNext
         /\ sent' = IF joined THEN {} ELSE sent
         /\ accounted' = IF joined THEN 0 ELSE accounted
  /\ UNCHANGED <<params, needsCommit, back, store, call, heard, resets>>

-----------------------------------------------------------------------------
(* commit(): FlashClass::erase() and FlashClass::write()                   *)

EraseFlash ==
  /\ pc = "erase"
  /\ pc' = "write"
  /\ flash' = ErasedParams
  /\ flashOk' = FALSE
  /\ UNCHANGED <<memory, call, module, network, accounted, resets>>

\* The last page holds the counters and the checksum; until it is written the
\* record does not check.
WriteFlash ==
  /\ pc = "write"
  /\ pc' = back
  /\ flash' = params
  /\ flashOk' = TRUE
  /\ needsCommit' = FALSE
  /\ accounted' = IF params.up > accounted THEN params.up ELSE accounted
  /\ UNCHANGED <<params, loraUp, back, call, module, network, resets>>

-----------------------------------------------------------------------------
(* Between reports                                                         *)

\* ltc.Update(), before a report is made: a battery that was changed, or what
\* passes for it, becomes the new charge offset.  It is neither marked nor
\* committed.
PollGauge ==
  /\ pc = "idle"
  /\ \E o \in Offsets : params' = [params EXCEPT !.offset = o]
  /\ UNCHANGED <<pc, needsCommit, loraUp, back, store, call, module, network,
                 accounted, resets>>

-----------------------------------------------------------------------------
(* transmit()                                                              *)

Begin ==
  /\ pc = "idle"
  /\ msg < MaxMsgs
  /\ msg' = msg + 1
  /\ retCount' = 0
  /\ retVal' = TRUE
  /\ pc' = IF loraUp THEN "attempt" ELSE "done"
  /\ UNCHANGED <<code, memory, store, module, network, accounted, resets>>

\* macTransmit(), the frame not sent: the module refuses the command, or the
\* driver misses its answer.  A used-up counter (NetworkFatalError) is refused
\* for good.
Refused ==
  /\ pc = "attempt"
  /\ pc' = "result"
  /\ code' \in Codes \ {"NoError", "Timeout", "NoAcknowledgment"}
  /\ UNCHANGED <<memory, store, msg, retCount, retVal, module, network,
                 accounted, resets>>

\* macTransmit(), the frame sent under the next counter.  The network ignores
\* a counter it has gone past.  A confirmed frame is a success only once its
\* acknowledgment is in; any answer may get lost on the way to the driver.
OnAir ==
  /\ pc = "attempt"
  /\ pc' = "result"
  /\ modUp < MaxCnt
  /\ modUp' = modUp + 1
  /\ sent' = sent \cup {<<modUp, msg>>}
  /\ \E accepted \in {FALSE, modUp >= srvNext} :
       /\ heard' = IF accepted THEN heard \cup {msg} ELSE heard
       /\ srvNext' = IF accepted THEN modUp + 1 ELSE srvNext
       /\ \/ code' \in {"NoResponse", "InternalError"}
          \/ code' = "Timeout" /\ watchdogs < MaxWatchdogs
          \/ code' = "NoAcknowledgment" /\ AckEnabled
          \/ code' = "NoError" /\ (AckEnabled => accepted)
       /\ modDown' \in
            (IF code' = "NoError" /\ AckEnabled THEN {} ELSE {modDown}) \cup
            (IF accepted /\ modDown < MaxCnt THEN {modDown + 1} ELSE {modDown})
  /\ UNCHANGED <<memory, store, msg, retCount, retVal, saved, accounted, resets>>

\* NoError: an over-the-air configuration may have come back from a network that
\* has the report.  It is put into RAM and committed, unforced.
Success ==
  /\ pc = "result"
  /\ code = "NoError"
  /\ \/ /\ pc' = "counters"
        /\ UNCHANGED <<params, back>>
     \/ /\ msg \in heard
        /\ \E c \in Configs : params' = [params EXCEPT !.cfg = c]
        /\ Commit(FALSE, "counters")
  /\ UNCHANGED <<needsCommit, loraUp, store, call, module, network, accounted,
                 resets>>

\* getDownCntr() and getUpCntr().  A query that times out gives -1, the
\* all-ones counter, and its late answer is read by the next one.
Readings ==
  {<<modDown, modUp>>} \cup
  (IF SlowModule
     THEN {<<modDown, MaxCnt>>, <<MaxCnt, modUp>>, <<MaxCnt, MaxCnt>>, <<MaxCnt, modDown>>}
     ELSE {})

\* Variant of ReadCounters: the commit is not forced.
ReadCountersUnforced ==
  /\ pc = "counters"
  /\ \E r \in Readings : params' = [params EXCEPT !.down = r[1], !.up = r[2]]
  /\ Commit(FALSE, "done")
  /\ UNCHANGED <<needsCommit, loraUp, store, call, module, network, accounted,
                 resets>>

\* Variant of ReadCounters: the loop goes on after a success.
ReadCountersRetrying ==
  /\ pc = "counters"
  /\ \E r \in Readings : params' = [params EXCEPT !.down = r[1], !.up = r[2]]
  /\ Commit(TRUE, "attempt")
  /\ UNCHANGED <<needsCommit, loraUp, store, call, module, network, accounted,
                 resets>>

\* The counters go into the parameters as they were read; commit(true).
ReadCounters ==
  /\ pc = "counters"
  /\ \E r \in Readings : params' = [params EXCEPT !.down = r[1], !.up = r[2]]
  /\ Commit(TRUE, "done")
  /\ UNCHANGED <<needsCommit, loraUp, store, call, module, network, accounted,
                 resets>>

\* Variants of Retry: true after the last repeat; a busy module is asked again for
\* ever.
RetryTrue ==
  /\ pc = "result"
  /\ code \notin {"NoError", "Timeout"}
  /\ retCount' = retCount + 1
  /\ retVal' = (retVal /\ code \notin FatalCodes)
  /\ pc' = IF retCount' > RepeatCount THEN "done" ELSE "attempt"
  /\ UNCHANGED <<memory, store, msg, code, module, network, accounted, resets>>

RetryBusyForever ==
  /\ pc = "result"
  /\ code \notin {"NoError", "Timeout"}
  /\ retCount' = IF code = "Busy" THEN retCount ELSE retCount + 1
  /\ retVal' = (retVal /\ code \notin FatalCodes /\ retCount' <= RepeatCount)
  /\ pc' = IF retCount' > RepeatCount THEN "done" ELSE "attempt"
  /\ UNCHANGED <<memory, store, msg, code, module, network, accounted, resets>>

\* Any other result: try again, until the retries are used up.  The program
\* goes on after an error it calls fatal, but will return false.
Retry ==
  /\ pc = "result"
  /\ code \notin {"NoError", "Timeout"}
  /\ retCount' = retCount + 1
  /\ retVal' = (retVal /\ code \notin FatalCodes /\ retCount' <= RepeatCount)
  /\ pc' = IF retCount' > RepeatCount THEN "done" ELSE "attempt"
  /\ UNCHANGED <<memory, store, msg, code, module, network, accounted, resets>>

Return ==
  /\ pc = "done"
  /\ pc' = "idle"
  /\ UNCHANGED <<memory, store, call, module, network, accounted, resets>>

-----------------------------------------------------------------------------
Node ==
  \/ PrintBootUpMessage \/ ReadParams \/ BootMenu \/ InitLora
  \/ EraseFlash \/ WriteFlash
  \/ Begin \/ Refused \/ OnAir \/ Success \/ ReadCounters \/ Retry \/ Return

Next == Node \/ PollGauge \/ WatchdogReset \/ PowerLoss

Spec == Init /\ [][Next]_vars

\* The processor executes; a stuck delay ends in the watchdog's reset.  Nothing is
\* asked of the gauge.
FairSpec == Spec /\ WF_vars(Node \/ WatchdogReset)

-----------------------------------------------------------------------------
(* Properties                                                              *)

\* What transmit() returning true means to its caller, with LoRa up: the
\* report has been on the air, and if acknowledgments are asked for, the
\* network has it.
TrueMeansSent ==
  pc = "done" /\ retVal /\ loraUp =>
    /\ \E f \in sent : f[2] = msg
    /\ AckEnabled => msg \in heard

\* The flash and RAM agree on all but the charge offset.
Stored ==
  /\ flash.up = params.up /\ flash.down = params.down
  /\ flash.cfg = params.cfg /\ flash.keys = params.keys

\* At rest the flash checks, and what the node needs to be heard is in it as it is
\* in RAM, so that a reset at rest does not lose it: the counters, the over-the-air
\* settings, the keys.  The charge offset is the exception: ltc.Update() changes it
\* without a mark, and until the next success it is in RAM alone.
FlashHoldsRam == pc = "idle" => flashOk /\ Stored

\* The watchdog never hits a half-written flash, and a node that lost its keys
\* lost them to a power loss, between the erase and the write.
OnlyPowerLossDeprovisions ==
  /\ pc = "result" => flashOk
  /\ ~flash.keys => powerLosses > 0 \/ pc = "write"

\* While the module answers in time, no frame goes out under a counter that a
\* commit has recorded as used, whatever resets come in between.  (Counters
\* used since the last commit are used again after a reset.)
RecordedNeverReused ==
  [][\A f \in sent' \ sent : f[1] >= accounted]_vars

\* The report at hand as its sender sees it: where it is, and the counters it has
\* gone out under.
State ==
  IF pc = "idle" THEN "ready"
  ELSE IF pc \in {"attempt", "result"} THEN "sending"
  ELSE IF pc \in {"counters", "done"} \/ (pc \in {"erase", "write"} /\ back # "lora")
    THEN "decided" ELSE "down"
AtHand == State \in {"sending", "decided"}
CountersUsed == IF AtHand THEN {f[1] : f \in {g \in sent : g[2] = msg}} ELSE {}

\* However often a report is repeated, whatever the module answers and whenever a
\* reset comes: transmit() does with it what its callers rely on.
Delivery == INSTANCE ReportDelivery WITH
  Repeats <- RepeatCount, Acknowledged <- AckEnabled,
  state <- State, radio <- loraUp, config <- params.cfg, frames <- CountersUsed,
  arrived <- AtHand /\ msg \in heard, verdict <- State = "decided" /\ retVal
ReportsDelivered == Delivery!Spec

\* transmit() returns, or the watchdog or a power loss ends it.
TransmitTerminates == pc = "attempt" ~> pc \in {"done", "boot"}

=============================================================================
